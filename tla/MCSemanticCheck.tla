-------------------------- MODULE MCSemanticCheck --------------------------
(***************************************************************************)
(* Inputs of the semantic validator: top-level statement lists built from  *)
(* the LNAST shapes the lowering emits (assignments, n-ary operations,     *)
(* tuples, if with cstmts/cond/stmts, for, while, func_call, func_def)     *)
(* over two temporaries ___a and ___b, a wire x and an output %o.          *)
(***************************************************************************)
EXTENDS SemanticCheck

MCTempNames == {"___a", "___b"}
MCOutNames  == {"%o"}

Leaf(t, n)    == [t |-> t, n |-> n, ch |-> <<>>]
R(n)          == Leaf("ref", n)
K(v)          == Leaf("const", v)
Node(t, ch)   == [t |-> t, n |-> "", ch |-> ch]
Asg(l, r)     == Node("assign", <<R(l), r>>)
Op(t, l, a, b) == Node(t, <<R(l), a, b>>)
Body(t, ss)   == Node(t, ss)
If(c, ss)     == Node("if", <<Body("cstmts", <<>>), Node("cond", <<R(c)>>),
                              Body("stmts", ss)>>)
Call(l, f, a) == Node("func_call", <<R(l), R(f), R(a)>>)

\* Statements that write and read the names.
WriteA   == Asg("___a", K("1"))
PlusA    == Op("plus", "___a", R("x"), K("1"))
ReadA    == Asg("x", R("___a"))
ReadX    == Asg("%o", R("x"))
WriteX   == Asg("x", K("1"))
TupleB   == Node("tuple", <<R("___b"), Asg("__a", K("1")),
                            Asg("__b", R("___a"))>>)
IfA      == If("x", <<ReadA>>)
WhileA   == Node("while", <<Node("cond", <<R("___a")>>),
                            Body("stmts", <<Op("dot", "___b", R("___a"),
                                               K("f"))>>)>>)
ForA     == Node("for", <<R("i"), R("___a"), Body("stmts", <<WriteX>>)>>)
CallA    == Call("%o", "f", "___a")
DefF     == Node("func_def", <<R("f"), Node("cond", <<K("true")>>),
                               Body("stmts", <<PlusA>>)>>)
BadLhs   == Node("assign", <<K("1"), R("x")>>)

Stmts == {WriteA, PlusA, ReadA, ReadX, WriteX, TupleB, IfA, WhileA, ForA,
          CallA, DefF, BadLhs}

\* Lists of one to three statements.
MCProgs == UNION {[1..k -> Stmts] : k \in 1..3}

\* A func_call in the body of an if, as the lowering of a primitive
\* operation under a when produces it.
MCProgsNested ==
  {<<WriteA, If("x", <<CallA>>)>>, <<WriteA, If("x", <<ReadA>>)>>}

MCProgsSpec == MCProgs \cup MCProgsNested

====
