------------------------------ MODULE Pipeline ------------------------------
(***************************************************************************)
(* The FIRRTL front end followed by the LNAST validator, as the compiler   *)
(* runs them (spec 4.5 and 4.6): ExprLowering turns one user module into   *)
(* the statements under top -> stmts; when it returns without an error,    *)
(* SemanticCheck walks the tree it built.  The validator sees names as the *)
(* strings the lowering concatenates ("$a", "%out_io", "___F3", ...).      *)
(*                                                                         *)
(* Below the composition are two interpreters, used by the properties:    *)
(* FEnv, a reference semantics of the FIRRTL statements of the module, and *)
(* LEnv, the semantics of the LNAST the lowering emitted.  Both map a      *)
(* location (the FIRRTL name, its fields and indices) to a term over the   *)
(* module's inputs, the registers' current values and literals.  A mux, a  *)
(* when and an if merge their branches the same way; a dynamic index is   *)
(* part of the location, rendered from the index's term.                   *)
(***************************************************************************)
EXTENDS ExprLowering

CONSTANTS
  MaxTemps,  \* the temporaries ___F0 .. ___F<MaxTemps> the validator knows
  OutIds     \* the output port identifiers

VARIABLES
  pc, temp_list, not_read_list, have_read_list, verr, warning \* the validator

lowering == <<mod, si, st, lnast>>
checking == <<pc, temp_list, not_read_list, have_read_list, verr, warning>>
pvars     == <<lowering, checking>>

\* The text of a name: the prefix, then the path as the code concatenates it.
PathStr(p) ==
  FoldLeft(LAMBDA a, g : a \o g.sep \o g.v \o (IF g.sep = "[" THEN "]" ELSE ""), "", p)
NameStr(n) == n.pre \o PathStr(n.p)

RECURSIVE AsText(_)
AsText(x) == [t |-> x.t, n |-> NameStr(x.n), ch |-> [i \in DOMAIN x.ch |-> AsText(x.ch[i])]]

LnastText == [i \in DOMAIN lnast |-> AsText(lnast[i])]

\* Progs is read only by SemanticCheck's Init, which the composition does
\* not use: the validator's program is the lowering's output.
SC == INSTANCE SemanticCheck
        WITH prog <- LnastText, err <- verr, Progs <- {},
             TempNames <- {"___F" \o ToString(k) : k \in 0..MaxTemps},
             OutNames <- {p \o id : p \in {"%", "%out_"}, id \in OutIds}

PipelineInit ==
  /\ Init
  /\ pc = 1
  /\ temp_list = <<>> /\ not_read_list = <<>> /\ have_read_list = <<>>
  /\ verr = SC!NoErr
  /\ warning = <<>>

\* A step of the lowering (one of the disjuncts of ExprLowering's Next,
\* each its own action), or, once the lowering has returned, a step of the
\* validator on the tree it built.
LowerStep(A)    == A /\ UNCHANGED checking
ValidateStep(A) == Done /\ UNCHANGED lowering /\ A

PipelineNext ==
  \/ LowerStep(ListPort)
  \/ LowerStep(Declare) \/ LowerStep(NodeStmt) \/ LowerStep(ConnectStmt)
  \/ LowerStep(WhenStmt) \/ LowerStep(StopStmt) \/ LowerStep(NoOpStmt)
  \/ LowerStep(AttachStmt)
  \/ LowerStep(EndModule)
  \/ ValidateStep(SC!Statement)
  \/ ValidateStep(SC!ReportNotRead)

PipelineSpec == PipelineInit /\ [][PipelineNext]_pvars /\ WF_pvars(PipelineNext)

-----------------------------------------------------------------------------
(* Terms and locations shared by the two interpreters.  A location is a   *)
(* sequence of strings: the base identifier, then ".f" for a field and    *)
(* "[i" for an index.                                                      *)

T(op, a, args) == [op |-> op, a |-> a, args |-> args]

RECURSIVE TermStr(_)
TermStr(t) ==
  t.op \o "(" \o t.a \o FoldLeft(LAMBDA acc, x : acc \o "," \o TermStr(x), "", t.args) \o ")"

KeyStr(k) == FoldLeft(LAMBDA a, e : a \o e, "", k)
Input(k)  == T("in", KeyStr(k), <<>>)
Q(k)      == T("q", KeyStr(k), <<>>)
LitT(s)    == T("lit", s, <<>>)

NoEnv == [k \in {} |-> LitT("")]

\* The value of a location after a two-way branch on c.
Merge(c, v1, v2) == IF v1 = v2 THEN v1 ELSE T("mux", "", <<c, v1, v2>>)

\* Two environments joined after a branch; Dflt gives an unwritten location.
MergeEnv(c, e1, e2, Dflt(_)) ==
  LET get(e, k) == IF k \in DOMAIN e THEN e[k] ELSE Dflt(k)
  IN  [k \in DOMAIN e1 \cup DOMAIN e2 |-> Merge(c, get(e1, k), get(e2, k))]

-----------------------------------------------------------------------------
(* FIRRTL reference semantics of the module's statements, read in order.  *)
(* A register read is its current value whatever was connected to it; a   *)
(* location nothing was connected to is an input (a register: its value). *)

FRegs == {x.id : x \in {x \in ToSet(mod.body) : x.k = "reg"}}
FDefault(k) == IF k[1] \in FRegs THEN Q(k) ELSE Input(k)
FRead(env, k) ==
  IF k[1] \in FRegs THEN Q(k) ELSE IF k \in DOMAIN env THEN env[k] ELSE Input(k)

RECURSIVE FKey(_, _), FVal(_, _), FExec(_, _)

FKey(env, e) ==
  CASE e.k = "ref"    -> <<e.id>>
    [] e.k = "field"  -> Append(FKey(env, e.e), "." \o e.f)
    [] e.k = "index"  -> Append(FKey(env, e.e), "[" \o ToString(e.i))
    [] e.k = "access" -> Append(FKey(env, e.e), "[" \o TermStr(FVal(env, e.idx)))

FVal(env, e) ==
  CASE e.k \in {"ref", "field", "index", "access"} -> FRead(env, FKey(env, e))
    [] e.k \in {"uint", "sint"} -> LitT(ToString(e.v))
    [] e.k = "mux" -> Merge(FVal(env, e.c), FVal(env, e.t), FVal(env, e.f))
    [] e.k = "validif" -> FVal(env, e.v)
    [] e.k = "prim" ->
         T("call", Callee(e.op),
           [i \in DOMAIN e.args |-> FVal(env, e.args[i])] \o [i \in DOMAIN e.cs |-> LitT(e.cs[i])])

FExec(env, x) ==
  CASE x.k = "node" -> (<<x.id>> :> FVal(env, x.e)) @@ env
    [] x.k \in {"connect", "pconnect"} -> (FKey(env, x.loc) :> FVal(env, x.e)) @@ env
    [] x.k = "when" ->
         MergeEnv(FVal(env, x.c),
                  FoldLeft(LAMBDA a, y : FExec(a, y), env, x.conseq),
                  FoldLeft(LAMBDA a, y : FExec(a, y), env, x.alt), FDefault)
    [] OTHER -> env

FEnv == FoldLeft(LAMBDA a, y : FExec(a, y), NoEnv, mod.body)

-----------------------------------------------------------------------------
(* LNAST semantics: assign, dp_assign and func_call write their first     *)
(* child; dot and select make their first child (a temporary) name a      *)
(* location; an if runs its stmts children and merges them.  A sigil only *)
(* tells the kind of a name: a name written with '#' is a register, and   *)
(* an unwritten r.__q_pin is the register's current value.                *)

RECURSIVE Sub(_)
Sub(x) == <<x>> \o FoldLeft(LAMBDA a, c : a \o Sub(c), <<>>, x.ch)
RECURSIVE PreorderFrom(_)
PreorderFrom(i) == IF i > Len(lnast) THEN <<>> ELSE Sub(lnast[i]) \o PreorderFrom(i + 1)
Preorder == PreorderFrom(1)

\* The nodes of the tree, as a set.
RECURSIVE Nodes(_)
Nodes(x) == {x} \cup UNION {Nodes(c) : c \in ToSet(x.ch)}
LNodes == UNION {Nodes(lnast[i]) : i \in DOMAIN lnast}

LRegs == {x.n.p[1].v : x \in {x \in LNodes : x.t = "ref" /\ x.n.pre = "#"}}
LDefault(k) ==
  CASE Len(k) > 1 /\ Last(k) = ".__q_pin" -> Q(Front(k))
    [] k[1] \in LRegs -> Q(k)
    [] OTHER -> Input(k)

PathKey(p) == [i \in DOMAIN p |-> IF i = 1 THEN p[1].v ELSE p[i].sep \o p[i].v]
TmpId(n)   == n.p[1].v

\* m is [env, alias]: the written locations and the temporaries naming one.
LKey(m, n) ==
  IF IsTemp(n)
  THEN IF TmpId(n) \in DOMAIN m.alias THEN m.alias[TmpId(n)] ELSE <<"___F" \o TmpId(n)>>
  ELSE PathKey(n.p)

LRead(m, k) == IF k \in DOMAIN m.env THEN m.env[k] ELSE LDefault(k)

LVal(m, c) ==
  IF c.t = "const"
  THEN IF c.n.pre \in {"rawu", "raws"} THEN T("raw", NameStr(c.n), <<>>) ELSE LitT(c.n.p[1].v)
  ELSE LRead(m, LKey(m, c.n))

Write(m, n, v)  == [m EXCEPT !.env = (LKey(m, n) :> v) @@ @]
Alias(m, n, k)  == [m EXCEPT !.alias = (TmpId(n) :> k) @@ @]

RECURSIVE LExec(_, _), LRun(_, _, _)
LExec(m, x) ==
  CASE x.t \in {"assign", "dp_assign"} -> Write(m, x.ch[1].n, LVal(m, x.ch[2]))
    [] x.t = "func_call" ->
         Write(m, x.ch[1].n,
               T("call", x.n.p[1].v, [i \in 1..(Len(x.ch) - 1) |-> LVal(m, x.ch[i + 1])]))
    [] x.t = "dot" ->
         Alias(m, x.ch[1].n,
               LKey(m, x.ch[2].n) \o [i \in 1..(Len(x.ch) - 2) |-> "." \o NameStr(x.ch[i + 2].n)])
    [] x.t = "select" ->
         Alias(m, x.ch[1].n,
               Append(LKey(m, x.ch[2].n),
                      "[" \o IF x.ch[3].t = "const" THEN x.ch[3].n.p[1].v
                             ELSE TermStr(LVal(m, x.ch[3]))))
    [] x.t = "if" ->
         LET bs == SelectSeq(x.ch, LAMBDA c : c.t = "stmts")
             cs == SelectSeq(x.ch, LAMBDA c : c.t = "cond")
             run(b) == LRun(m, b.ch, 1)
             m1 == run(bs[1])
             m2 == IF Len(bs) > 1 THEN run(bs[2]) ELSE m
         IN  IF bs = <<>> THEN m
             ELSE [env |-> MergeEnv(LVal(m, cs[1]), m1.env, m2.env, LDefault),
                   alias |-> m1.alias @@ m2.alias]
    [] OTHER -> m

\* The statements of xs from the i-th on, run from m.  The comparison of m1
\* with itself makes TLC evaluate each state of the run before the next
\* statement, instead of one nested evaluation of the whole chain.
LRun(m, xs, i) ==
  IF i > Len(xs) THEN m
  ELSE LET m1 == LExec(m, xs[i]) IN IF m1 = m1 THEN LRun(m1, xs, i + 1) ELSE m1

LEnv == LRun([env |-> NoEnv, alias |-> [t \in {} |-> <<>>]], lnast, 1)

-----------------------------------------------------------------------------
(* Properties.                                                              *)

NodeTypes == {"assign", "dp_assign", "dot", "select", "func_call", "if", "stmts",
              "cond", "ref", "const"}

TypeOK ==
  /\ mod \in Mods
  /\ si \in 1..(NP + NB + 2)
  /\ st.cnt \in 0..(MaxTemps + 1) /\ st.seq \in Nat /\ st.err \in STRING
  /\ \A x \in LNodes : x.t \in NodeTypes
  /\ SC!TypeOK

\* The temporaries a node writes and the names it reads: the first child of
\* an operation is its result, its other ref children and a cond's name are
\* read.
Writes(x) ==
  IF x.t \in {"assign", "dp_assign", "dot", "select", "func_call"} THEN {x.ch[1].n} ELSE {}
Reads(x) ==
  CASE x.t \in {"assign", "dp_assign", "dot", "select", "func_call"} ->
         {x.ch[i].n : i \in {i \in 2..Len(x.ch) : x.ch[i].t = "ref"}}
    [] x.t = "cond" -> {x.n}
    [] OTHER -> {}

\* Spec 4.5: a compound expression is lowered into temporaries whose
\* defining nodes come first.  Whatever the nesting of muxes, valid-ifs,
\* primitive operations and sub-accesses (ListPrimOpInfo, HandleMuxAssign,
\* HandleBundVecAcc, FlattenExpression), every temporary read in the tree is
\* written by a node earlier in it.
OperandsBeforeUse ==
  LET P == Preorder IN
  \A i \in DOMAIN P :
    \A n \in Reads(P[i]) :
      IsTemp(n) => \E j \in 1..(i - 1) : n \in Writes(P[j])

\* Spec 4.5: the LNAST a module is lowered to computes what the FIRRTL
\* module does: after the last statement every location the FIRRTL
\* statements write (a node, a wire, a register's next value, an output,
\* a field or an element of one) holds the same term in the LNAST, through
\* the sigils of get_full_name, the dot and select chains of
\* CreateDotsSelsFromStr, the if nodes of when, mux and validif, and the
\* literal and operation names the handlers emit.
DataflowPreserved ==
  Done => LET f == FEnv
                 l == LEnv
             IN  \A k \in DOMAIN f : LRead(l, k) = f[k]

\* The contract of the front end's output (spec 4.5 and 4.6): the tree
\* computes what the FIRRTL module does, the validator accepts it, warning
\* only of temporaries never read, and a write to an output ('%') is a
\* dp_assign (spec 3.2).
LnastContract ==
  /\ DataflowPreserved
  /\ Done => (SC!Done \/ verr = SC!NoErr)
  /\ SC!Done => SC!WarnOnlyUnreadTemps
  /\ \A x \in LNodes :
       x.t = "assign" => x.ch[1].n.pre \notin {"%", "%out_"}

====
