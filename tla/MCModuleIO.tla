---------------------------- MODULE MCModuleIO ----------------------------
(***************************************************************************)
(* A circuit of a child module Child (a bundle port io with a flipped      *)
(* SInt field and an output vector v of two UInt<8>), two external         *)
(* modules Foo and Foo_1 of the same Verilog module Foo with different     *)
(* integer parameters (negative chars and an empty value included), a top  *)
(* module Top with an AsyncReset port rst and a body of up to two          *)
(* statements, and a module Mod2 whose register is reset by a UInt<1>      *)
(* port also named rst.  Modules come child-first, as the front end emits  *)
(* them, or with Top first.                                                *)
(***************************************************************************)
EXTENDS ModuleIO

MCTIds == {"_T_1"}

Ty(k, w)     == [k |-> k, w |-> w, fs |-> <<>>, n |-> 0, el |-> <<>>]
U8 == Ty("uint", 8)
U1 == Ty("uint", 1)
S4 == Ty("sint", 4)
Clk == Ty("clock", 0)
Async == Ty("async", 0)
Bund(fs)     == [k |-> "bundle", w |-> 0, fs |-> fs, n |-> 0, el |-> <<>>]
F(id, fl, t) == [id |-> id, flip |-> fl, ty |-> t]
Vec(n, t)    == [k |-> "vector", w |-> 0, fs |-> <<>>, n |-> n, el |-> <<t>>]

IO == Bund(<<F("a", FALSE, U8), F("b", TRUE, S4)>>)
V2 == Vec(2, U8)

P(s) == FoldLeft(LAMBDA acc, x : IF x[1] = "." THEN Fld(acc, x[2]) ELSE Idx(acc, x[2]),
                 Base(s[1]), Tail(s))

Port(id, d, t) == [id |-> id, dir |-> d, ty |-> t]
IntP(id, bs)   == [id |-> id, k |-> "int", bytes |-> bs, digit |-> TRUE]
StrP(id, dg)   == [id |-> id, k |-> "string", bytes |-> <<>>, digit |-> dg]

NoRst == [k |-> "lit", path |-> <<>>]
RefRst(s) == [k |-> "ref", path |-> P(s)]
St(k, id, t, r, md, e, sd) ==
  [k |-> k, id |-> id, ty |-> t, rst |-> r, mod |-> md, e |-> e, side |-> sd]
Inst(id, md)  == St("inst", id, U1, NoRst, md, <<>>, "")
Acc(s, sd)    == St("acc", "", U1, NoRst, "", P(s), sd)
RegS(id, t, r) == St("reg", id, t, r, "", <<>>, "")
WireS(id, t)  == St("wire", id, t, NoRst, "", <<>>, "")

Mod(id, dn, ext, ports, params, body) ==
  [id |-> id, defname |-> dn, ext |-> ext, ports |-> ports, params |-> params, body |-> body]

Child == Mod("Child", "Child", FALSE, <<Port("io", DirIn, IO), Port("v", DirOut, V2)>>, <<>>,
             <<Acc(<<"io", <<".", "b">> >>, "lhs"), Acc(<<"v", <<"[", 2>> >>, "lhs")>>)
Foo   == Mod("Foo", "Foo", TRUE, <<Port("x", DirIn, U8)>>,
             <<IntP("W", <<-3>>), StrP("S", FALSE)>>, <<>>)
Foo1  == Mod("Foo_1", "Foo", TRUE, <<Port("x", DirIn, U8)>>,
             <<IntP("W", <<1, -128>>), IntP("E", <<>>)>>, <<>>)
Mod2  == Mod("Mod2", "Mod2", FALSE, <<Port("rst", DirIn, U1), Port("clk", DirIn, Clk)>>, <<>>,
             <<RegS("r", U8, RefRst(<<"rst">>))>>)
Top(b) == Mod("Top", "Top", FALSE, <<Port("rst", DirIn, Async), Port("o", DirOut, V2)>>, <<>>, b)

TopStmts ==
  {Inst("c", "Child"), Inst("f", "Foo_1"), Inst("_T_1", "Child"),
   Acc(<<"c", <<".", "io">>, <<".", "a">> >>, "lhs"),
   Acc(<<"c", <<".", "io">>, <<".", "b">> >>, "rhs"),
   Acc(<<"c", <<".", "v">>, <<"[", 2>> >>, "rhs"),
   Acc(<<"c", <<".", "io">> >>, "lhs"),
   Acc(<<"_T_1", <<".", "io">>, <<".", "a">> >>, "lhs"),
   Acc(<<"o", <<"[", 2>> >>, "lhs"),
   RegS("q", Bund(<<F("a", FALSE, S4)>>), RefRst(<<"rst">>)),
   Acc(<<"q", <<".", "a">> >>, "rhs"),
   WireS("w", Async),
   RegS("p", U8, RefRst(<<"w">>))}

Bodies == UNION {[1..k -> TopStmts] : k \in 1..2}

MCCircuits ==
  {<<Child, Foo, Foo1, Top(b), Mod2>> : b \in Bodies}
  \cup {<<Top(b), Child, Foo, Foo1, Mod2>> : b \in Bodies}

=============================================================================
