----------------------------- MODULE MCPipeline -----------------------------
(***************************************************************************)
(* FIRRTL modules for the lowering and the validator.  The ports are       *)
(* given as the leaves create_io_list lists: inputs a, b, the 1-bit c, the *)
(* clock clk, the asynchronous reset arst, the index i, a vector v of two  *)
(* elements (its marker leaf first, width 0) and io.x; outputs o and io.y. *)
(* Each body is a register and a wire declaration followed by one choice   *)
(* per slot: how _T_1 is defined, how it reaches a sink, and one more      *)
(* statement.  A location is read only after the statements that write   *)
(* it, or never written at all (w unless the alternate connects it).      *)
(***************************************************************************)
EXTENDS Pipeline

\* Expressions and statements of the FIRRTL protobuf.
Ref(id)          == [k |-> "ref", id |-> id]
Field(e, f)      == [k |-> "field", e |-> e, f |-> f]
Index(e, i)      == [k |-> "index", e |-> e, i |-> i]
Access(e, x)     == [k |-> "access", e |-> e, idx |-> x]
UInt(v)          == [k |-> "uint", v |-> v]
Mux(c, t, f)     == [k |-> "mux", c |-> c, t |-> t, f |-> f]
ValidIf(c, v)    == [k |-> "validif", c |-> c, v |-> v]
Prim(op, as, cs) == [k |-> "prim", op |-> op, args |-> as, cs |-> cs]

Node(id, e)      == [k |-> "node", id |-> id, e |-> e]
Connect(l, e)    == [k |-> "connect", loc |-> l, e |-> e]
PConnect(l, e)   == [k |-> "pconnect", loc |-> l, e |-> e]
When(c, t, f)    == [k |-> "when", c |-> c, conseq |-> t, alt |-> f]
Wire(id, ty, w)  == [k |-> "wire", id |-> id, ty |-> ty, w |-> w]
Reg(id, ty, w, clk, rst) == [k |-> "reg", id |-> id, ty |-> ty, w |-> w, clk |-> clk, rst |-> rst]
Stop(en, ret)    == [k |-> "stop", en |-> en, clk |-> Ref("clk"), ret |-> ret]
Printf(en, args) == [k |-> "printf", en |-> en, clk |-> Ref("clk"), fmt |-> "fmt", args |-> args]
Simple(k)        == [k |-> k]

PLeaf(p, dir, bits, sign, async) ==
  [path |-> p, dir |-> dir, bits |-> bits, sign |-> sign, async |-> async]
V(i)  == <<[sep |-> "", v |-> "v"], [sep |-> "[", v |-> ToString(i)]>>
IO(f) == <<[sep |-> "", v |-> "io"], [sep |-> ".", v |-> f]>>

Ports ==
  <<PLeaf(Base("a"), DirIn, 4, FALSE, FALSE), PLeaf(Base("b"), DirIn, 4, TRUE, FALSE),
    PLeaf(Base("c"), DirIn, 1, FALSE, FALSE), PLeaf(Base("clk"), DirIn, 1, FALSE, FALSE),
    PLeaf(Base("arst"), DirIn, 1, FALSE, TRUE), PLeaf(Base("i"), DirIn, 1, FALSE, FALSE),
    PLeaf(Base("v"), DirIn, 0, FALSE, FALSE), PLeaf(V(0), DirIn, 4, FALSE, FALSE),
    PLeaf(V(1), DirIn, 4, FALSE, FALSE), PLeaf(IO("x"), DirIn, 4, FALSE, FALSE),
    PLeaf(IO("y"), DirOut, 4, FALSE, FALSE), PLeaf(Base("o"), DirOut, 4, FALSE, FALSE)>>

A  == Ref("a")
B  == Ref("b")
C  == Ref("c")
T1 == Ref("_T_1")

Decls == <<Reg("r", "uint", 4, Ref("clk"), Ref("arst")), Wire("w", "sint", 4)>>

\* How _T_1 is defined.
Defs ==
  { Node("_T_1", Prim("add", <<A, Prim("sub", <<B, Access(Ref("v"), Ref("i"))>>, <<>>)>>, <<>>)),
    Node("_T_1", Mux(C, Index(Ref("v"), 1), Field(Ref("io"), "x"))),
    Node("_T_1", ValidIf(C, Prim("bits", <<Ref("r")>>, <<"3", "0">>))) }

\* How it reaches a sink.
Uses ==
  { Connect(Ref("o"), T1),
    When(C, <<Connect(Ref("r"), T1)>>, <<Connect(Ref("w"), A)>>),
    When(Prim("eq", <<T1, B>>, <<>>), <<PConnect(Field(Ref("io"), "y"), Mux(C, A, T1))>>, <<>>) }

\* One more statement.
Lasts ==
  { Connect(Ref("o"), Prim("cat", <<Ref("r"), Ref("w")>>, <<>>)),
    Printf(C, <<T1, Ref("r")>>), Stop(Ref("c"), 1), Simple("skip"), Simple("invalid") }

\* Modules that stop the lowering, and one without widths or control.
Plain0 ==
  [ports |-> <<PLeaf(Base("a"), DirIn, 0, FALSE, FALSE), PLeaf(Base("o"), DirOut, 0, FALSE, FALSE)>>,
   body |-> <<Node("_T_1", A), Connect(Ref("o"), T1)>>]
Stopping ==
  { [ports |-> Ports, body |-> <<Simple("attach")>>],
    [ports |-> Ports, body |-> <<Node("_T_1", Prim("clip", <<A, B>>, <<>>))>>] }

MCMods ==
  {[ports |-> Ports, body |-> Decls \o <<d, u, l>>] : d \in Defs, u \in Uses, l \in Lasts}
  \cup {Plain0} \cup Stopping

\* Modules whose values the lowering renders: a literal operand, a type
\* conversion, and a _T node used as the index of a sub-access that is
\* part of a longer chain.
OV(i) == <<[sep |-> "", v |-> "ov"], [sep |-> "[", v |-> ToString(i)]>>
SmallPorts ==
  <<PLeaf(Base("a"), DirIn, 4, FALSE, FALSE), PLeaf(Base("i"), DirIn, 1, FALSE, FALSE),
    PLeaf(Base("o"), DirOut, 4, FALSE, FALSE), PLeaf(Base("ov"), DirOut, 0, FALSE, FALSE),
    PLeaf(OV(0), DirOut, 4, FALSE, FALSE), PLeaf(OV(1), DirOut, 4, FALSE, FALSE)>>
ValueMods ==
  { [ports |-> SmallPorts, body |-> <<Connect(Ref("o"), Prim("add", <<A, UInt(5)>>, <<>>))>>],
    [ports |-> SmallPorts, body |-> <<Connect(Ref("o"), Prim("as_uint", <<A>>, <<>>))>>],
    [ports |-> SmallPorts,
     body |-> <<Node("_T_1", Ref("i")), Connect(Access(Ref("ov"), T1), A)>>] }

\* Modules for the validator: no declared widths (a width attribute is a
\* dot and an assign to one temporary), a synchronous reset, and sinks
\* that are outputs.
Ports0 == [j \in DOMAIN Ports |-> [Ports[j] EXCEPT !.bits = 0]]
Decls0 == <<Reg("r", "uint", 0, Ref("clk"), C), Wire("w", "sint", 0)>>
ContractMods ==
  {[ports |-> Ports0, body |-> Decls0 \o <<d, u>>] : d \in Defs, u \in Uses}
  \cup {[ports |-> Ports0, body |-> Decls0 \o <<Connect(Ref("o"), e)>>] :
          e \in {Index(Ref("v"), 1), Mux(C, A, B)}}
  \cup {[ports |-> Ports0, body |-> Decls0 \o <<Connect(Ref("w"), A), Connect(Ref("o"), A)>>]}

ContractValueMods == ContractMods \cup ValueMods

MCTIds   == {"_T_1"}
MCGenIds == {}
MCOutIds == {"o", "io", "ov"}

====
