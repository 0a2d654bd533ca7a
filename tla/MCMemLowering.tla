--------------------------- MODULE MCMemLowering ---------------------------
(***************************************************************************)
(* Modules lowered by the model: a CMemory "mem" with MemoryPorts "p" and  *)
(* "r", and a Memory "mm" with one port "q", placed at the top scope or    *)
(* under one or two levels of `when`, then used on either side, as a bare  *)
(* name or through a sub-field.                                            *)
(***************************************************************************)
EXTENDS MemLowering

MCSubstrOne == ("mem" :> "em") @@ ("mm" :> "m")

Skip == Stmt("skip", "", "", "", "", "", FALSE, "", "", <<>>, <<>>)
When(c, a) == [Skip EXCEPT !.k = "when", !.cons = c, !.alt = a]
CMem(sync) == Stmt("cmem", "mem", "", "", "", "", FALSE, sync, "1", <<>>, <<>>)
MPort(p, dir) == Stmt("mport", "mem", p, dir, "", "", FALSE, "", "", <<>>, <<>>)
Use(p, side, shape) == Stmt("use", "", p, "", side, shape, FALSE, "", "", <<>>, <<>>)
Mem(kind, fwd) == Stmt("mem", "mm", "q", kind, "", "", fwd, "1", "0", <<>>, <<>>)
Acc(f, side) == Stmt("acc", "mm", "q", f, side, "", FALSE, "", "", <<>>, <<>>)

\* A statement at the top scope, in a consequent, in an alternate, or two
\* `when`s deep.
Placements == {"top", "cons", "alt", "deep"}
Place(s, w) ==
  CASE w = "top"  -> s
    [] w = "cons" -> When(<<s>>, <<>>)
    [] w = "alt"  -> When(<<>>, <<s>>)
    [] OTHER      -> When(<<When(<<s>>, <<>>)>>, <<>>)

PortDirs == {"READ", "WRITE", "READ_WRITE", "INFER"}

Seqs(S, n) == UNION {[1..k -> S] : k \in 0..n}

UsesOf(p, shapes) ==
  {Place(Use(p, side, sh), w) : side \in {"rhs", "lhs"}, sh \in shapes, w \in Placements}

\* A CMemory, one port declared anywhere, then up to two uses of it; or the
\* port declared and used in the same `when`.
CMemProgs(shapes) ==
  {<<Place(CMem(sync), wc), Place(MPort("p", d), wp)>> \o us :
     sync \in {"0", "1"}, wc \in {"top", "cons"}, d \in PortDirs,
     wp \in Placements, us \in Seqs(UsesOf("p", shapes), 2)}
  \cup
  {<<CMem(sync), When(<<MPort("p", d), u1>>, <<u2>>)>> :
     sync \in {"0", "1"}, d \in PortDirs,
     u1, u2 \in {Use("p", side, sh) : side \in {"rhs", "lhs"}, sh \in shapes}}

\* Two ports of one CMemory, each used once.
TwoPortProgs(shapes) ==
  {<<CMem("0"), Place(MPort("p", d1), w1), Place(MPort("r", d2), w2), u1, u2>> :
     d1, d2 \in PortDirs, w1, w2 \in {"top", "cons"},
     u1 \in {Use("p", side, sh) : side \in {"rhs", "lhs"}, sh \in shapes},
     u2 \in {Use("r", side, sh) : side \in {"rhs", "lhs"}, sh \in shapes}}

\* Fields a Chisel-generated program accesses on each kind of Memory port.
Fields(kind) ==
  CASE kind = "reader" -> {<<"addr", "lhs">>, <<"en", "lhs">>, <<"clk", "lhs">>,
                           <<"data", "rhs">>}
    [] kind = "writer" -> {<<"addr", "lhs">>, <<"en", "lhs">>, <<"clk", "lhs">>,
                           <<"data", "lhs">>, <<"mask", "lhs">>}
    [] OTHER -> {<<"addr", "lhs">>, <<"en", "lhs">>, <<"clk", "lhs">>,
                 <<"wdata", "lhs">>, <<"wmask", "lhs">>, <<"wmode", "lhs">>,
                 <<"rdata", "rhs">>}

MemProgs(kinds) ==
  UNION {{<<Place(Mem(kind, fwd), w)>> \o [i \in 1..Len(fs) |-> Acc(fs[i][1], fs[i][2])] :
            fwd \in BOOLEAN, w \in {"top", "cons", "deep"},
            fs \in Seqs(Fields(kind), 2)} : kind \in kinds}

\* Lowering sets of the runs.
MCProgs ==
  CMemProgs({"ref", "field"}) \cup TwoPortProgs({"ref"})
  \cup MemProgs({"reader", "writer", "readwriter"})
  \cup {<<Mem("writer", FALSE), CMem("1"), Place(MPort("p", d), "cons"),
          Use("p", "rhs", "ref")>> : d \in PortDirs}
MCProgsFieldUse == CMemProgs({"field"})
MCProgsMemory == MemProgs({"reader", "writer", "readwriter"})
MCProgsBinding == MCProgsFieldUse \cup MCProgsMemory

=============================================================================
