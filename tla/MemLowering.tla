----------------------------- MODULE MemLowering -----------------------------
(***************************************************************************)
(* Memory hoisting and late binding of the FIRRTL -> LNAST lowering,       *)
(* src/inou/firrtl/fir_tolnast.cpp.                                        *)
(*                                                                         *)
(* ListUserModuleInfo walks the top-level statements of a module; for each *)
(* one it first runs the pre-traversal PreCheckForMem (which re-emits every *)
(* Memory, CMemory and MemoryPort found under `when`s at the top scope,    *)
(* with `<mem>_<port>_<suffix> = 0` placeholders) and then the normal      *)
(* traversal ListStatementInfo (which emits port drivers in their original *)
(* scope).  After the last statement PerformLateMemAssigns binds the port  *)
(* attributes `#mem.port.__attr` to the placeholders, keyed by the port    *)
(* direction held in late_assign_ports.                                    *)
(*                                                                         *)
(* The emitted LNAST is abstracted to its assignments [d, lhs, rhs] (d is  *)
(* the `when` depth of the stmts node written to) and the port tuples      *)
(* concatenated into `#mem.__port`.  Names are tuples:                     *)
(*   Ph(m, p, s)   the placeholder string  m_p_s                           *)
(*   Attr(m, p, a) the attribute path      #m.p.__a                        *)
(*   Ref(s)/Const(s) any other reference or constant.                      *)
(* Expressions other than memory ports (clock, address, connected values)  *)
(* are the opaque references "sig" and "val".                              *)
(***************************************************************************)
EXTENDS Integers, Sequences, SequencesExt, FiniteSets, TLC

CONSTANTS
  SubstrOne,   \* mem_name.substr(1) of every memory name
  Progs        \* module bodies (statement sequences) the lowering is run on

VARIABLES
  prog,               \* statements of the module being lowered
  pc,                 \* index of the next top-level statement
  finished,           \* PerformLateMemAssigns has run
  late_assign_ports,  \* <<mem, port>> -> direction
  dangling_ports_map, \* port -> mem
  mem_props_map,      \* mem -> [fwd, rd, wr]
  memory_names,       \* ids of Memory and CMemory statements seen
  out,                \* emitted assignments, in order
  ports,              \* port tuples concatenated into #mem.__port
  warnings            \* ports reported "INFER ... never used"

vars == <<prog, pc, finished, late_assign_ports, dangling_ports_map,
          mem_props_map, memory_names, out, ports, warnings>>

Ph(m, p, s)   == <<"ph", m, p, s>>
Attr(m, p, a) == <<"attr", m, p, a>>
Ref(s)        == <<"ref", s>>
Const(s)      == <<"const", s>>

Asg(d, l, r)  == [d |-> d, lhs |-> l, rhs |-> r]

\* Directions of late_assign_ports: Memory ports, MemoryPort ports ("P")
\* and inferred ones ("I").
Dirs == {"READ", "WRITE", "READ_WRITE", "READP", "WRITEP", "READ_WRITEP",
         "INFER", "READI", "WRITEI", "READ_WRITEI"}

(***************************************************************************)
(* Statements.  One record shape for all kinds: k is the statement case;   *)
(* a is the MemoryPort direction, the Memory port kind or the accessed     *)
(* field; side is "rhs" or "lhs"; shape is "ref" (bare port name) or       *)
(* "field" (a sub-field of the port).                                      *)
(***************************************************************************)
Stmt(k, m, p, a, side, shape, fwd, rl, wl, cons, alt) ==
  [k |-> k, m |-> m, p |-> p, a |-> a, side |-> side, shape |-> shape,
   fwd |-> fwd, rl |-> rl, wl |-> wl, cons |-> cons, alt |-> alt]

\* The lowering state threaded through the recursive handlers.
State == [lap |-> late_assign_ports, dpm |-> dangling_ports_map,
          mpm |-> mem_props_map, mn |-> memory_names, out |-> out,
          ports |-> ports]

Emit(S, asgs) == [S EXCEPT !.out = @ \o asgs]

\* late_assign_ports[key] = dir (operator[] then assignment).
SetDir(S, key, dir) == [S EXCEPT !.lap = (key :> dir) @@ @]

\* Placeholders `m_p_s = 0` at the top scope, one per suffix, in order.
Placeholders(m, p, sfx) == [i \in 1..Len(sfx) |-> Asg(0, Ph(m, p, sfx[i]), Const("0"))]

\* Mutant of PortDirInference: only the first use decides the direction.
PortDirInferenceFirstOnly(S, p, m, isRhs) ==
  IF S.lap[<<m, p>>] = "INFER"
  THEN SetDir(S, <<m, p>>, IF isRhs THEN "READI" ELSE "WRITEI")
  ELSE S

\* Inou_firrtl::PortDirInference: the first use of an INFER port fixes its
\* direction; a later use on the other side makes it READ_WRITEI.
PortDirInference(S, p, m, isRhs) ==
  LET key == <<m, p>>
      cur == S.lap[key]
  IN  IF isRhs
      THEN CASE cur = "INFER"  -> SetDir(S, key, "READI")
             [] cur = "WRITEI" -> SetDir(S, key, "READ_WRITEI")
             [] OTHER          -> S
      ELSE CASE cur = "INFER"  -> SetDir(S, key, "WRITEI")
             [] cur = "READI"  -> SetDir(S, key, "READ_WRITEI")
             [] OTHER          -> S

\* Inou_firrtl::InitMemory: one port of kind s.a ("reader", "writer" or
\* "readwriter") named s.p.  Readwriters take the write latency.
InitMemory(S, s) ==
  LET lat == IF s.a = "reader" THEN s.rl ELSE s.wl
      dir == CASE s.a = "reader" -> "READ" [] s.a = "writer" -> "WRITE"
                  [] OTHER -> "READ_WRITE"
      sfx == CASE s.a = "reader" -> <<"addr", "clk", "en">>
               [] s.a = "writer" -> <<"addr", "clk", "en", "data", "mask">>
               [] OTHER          -> <<"addr", "clk", "en", "wdata", "wmask">>
      attrs == {<<"latency", lat>>} \cup (IF s.fwd THEN {<<"fwd", "true">>} ELSE {})
  IN  [SetDir(Emit(S, Placeholders(s.m, s.p, sfx)), <<s.m, s.p>>, dir)
         EXCEPT !.ports = @ \cup {[m |-> s.m, p |-> s.p, attrs |-> attrs]},
                !.mpm   = (s.m :> [fwd |-> s.fwd, rd |-> s.rl, wr |-> s.wl]) @@ @]

\* Inou_firrtl::InitCMemory: sync_read gives read latency 1, writes 1.
InitCMemory(S, s) ==
  [S EXCEPT !.mpm = (s.m :> [fwd |-> s.fwd, rd |-> s.rl, wr |-> "1"]) @@ @]

\* Default value of mem_props_map[id] for an id never stored.
NoProps == [fwd |-> FALSE, rd |-> "", wr |-> ""]

\* Mutant of HandleMemPortPre: an INFER port gets the placeholders of a
\* read port (no data).
HandleMemPortPreInferAsRead(S, s) ==
  LET props == IF s.m \in DOMAIN S.mpm THEN S.mpm[s.m] ELSE NoProps
      fwd   == <<"fwd", IF props.fwd THEN "true" ELSE "false">>
      attrs == CASE s.a = "READ"  -> {fwd, <<"latency", props.rd>>}
                 [] s.a = "INFER" -> {fwd}
                 [] OTHER -> {fwd, <<"wrmask", "0u">>, <<"latency", props.wr>>}
      dir   == CASE s.a = "READ" -> "READP" [] s.a = "WRITE" -> "WRITEP"
                 [] s.a = "READ_WRITE" -> "READ_WRITEP" [] OTHER -> "INFER"
      sfx   == IF s.a \in {"READ", "INFER"} THEN <<"addr", "clk", "en">>
                               ELSE <<"addr", "clk", "en", "data">>
      S1    == [S EXCEPT !.dpm   = (s.p :> s.m) @@ @,
                         !.mpm   = (s.m :> props) @@ @,
                         !.ports = @ \cup {[m |-> s.m, p |-> s.p, attrs |-> attrs]}]
  IN  Emit(SetDir(S1, <<s.m, s.p>>, dir), Placeholders(s.m, s.p, sfx))

\* Inou_firrtl::HandleMemPortPre: record the dangling port, build its tuple,
\* set its direction and emit its placeholders at the top scope.
HandleMemPortPre(S, s) ==
  LET props == IF s.m \in DOMAIN S.mpm THEN S.mpm[s.m] ELSE NoProps
      fwd   == <<"fwd", IF props.fwd THEN "true" ELSE "false">>
      attrs == CASE s.a = "READ"  -> {fwd, <<"latency", props.rd>>}
                 [] s.a = "INFER" -> {fwd}
                 [] OTHER -> {fwd, <<"wrmask", "0u">>, <<"latency", props.wr>>}
      dir   == CASE s.a = "READ" -> "READP" [] s.a = "WRITE" -> "WRITEP"
                 [] s.a = "READ_WRITE" -> "READ_WRITEP" [] OTHER -> "INFER"
      sfx   == IF s.a = "READ" THEN <<"addr", "clk", "en">>
                               ELSE <<"addr", "clk", "en", "data">>
      S1    == [S EXCEPT !.dpm   = (s.p :> s.m) @@ @,
                         !.mpm   = (s.m :> props) @@ @,
                         !.ports = @ \cup {[m |-> s.m, p |-> s.p, attrs |-> attrs]}]
  IN  Emit(SetDir(S1, <<s.m, s.p>>, dir), Placeholders(s.m, s.p, sfx))

RECURSIVE PreCheckForMem(_, _), PreCheckSeq(_, _)

\* Mutant of PreCheckForMem: a CMemory is not inserted in memory_names.
PreCheckForMemUnnamedCMem(S, s) ==
  CASE s.k = "mem"   -> InitMemory([S EXCEPT !.mn = @ \cup {s.m}], s)
    [] s.k = "cmem"  -> InitCMemory(S, s)
    [] s.k = "mport" -> HandleMemPortPre(S, s)
    [] s.k = "when"  -> PreCheckSeq(PreCheckSeq(S, s.cons), s.alt)
    [] OTHER         -> S

\* Inou_firrtl::PreCheckForMem, descending only through `when`.
PreCheckForMem(S, s) ==
  CASE s.k = "mem"   -> InitMemory([S EXCEPT !.mn = @ \cup {s.m}], s)
    [] s.k = "cmem"  -> InitCMemory([S EXCEPT !.mn = @ \cup {s.m}], s)
    [] s.k = "mport" -> HandleMemPortPre(S, s)
    [] s.k = "when"  -> PreCheckSeq(PreCheckSeq(S, s.cons), s.alt)
    [] OTHER         -> S
PreCheckSeq(S, ss) ==
  IF ss = <<>> THEN S ELSE PreCheckSeq(PreCheckForMem(S, Head(ss)), Tail(ss))

\* A use of a dangling port p (InitialExprAdd kReference, 1587-1602, for a
\* bare read; ReturnExprString kReference, 1714-1730, for a bare write;
\* HandleBundVecAcc, 1163-1197, for a sub-field read or write).  A bare
\* write infers twice: once in get_full_name, once in ReturnExprString.
UsePort(S, s, d) ==
  LET p  == s.p
      m  == S.dpm[p]
      en(mm) == <<Asg(d, Ph(mm, p, "en"), Const("1"))>>
  IN  CASE s.shape = "ref" /\ s.side = "rhs" ->
             Emit(PortDirInference(Emit(S, en(m)), p, m, TRUE),
                  <<Asg(d, Ref("x"), Attr(m, p, "data"))>>)
        [] s.shape = "ref" /\ s.side = "lhs" ->
             Emit(PortDirInference(Emit(PortDirInference(S, p, m, FALSE), en(m)),
                                   p, m, FALSE),
                  <<Asg(d, Ph(m, p, "data"), Ref("val"))>>)
        [] s.shape = "field" /\ s.side = "rhs" ->
             Emit(PortDirInference(Emit(S, en(SubstrOne[m])), p, m, TRUE),
                  <<Asg(d, Ref("x"), <<"qpin", p>>)>>)
        [] OTHER ->
             Emit(PortDirInference(Emit(S, en(SubstrOne[m])), p, m, FALSE),
                  <<Asg(d, <<"dot", p>>, Ref("val"))>>)

\* Access m.q.f to a field of a Memory port (HandleBundVecAcc, memory_names
\* branch 1198-1214): writes and non-data reads go to the placeholder
\* m_q_f, reads of data / rdata to #m.q.__data.
AccessMemory(S, s, d) ==
  IF s.side = "lhs"
  THEN Emit(S, <<Asg(d, Ph(s.m, s.p, s.a), Ref("val"))>>)
  ELSE Emit(S, <<Asg(d, Ref("x"),
                      IF s.a \in {"data", "rdata"} THEN Attr(s.m, s.p, "data")
                                                   ELSE Ph(s.m, s.p, s.a))>>)

\* Inou_firrtl::HandleMemPort: drive addr and clk in the original scope.
HandleMemPort(S, s, d) ==
  Emit(S, <<Asg(d, Ph(s.m, s.p, "addr"), Ref("sig")),
            Asg(d, Ph(s.m, s.p, "clk"), Ref("sig"))>>)

\* Inou_firrtl::ListStatementInfo; d is the depth of parent_node.  Memory
\* and CMemory were handled by the pre-traversal.
RECURSIVE ListStatementInfo(_, _, _), ListSeq(_, _, _)
ListStatementInfo(S, s, d) ==
  CASE s.k = "mport" -> HandleMemPort(S, s, d)
    [] s.k = "use"   -> UsePort(S, s, d)
    [] s.k = "acc"   -> AccessMemory(S, s, d)
    [] s.k = "when"  -> ListSeq(ListSeq(S, s.cons, d + 1), s.alt, d + 1)
    [] OTHER         -> S
ListSeq(S, ss, d) ==
  IF ss = <<>> THEN S ELSE ListSeq(ListStatementInfo(S, Head(ss), d), Tail(ss), d)

\* Mutant of BindPairs: READI takes the write latency.
BindPairsReadiWriteLatency(m, p, dir, props) ==
  LET en == {<<"enable", Ph(m, p, "en")>>}
      wd == {<<"data", Ph(m, p, "data")>>}
  IN  CASE dir \in {"READ", "READP"} -> en
        [] dir = "WRITE" -> en \cup wd \cup {<<"wrmask", Ph(m, p, "mask")>>}
        [] dir = "READ_WRITE" ->
             en \cup {<<"data", Ph(m, p, "wdata")>>, <<"wrmask", Ph(m, p, "wmask")>>}
        [] dir \in {"WRITEP", "READ_WRITEP"} -> en \cup wd
        [] dir = "READI" -> en \cup {<<"latency", Const(props.wr)>>}
        [] dir \in {"WRITEI", "READ_WRITEI"} ->
             en \cup wd \cup {<<"wrmask", Const("0u")>>, <<"latency", Const(props.wr)>>}
        [] OTHER -> {}

\* Attribute -> driver pairs PerformLateMemAssigns binds for a port of
\* direction dir, besides __addr and __clk_pin.
BindPairs(m, p, dir, props) ==
  LET en == {<<"enable", Ph(m, p, "en")>>}
      wd == {<<"data", Ph(m, p, "data")>>}
  IN  CASE dir \in {"READ", "READP"} -> en
        [] dir = "WRITE" -> en \cup wd \cup {<<"wrmask", Ph(m, p, "mask")>>}
        [] dir = "READ_WRITE" ->
             en \cup {<<"data", Ph(m, p, "wdata")>>, <<"wrmask", Ph(m, p, "wmask")>>}
        [] dir \in {"WRITEP", "READ_WRITEP"} -> en \cup wd
        [] dir = "READI" -> en \cup {<<"latency", Const(props.rd)>>}
        [] dir \in {"WRITEI", "READ_WRITEI"} ->
             en \cup wd \cup {<<"wrmask", Const("0u")>>, <<"latency", Const(props.wr)>>}
        [] OTHER -> {}

\* The assignments PerformLateMemAssigns emits for one port.
LateBinds(key, dir, props) ==
  LET m == key[1]
      p == key[2]
  IN  {Asg(0, Attr(m, p, "addr"), Ph(m, p, "addr")),
       Asg(0, Attr(m, p, "clk_pin"), Ph(m, p, "clk"))}
      \cup {Asg(0, Attr(m, p, b[1]), b[2]) : b \in BindPairs(m, p, dir, props)}

-----------------------------------------------------------------------------

Init ==
  /\ prog \in Progs
  /\ pc = 1
  /\ finished = FALSE
  /\ late_assign_ports = <<>>
  /\ dangling_ports_map = <<>>
  /\ mem_props_map = <<>>
  /\ memory_names = {}
  /\ out = <<>>
  /\ ports = {}
  /\ warnings = {}

Unpack(S) ==
  /\ late_assign_ports' = S.lap
  /\ dangling_ports_map' = S.dpm
  /\ mem_props_map' = S.mpm
  /\ memory_names' = S.mn
  /\ out' = S.out
  /\ ports' = S.ports

\* Mutant of Statement: the normal traversal before the pre-traversal.
StatementListFirst ==
  /\ pc <= Len(prog)
  /\ Unpack(PreCheckForMem(ListStatementInfo(State, prog[pc], 0), prog[pc]))
  /\ pc' = pc + 1
  /\ UNCHANGED <<prog, finished, warnings>>

\* One iteration of the statement loop of ListUserModuleInfo.
Statement ==
  /\ pc <= Len(prog)
  /\ Unpack(ListStatementInfo(PreCheckForMem(State, prog[pc]), prog[pc], 0))
  /\ pc' = pc + 1
  /\ UNCHANGED <<prog, finished, warnings>>

\* Inou_firrtl::PerformLateMemAssigns, after the last statement.  The
\* iteration order of late_assign_ports (a hash map) is unspecified.
PerformLateMemAssigns ==
  /\ pc > Len(prog)
  /\ ~finished
  /\ LET binds == UNION {LateBinds(key, late_assign_ports[key],
                                   mem_props_map[key[1]])
                         : key \in DOMAIN late_assign_ports}
     IN  out' = FoldSet(LAMBDA b, acc : acc \o <<b>>, out, binds)
  /\ warnings' = {key \in DOMAIN late_assign_ports :
                     late_assign_ports[key] = "INFER"}
  /\ finished' = TRUE
  /\ UNCHANGED <<prog, pc, late_assign_ports, dangling_ports_map,
                 mem_props_map, memory_names, ports>>

Next == Statement \/ PerformLateMemAssigns

Spec == Init /\ [][Next]_vars

-----------------------------------------------------------------------------
(* Properties.                                                             *)

\* The atomic statements of a statement, `when`s flattened.
RECURSIVE Atoms(_)
Atoms(s) ==
  IF s.k = "when"
  THEN UNION {Atoms(s.cons[i]) : i \in DOMAIN s.cons}
       \cup UNION {Atoms(s.alt[i]) : i \in DOMAIN s.alt}
  ELSE {s}

\* Statements the loop of ListUserModuleInfo has already lowered.
Lowered == UNION {Atoms(prog[i]) : i \in 1..(pc - 1)}

UsesOfPort(p) == {u \in Lowered : u.k = "use" /\ u.p = p}

IsPh(n) == n[1] = "ph"

\* Ports for which late_assign_ports holds a direction bound at the end.
Bound == {key \in DOMAIN late_assign_ports : late_assign_ports[key] # "INFER"}

\* How many times attribute a of port key is defined: in the port tuple
\* concatenated into __port, or by a late assignment.
Defs(key, a) ==
  Cardinality({t \in ports : t.m = key[1] /\ t.p = key[2]
                             /\ \E v \in {x[2] : x \in t.attrs} : <<a, v>> \in t.attrs})
  + Cardinality({i \in 1..Len(out) : out[i].lhs = Attr(key[1], key[2], a)})

Writes(dir) == dir \notin {"READ", "READP", "READI"}

TypeOK ==
  /\ pc \in 1..(Len(prog) + 1)
  /\ finished \in BOOLEAN
  /\ \A key \in DOMAIN late_assign_ports : late_assign_ports[key] \in Dirs
  /\ memory_names \subseteq {s.m : s \in UNION {Atoms(prog[i]) : i \in DOMAIN prog}}
  /\ \A p \in DOMAIN dangling_ports_map : dangling_ports_map[p] \in memory_names
  /\ \A key \in DOMAIN late_assign_ports : key[1] \in memory_names
  /\ \A i \in 1..Len(out) : out[i].d \in Nat
  /\ warnings \subseteq DOMAIN late_assign_ports

\* Spec 4.5.6: the direction of an INFER MemoryPort is resolved by its
\* uses in any scope and any order: read only gives READI, written only
\* WRITEI, both READ_WRITEI, none leaves INFER (PortDirInference, called
\* from every kind of use of a dangling port).
InferredDirection ==
  \A s \in Lowered :
    s.k = "mport" /\ s.a = "INFER" =>
      LET sides == {u.side : u \in UsesOfPort(s.p)}
      IN  late_assign_ports[<<s.m, s.p>>] =
            CASE sides = {}      -> "INFER"
              [] sides = {"rhs"} -> "READI"
              [] sides = {"lhs"} -> "WRITEI"
              [] OTHER           -> "READ_WRITEI"

\* A placeholder m_p_s is declared `= 0` at the top scope before any
\* driver of it is emitted in a nested scope: the pre-traversal of a
\* statement runs before its normal traversal, so the zero never
\* overwrites a driver.
PlaceholderBeforeDriver ==
  \A i, j \in 1..Len(out) :
    /\ IsPh(out[i].lhs) /\ out[i].rhs # Const("0")
    /\ out[j] = Asg(0, out[i].lhs, Const("0"))
    => j < i

\* Every placeholder PerformLateMemAssigns binds an attribute to has been
\* declared at the top scope before (the suffix lists of InitMemory and
\* HandleMemPortPre agree with the direction cases of the late binding).
LatePlaceholdersDeclared ==
  finished =>
    \A i \in 1..Len(out) :
      out[i].lhs[1] = "attr" /\ IsPh(out[i].rhs) =>
        \E j \in 1..(i - 1) : out[j] = Asg(0, out[i].rhs, Const("0"))

\* After lowering, every port with a resolved direction has __latency
\* defined exactly once (port tuple or late assignment), taken from the
\* memory's read latency for read-only ports and its write latency
\* otherwise, and __wrmask defined exactly once if it writes, never if not.
AttributesDefinedOnce ==
  finished =>
    \A key \in Bound :
      LET dir == late_assign_ports[key]
          lat == IF Writes(dir) THEN mem_props_map[key[1]].wr
                                ELSE mem_props_map[key[1]].rd
      IN  /\ Defs(key, "latency") = 1
          /\ \/ \E t \in ports : t.m = key[1] /\ t.p = key[2]
                                /\ <<"latency", lat>> \in t.attrs
             \/ \E i \in 1..Len(out) :
                  out[i] = Asg(0, Attr(key[1], key[2], "latency"), Const(lat))
          /\ Defs(key, "wrmask") = IF Writes(dir) THEN 1 ELSE 0

\* Every use of a dangling port is bound to the memory, whether the port
\* is named bare or through a sub-field: it sets the enable placeholder
\* <mem>_<port>_en to 1, and a read reads #mem.port.__data while a write
\* drives mem_port_data (spec 4.5.6; the comments of HandleBundVecAcc:
\* "change name from r.a to #mem_name.r.__data.a (if on RHS) or
\* mem_name_r_data.a (if on LHS). Also set enable to be 1").
PortUseBound ==
  \A u \in Lowered :
    u.k = "use" =>
      LET m == dangling_ports_map[u.p]
      IN  /\ \E i \in 1..Len(out) :
               out[i].lhs = Ph(m, u.p, "en") /\ out[i].rhs = Const("1")
          /\ \E i \in 1..Len(out) :
               IF u.side = "rhs" THEN out[i].rhs = Attr(m, u.p, "data")
                                 ELSE out[i].lhs = Ph(m, u.p, "data")

\* Every memory-port field a program drives (a write to a placeholder
\* m_p_f) reaches the memory: after lowering, some port attribute is bound
\* to that placeholder.
DriversBound ==
  finished =>
    \A i \in 1..Len(out) :
      IsPh(out[i].lhs) /\ out[i].rhs # Const("0") =>
        \E j \in 1..Len(out) : out[j].lhs[1] = "attr" /\ out[j].rhs = out[i].lhs


\* Spec 4.5.6: late binding is complete: every use of a dangling port is
\* bound to its memory, and every port field a program drives reaches it.
LateBindingComplete == PortUseBound /\ DriversBound

=============================================================================
