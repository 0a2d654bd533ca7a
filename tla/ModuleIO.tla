------------------------------ MODULE ModuleIO ------------------------------
(***************************************************************************)
(* The module interfaces of the FIRRTL front end (fir_tolnast.cpp).        *)
(* IterateModules first registers every module of the circuit             *)
(* (PopulateAllModsIO: a sub-node with its pins, and mod_to_io_dir_map     *)
(* keyed by module id), then lowers the modules one by one with the        *)
(* module-local name sets cleared: an external module records its          *)
(* parameters and port directions under its defined name                   *)
(* (GrabExtModuleInfo); a user module gets a bit-width attribute per port  *)
(* leaf (ListPortInfo) and then its statements: wires and registers with  *)
(* their width and reset attributes, instances with the parameters of      *)
(* their module, and sub-field/sub-index accesses whose base name is       *)
(* resolved to an input, output, register or instance port                 *)
(* (HandleBundVecAcc).  Names are paths of [sep, v] elements: sep "" for   *)
(* the base name, "." for a field, "[" for an index.  The emitted LNAST    *)
(* is the sequence lnast of the attributes, instances and accesses.        *)
(***************************************************************************)
EXTENDS Integers, Sequences, SequencesExt, FiniteSets

CONSTANTS
  Circuits,  \* candidate circuits: sequences of modules
  TIds       \* base names starting with "_T" (temporaries of the front end)

VARIABLES
  circ,               \* the circuit being lowered
  phase,              \* "populate", "list" or "done"
  pi,                 \* PopulateAllModsIO loop index
  mi,                 \* IterateModules loop index
  si,                 \* statement index of a user module; 0 before its ports
  mod_to_io_dir_map,  \* <<module, port path>> -> direction
  subs,               \* module id -> [inp, out] pins of the Sub_node value
                      \* AddModToLibrary returns (a copy; see PassCompiler)
  emod_to_param_map,  \* defined name -> set of <<param id, rendering>>
  mst,                \* module-local sets, cleared per module
  lnast,              \* emitted attributes, instances and accesses
  err                 \* "" or the Pass::error raised

vars == <<circ, phase, pi, mi, si, mod_to_io_dir_map, subs, emod_to_param_map,
          mst, lnast, err>>

Reg == INSTANCE ModuleRegistry

DirIn  == Reg!DirIn
DirOut == Reg!DirOut
Base(id)   == Reg!Base(id)
Fld(p, id) == Reg!Fld(p, id)
Idx(p, i)  == Reg!Idx(p, i)

\* The bit count of a ground type (get_bit_count).
BitCount(ty) == IF ty.k \in {"uint", "sint"} THEN ty.w ELSE 1

Leaf(p, dir, bits, sign, marker, async) ==
  [path |-> p, dir |-> dir, bits |-> bits, sign |-> sign, marker |-> marker,
   async |-> async]

Flip(dir) == IF dir = DirIn THEN DirOut ELSE IF dir = DirOut THEN DirIn ELSE 0

FieldDir(f, dir) == IF f.flip THEN Flip(dir) ELSE dir

VecIdx(n) == [i \in 1..n |-> i]

\* A leaf of a ground type, the row of create_io_list for that type.
GroundLeaf(ty, dir, p) ==
  Leaf(p, dir, BitCount(ty), ty.k = "sint", FALSE, ty.k = "async")

RECURSIVE IoListNoFlip(_, _, _)
IoListNoFlip(ty, dir, p) ==
  CASE ty.k = "bundle" ->
         FoldLeft(LAMBDA acc, f : acc \o IoListNoFlip(f.ty, dir, Fld(p, f.id)),
                  <<>>, ty.fs)
    [] ty.k = "vector" ->
         FoldLeft(LAMBDA acc, i : acc \o <<Leaf(p, dir, 0, FALSE, TRUE, FALSE)>>
                                      \o IoListNoFlip(ty.el[1], dir, Idx(p, i)),
                  <<>>, VecIdx(ty.n))
    [] OTHER -> <<GroundLeaf(ty, dir, p)>>

\* create_io_list: the port list of a port of type ty.  A flipped field
\* inverts the direction; a vector pushes its marker <<p, dir, 0, false>>
\* inside the loop over its elements, once per element.
RECURSIVE IoList(_, _, _)
IoList(ty, dir, p) ==
  CASE ty.k = "bundle" ->
         FoldLeft(LAMBDA acc, f : acc \o IoList(f.ty, FieldDir(f, dir), Fld(p, f.id)),
                  <<>>, ty.fs)
    [] ty.k = "vector" ->
         FoldLeft(LAMBDA acc, i : acc \o <<Leaf(p, dir, 0, FALSE, TRUE, FALSE)>>
                                      \o IoList(ty.el[1], dir, Idx(p, i)),
                  <<>>, VecIdx(ty.n))
    [] OTHER -> <<GroundLeaf(ty, dir, p)>>

\* The paths create_io_list inserts into async_rst_names.
AsyncPaths(ls) == {ls[i].path : i \in {i \in DOMAIN ls : ls[i].async}}

RECURSIVE MapEntriesNoFlip(_, _, _)
MapEntriesNoFlip(ty, dir, p) ==
  CASE ty.k = "bundle" ->
         FoldLeft(LAMBDA acc, f : acc \o MapEntriesNoFlip(f.ty, dir, Fld(p, f.id)),
                  <<>>, ty.fs)
    [] ty.k = "vector" ->
         <<Leaf(p, dir, 0, FALSE, TRUE, FALSE)>>
           \o FoldLeft(LAMBDA acc, i : acc \o MapEntriesNoFlip(ty.el[1], dir, Idx(p, i)),
                       <<>>, VecIdx(ty.n))
    [] OTHER -> <<GroundLeaf(ty, dir, p)>>

\* AddPortToMap: the entries it makes for a port, in order.  A ground leaf
\* is a pin of the sub-node and a direction; a vector records the
\* direction of the vector name itself (a marker, no pin), then recurses.
RECURSIVE MapEntries(_, _, _)
MapEntries(ty, dir, p) ==
  CASE ty.k = "bundle" ->
         FoldLeft(LAMBDA acc, f : acc \o MapEntries(f.ty, FieldDir(f, dir), Fld(p, f.id)),
                  <<>>, ty.fs)
    [] ty.k = "vector" ->
         <<Leaf(p, dir, 0, FALSE, TRUE, FALSE)>>
           \o FoldLeft(LAMBDA acc, i : acc \o MapEntries(ty.el[1], dir, Idx(p, i)),
                       <<>>, VecIdx(ty.n))
    [] OTHER -> <<GroundLeaf(ty, dir, p)>>

\* AddPortToSub: direction 1 is an input pin, anything else an output pin.
AddPortToSub(pins, e) ==
  IF e.dir = DirIn THEN [pins EXCEPT !.inp = Append(@, e.path)]
                   ELSE [pins EXCEPT !.out = Append(@, e.path)]

\* m[k] := v for a map m, as operator[] = does.
Put(m, k, v) == (k :> v) @@ m
Get(m, k, dflt) == IF k \in DOMAIN m THEN m[k] ELSE dflt

\* The module-local sets IterateModules clears before each module.
ModuleResetKeepAsync ==
  [inp |-> {}, outp |-> {}, regs |-> {}, async |-> mst.async, insts |-> <<>>]

ModuleReset ==
  [inp |-> {}, outp |-> {}, regs |-> {}, async |-> {}, insts |-> <<>>]

-----------------------------------------------------------------------------
(* PopulateAllModsIO: one iteration of its loop over the modules.          *)

PopulateModIO ==
  /\ phase = "populate"
  /\ LET m  == circ[pi]
         es == FoldLeft(LAMBDA acc, pt : acc \o MapEntries(pt.ty, pt.dir, Base(pt.id)),
                        <<>>, m.ports)
         pins == SelectSeq(es, LAMBDA e : ~e.marker)
     IN  /\ subs' = Put(subs, m.id, FoldLeft(AddPortToSub, [inp |-> <<>>, out |-> <<>>], pins))
         /\ mod_to_io_dir_map' =
              FoldLeft(LAMBDA acc, e : Put(acc, <<m.id, e.path>>, e.dir),
                       mod_to_io_dir_map, es)
         /\ mst' = [mst EXCEPT !.async = @ \cup AsyncPaths(es)]
  /\ IF pi = Len(circ) THEN phase' = "list" /\ pi' = pi
                       ELSE pi' = pi + 1 /\ phase' = phase
  /\ UNCHANGED <<circ, mi, si, emod_to_param_map, lnast, err>>


-----------------------------------------------------------------------------
(* ConvertBigIntToStr and the parameter renderings of GrabExtModuleInfo.   *)
(* A byte of the BigInt is a (signed) char c; C's c % 2 keeps the sign of  *)
(* c, and c >>= 1 is an arithmetic shift, i.e. floor division by 2.       *)

CRem(a, b) == IF a < 0 THEN -((-a) % b) ELSE a % b

RECURSIVE CharBitsOddOnly(_, _)
CharBitsOddOnly(c, j) ==
  IF j = 8 THEN <<>>
  ELSE CharBitsOddOnly(c \div 2, j + 1) \o <<IF CRem(c, 2) = 1 THEN 1 ELSE 0>>

\* The eight bits of one char, most significant first: each bit tested is
\* prepended to bit_str.
RECURSIVE CharBits(_, _)
CharBits(c, j) ==
  IF j = 8 THEN <<>>
  ELSE CharBits(c \div 2, j + 1) \o <<IF CRem(c, 2) # 0 THEN 1 ELSE 0>>

\* "0b<bits>s<8n>bits", or "0b0s1bit" for an empty value.
ConvertBigIntToStr(bytes) ==
  IF bytes = <<>>
  THEN [k |-> "bin", bits |-> <<0>>, width |-> 1, digit |-> TRUE]
  ELSE [k |-> "bin", bits |-> FoldLeft(LAMBDA acc, c : acc \o CharBits(c, 0), <<>>, bytes),
        width |-> 8 * Len(bytes), digit |-> TRUE]

\* A double or string parameter is kept only as whether its text starts
\* with a digit (std::to_string of a negative double starts with '-').
ParamStr(pr) ==
  IF pr.k = "int" THEN ConvertBigIntToStr(pr.bytes)
  ELSE [k |-> pr.k, bits |-> <<>>, width |-> 0, digit |-> pr.digit]

-----------------------------------------------------------------------------
(* IterateModules: the modules are lowered in order, each with the        *)
(* module-local sets cleared first (ListModuleInfo dispatches).            *)

Entry(k, mid, sig, p, attr, w) ==
  [k |-> k, mod |-> mid, sig |-> sig, path |-> p, attr |-> attr, w |-> w,
   params |-> {}, tgt |-> "", side |-> ""]

BitsAttr(sign) == IF sign THEN "__sbits" ELSE "__ubits"

NextModule ==
  /\ IF mi = Len(circ) THEN phase' = "done" /\ mi' = mi
                       ELSE phase' = phase /\ mi' = mi + 1
  /\ si' = 0

PortList(m) ==
  FoldLeft(LAMBDA acc, pt : acc \o IoList(pt.ty, pt.dir, Base(pt.id)), <<>>, m.ports)

\* GrabExtModuleInfo: parameters and port directions keyed by the defined
\* name, the vector markers of create_io_list included.
ListExtModule ==
  /\ phase = "list" /\ si = 0 /\ err = "" /\ circ[mi].ext
  /\ LET m  == circ[mi]
         pl == PortList(m)
     IN  /\ mst' = [ModuleReset EXCEPT !.async = @ \cup AsyncPaths(pl)]
         /\ emod_to_param_map' =
              Put(emod_to_param_map, m.defname,
                  Get(emod_to_param_map, m.defname, {})
                    \cup {<<pr.id, ParamStr(pr)>> : pr \in ToSet(m.params)})
         /\ mod_to_io_dir_map' =
              FoldLeft(LAMBDA acc, e : Put(acc, <<m.defname, e.path>>, e.dir),
                       mod_to_io_dir_map, pl)
  /\ NextModule
  /\ UNCHANGED <<circ, pi, subs, lnast, err>>

\* The name ListPortInfo gives a port leaf.
PortSig(l) ==
  IF l.dir = DirIn THEN IF Len(l.path) > 1 THEN "$inp_" ELSE "$"
                   ELSE IF Len(l.path) > 1 THEN "%out_" ELSE "%"

\* ListUserModuleInfo up to its statements: ListPortInfo on every port
\* records the input and output names and emits one width attribute per
\* entry of the port list with bits > 0.
ListUserPorts ==
  /\ phase = "list" /\ si = 0 /\ err = "" /\ ~circ[mi].ext
  /\ LET m  == circ[mi]
         pl == PortList(m)
         wl == SelectSeq(pl, LAMBDA l : l.bits > 0)
     IN  /\ mst' = [ModuleReset EXCEPT
                      !.inp   = {pl[i].path : i \in {i \in DOMAIN pl : pl[i].dir = DirIn}},
                      !.outp  = {pl[i].path : i \in {i \in DOMAIN pl : pl[i].dir = DirOut}},
                      !.async = @ \cup AsyncPaths(pl)]
         /\ lnast' = lnast \o [i \in DOMAIN wl |->
                        Entry("port", m.id, PortSig(wl[i]), wl[i].path,
                              BitsAttr(wl[i].sign), wl[i].bits)]
  /\ si' = 1
  /\ UNCHANGED <<circ, phase, pi, mi, mod_to_io_dir_map, subs, emod_to_param_map, err>>


-----------------------------------------------------------------------------
(* ListStatementInfo on the statements of a user module.                   *)

InBody ==
  /\ phase = "list" /\ err = "" /\ ~circ[mi].ext
  /\ si \in 1..Len(circ[mi].body)

Stmt == circ[mi].body[si]

\* init_wire_dots: one width attribute per ground leaf with bits > 0
\* (create_bitwidth_dot_node returns early otherwise); an AsyncReset leaf
\* joins async_rst_names.
RECURSIVE InitWireDots(_, _)
InitWireDots(ty, p) ==
  CASE ty.k = "bundle" ->
         FoldLeft(LAMBDA acc, f : acc \o InitWireDots(f.ty, Fld(p, f.id)), <<>>, ty.fs)
    [] ty.k = "vector" ->
         FoldLeft(LAMBDA acc, i : acc \o InitWireDots(ty.el[1], Idx(p, i)), <<>>, VecIdx(ty.n))
    [] OTHER -> <<GroundLeaf(ty, DirIn, p)>>

Wire ==
  /\ InBody /\ Stmt.k = "wire"
  /\ LET ws == SelectSeq(InitWireDots(Stmt.ty, Base(Stmt.id)), LAMBDA l : l.bits > 0)
     IN  lnast' = lnast \o [i \in DOMAIN ws |->
                    Entry("wire", circ[mi].id, "", ws[i].path, BitsAttr(ws[i].sign), ws[i].bits)]
  /\ mst' = [mst EXCEPT !.async = @ \cup AsyncPaths(InitWireDots(Stmt.ty, Base(Stmt.id)))]
  /\ si' = si + 1
  /\ UNCHANGED <<circ, phase, pi, mi, mod_to_io_dir_map, subs, emod_to_param_map, err>>

\* init_reg_dots: the init_reg_ref_dots calls it makes, in order.  The
\* kSintType case has no break: it calls with is_signed = true and falls
\* through to the default case, which calls again with is_signed = false.
RECURSIVE InitRegDots(_, _)
InitRegDots(ty, p) ==
  CASE ty.k = "bundle" ->
         FoldLeft(LAMBDA acc, f : acc \o InitRegDots(f.ty, Fld(p, f.id)), <<>>, ty.fs)
    [] ty.k = "vector" ->
         FoldLeft(LAMBDA acc, i : acc \o InitRegDots(ty.el[1], Idx(p, i)), <<>>, VecIdx(ty.n))
    [] ty.k = "sint" ->
         <<GroundLeaf(ty, DirIn, p), [GroundLeaf(ty, DirIn, p) EXCEPT !.sign = FALSE]>>
    [] OTHER -> <<GroundLeaf(ty, DirIn, p)>>

\* The reset test of init_reg_ref_dots: an AS_ASYNC_RESET primitive
\* operation, or a reference whose flattened name is in async_rst_names.
ResetAsync(async, rst) ==
  CASE rst.k = "ref"     -> rst.path \in async
    [] rst.k = "asyncop" -> TRUE
    [] OTHER             -> FALSE

\* init_reg_ref_dots for one leaf c of register state S, then the
\* async_rst_names insertion init_reg_dots makes for an AsyncReset leaf.
InitRegRefDots(S, c, rst, mid) ==
  LET w == IF c.bits > 0
           THEN <<Entry("reg", mid, "#", c.path, BitsAttr(c.sign), c.bits)>> ELSE <<>>
      a == IF ResetAsync(S.async, rst)
           THEN <<Entry("reg", mid, "#", c.path, "__reset_async", 1)>> ELSE <<>>
  IN  [regs  |-> S.regs \cup {c.path},
       async |-> IF c.async THEN S.async \cup {c.path} ELSE S.async,
       out   |-> S.out \o w \o a]

Register ==
  /\ InBody /\ Stmt.k = "reg"
  /\ LET S0 == [regs |-> mst.regs \cup {Base(Stmt.id)}, async |-> mst.async, out |-> <<>>]
         S  == FoldLeft(LAMBDA T, c : InitRegRefDots(T, c, Stmt.rst, circ[mi].id),
                        S0, InitRegDots(Stmt.ty, Base(Stmt.id)))
     IN  /\ mst' = [mst EXCEPT !.regs = S.regs, !.async = S.async]
         /\ lnast' = lnast \o S.out
  /\ si' = si + 1
  /\ UNCHANGED <<circ, phase, pi, mi, mod_to_io_dir_map, subs, emod_to_param_map, err>>

\* create_module_inst: the instance, and every parameter recorded under
\* the instantiated module's id (operator[] inserts an empty set).
Instance ==
  /\ InBody /\ Stmt.k = "inst"
  /\ mst' = [mst EXCEPT !.insts = Put(@, Stmt.id, Stmt.mod)]
  /\ emod_to_param_map' = Put(emod_to_param_map, Stmt.mod,
                              Get(emod_to_param_map, Stmt.mod, {}))
  /\ lnast' = Append(lnast,
                [Entry("inst", circ[mi].id, IF Stmt.id \in TIds THEN "_." ELSE "",
                       Base(Stmt.id), "", 0)
                   EXCEPT !.params = Get(emod_to_param_map, Stmt.mod, {}),
                          !.tgt = Stmt.mod])
  /\ si' = si + 1
  /\ UNCHANGED <<circ, phase, pi, mi, mod_to_io_dir_map, subs, err>>


\* HandleBundVecAcc.  alter_flat_str is the name with every index 0;
\* get_full_name (with is_rhs false) tells inputs, outputs, registers and
\* "_T" temporaries apart by it.
Alter(e) == [i \in DOMAIN e |-> IF e[i].sep = "[" THEN [e[i] EXCEPT !.v = "0"] ELSE e[i]]

GetFullName(S, p) ==
  CASE p \in S.inp  -> "$"
    [] p \in S.outp -> "%"
    [] p \in S.regs -> "#"
    [] p[1].v \in TIds -> "_."
    [] OTHER -> ""

\* The instance branch is taken when alter_full_str up to its first "."
\* is an instance name; str_without_inst is the rest.
InstBranch(S, e) == GetFullName(S, Alter(e)) = "" /\ e[1].v \in DOMAIN S.insts

Rest(p) == [Tail(p) EXCEPT ![1].sep = ""]

DirKey(S, e) == <<S.insts[e[1].v], Rest(Alter(e))>>

Resolved(sig, p, tgt, err0) == [sig |-> sig, path |-> p, tgt |-> tgt, err |-> err0]

ResolveNoError(S, dm, e, side) ==
  LET fs == GetFullName(S, Alter(e)) IN
  CASE fs = "$" -> Resolved("$inp_", e, "", "")
    [] fs = "%" -> Resolved("%out_", e, "", "")
    [] fs = "#" -> IF side = "rhs" THEN Resolved("", Fld(e, "__q_pin"), "", "")
                                   ELSE Resolved("#", e, "", "")
    [] InstBranch(S, e) ->
         LET d == Get(dm, DirKey(S, e), 0) IN
         CASE d = DirIn  -> Resolved("inp_", e, DirKey(S, e)[1], "")
           [] d = DirOut -> Resolved("out_", e, DirKey(S, e)[1], "")
           [] OTHER      -> Resolved("", e, DirKey(S, e)[1], "")
    [] OTHER -> Resolved(IF e[1].v \in TIds THEN "_." ELSE "", e, "", "")

\* The name an access lowers to: $inp_ / %out_ for the module's own ports,
\* # or .__q_pin for a register, inp_ / out_ after the direction cached
\* for the instantiated module's port, else the plain name ("_." for a
\* "_T" name, as CreateDotsSelsFromStr adds it).
Resolve(S, dm, e, side) ==
  LET fs == GetFullName(S, Alter(e)) IN
  CASE fs = "$" -> Resolved("$inp_", e, "", "")
    [] fs = "%" -> Resolved("%out_", e, "", "")
    [] fs = "#" -> IF side = "rhs" THEN Resolved("", Fld(e, "__q_pin"), "", "")
                                   ELSE Resolved("#", e, "", "")
    [] InstBranch(S, e) ->
         LET d == Get(dm, DirKey(S, e), 0) IN
         CASE d = DirIn  -> Resolved("inp_", e, DirKey(S, e)[1], "")
           [] d = DirOut -> Resolved("out_", e, DirKey(S, e)[1], "")
           [] OTHER      -> Resolved("", e, DirKey(S, e)[1], "direction unknown")
    [] OTHER -> Resolved(IF e[1].v \in TIds THEN "_." ELSE "", e, "", "")

\* A sub-field or sub-index access (side "lhs" or "rhs").  The direction
\* lookup is mod_to_io_dir_map[...], which inserts 0 for a missing key;
\* an unknown direction is a Pass::error.
Access ==
  /\ InBody /\ Stmt.k = "acc"
  /\ LET r == Resolve(mst, mod_to_io_dir_map, Stmt.e, Stmt.side) IN
     /\ mod_to_io_dir_map' =
          IF InstBranch(mst, Stmt.e)
          THEN Put(mod_to_io_dir_map, DirKey(mst, Stmt.e),
                   Get(mod_to_io_dir_map, DirKey(mst, Stmt.e), 0))
          ELSE mod_to_io_dir_map
     /\ err' = r.err
     /\ lnast' = IF r.err = "" THEN Append(lnast, [Entry("acc", circ[mi].id, r.sig, r.path, "", 0)
                                                    EXCEPT !.tgt = r.tgt, !.side = Stmt.side])
                               ELSE lnast
  /\ si' = si + 1
  /\ UNCHANGED <<circ, phase, pi, mi, subs, emod_to_param_map, mst>>

\* The end of ListUserModuleInfo; IterateModules moves to the next module.
EndModule ==
  /\ phase = "list" /\ err = "" /\ ~circ[mi].ext
  /\ si = Len(circ[mi].body) + 1
  /\ NextModule
  /\ UNCHANGED <<circ, pi, mod_to_io_dir_map, subs, emod_to_param_map, mst, lnast, err>>

-----------------------------------------------------------------------------

Init ==
  /\ circ \in Circuits
  /\ phase = "populate" /\ pi = 1 /\ mi = 1 /\ si = 0
  /\ mod_to_io_dir_map = <<>> /\ subs = <<>> /\ emod_to_param_map = <<>>
  /\ mst = [inp |-> {}, outp |-> {}, regs |-> {}, async |-> {}, insts |-> <<>>]
  /\ lnast = <<>>
  /\ err = ""

Next ==
  \/ PopulateModIO
  \/ ListExtModule
  \/ ListUserPorts
  \/ Wire
  \/ Register
  \/ Instance
  \/ Access
  \/ EndModule

\* The front end is one sequential loop over the modules of the circuit.
Spec == Init /\ [][Next]_vars


-----------------------------------------------------------------------------
(* Properties.                                                             *)

\* Module i has had its ports listed / statement j of module i is done.
PortsListed(i) == phase = "done" \/ (phase = "list" /\ (i < mi \/ (i = mi /\ si >= 1)))
StmtDone(i, j)  == phase = "done" \/ (phase = "list" /\ (i < mi \/ (i = mi /\ j < si)))

Emitted(k, mid) == {e \in ToSet(lnast) : e.k = k /\ e.mod = mid}

\* Declared by a statement of kind k of module m before statement j.
DeclBefore(m, j, k, id) == \E l \in 1..(j - 1) : m.body[l].k = k /\ m.body[l].id = id

\* Type invariant.  A direction 0 is cached in mod_to_io_dir_map only by
\* the failed lookup that raises "direction unknown".
TypeOK ==
  /\ phase \in {"populate", "list", "done"}
  /\ err \in {"", "direction unknown"}
  /\ \A k \in DOMAIN mod_to_io_dir_map :
       mod_to_io_dir_map[k] \in (IF err = "" THEN {DirIn, DirOut} ELSE {0, DirIn, DirOut})
  /\ \A e \in ToSet(lnast) : e.k \in {"port", "wire", "reg", "inst", "acc"} /\ e.w \in Nat
  /\ \A d \in DOMAIN emod_to_param_map : \A pr \in emod_to_param_map[d] : pr[2].digit \in BOOLEAN

\* Composition of the registry and the lowering: an access to an instance
\* port lowered as inp_ (out_) names a port leaf that the instantiated
\* module declares as an input (output), after bundle flips, with the
\* indices of the access being any element of the vector.
InstanceDirAgrees ==
  \A e \in ToSet(lnast) :
    (e.k = "acc" /\ e.sig \in {"inp_", "out_"}) =>
      \E i \in DOMAIN circ :
        /\ circ[i].id = e.tgt
        /\ \E l \in ToSet(Reg!PortLeaves(circ[i])) :
             /\ l.path = Rest(Alter(e.path))
             /\ (l.dir = DirIn <=> e.sig = "inp_")

\* Port emission (spec 4.5.2): a listed user module has exactly one width
\* attribute per port leaf of nonzero width, with the leaf's sign and the
\* name of its direction; the vector markers add none.
PortWidthAttrs ==
  \A i \in DOMAIN circ :
    (~circ[i].ext /\ PortsListed(i)) =>
      LET pe  == SelectSeq(lnast, LAMBDA e : e.k = "port" /\ e.mod = circ[i].id)
          exp == {[sig |-> PortSig(l), path |-> l.path, attr |-> BitsAttr(l.sign), w |-> l.bits] :
                    l \in {l \in ToSet(Reg!PortLeaves(circ[i])) : ~l.marker /\ l.bits > 0}}
      IN  /\ Len(pe) = Cardinality(exp)
          /\ {[sig |-> pe[k].sig, path |-> pe[k].path, attr |-> pe[k].attr, w |-> pe[k].w] :
                k \in DOMAIN pe} = exp

\* The names of module m declared AsyncReset before statement j: its port
\* leaves and the leaves of earlier wires and registers.
AsyncDecls(m, j) ==
  {l.path : l \in {l \in ToSet(Reg!PortLeaves(m)) : l.async}}
  \cup UNION {{l.path : l \in {l \in ToSet(Reg!SpecLeaves(m.body[k].ty, DirIn, Base(m.body[k].id))) : l.async}} :
                k \in {k \in 1..(j - 1) : m.body[k].k \in {"wire", "reg"}}}

\* Register emission (spec 4.5.9, scenario 2): every leaf of a register
\* gets #r.__reset_async = true exactly when its reset is AS_ASYNC_RESET or
\* a name this module declared AsyncReset; IterateModules must clear the
\* async reset names of the previous module.
AsyncResetAttr ==
  \A i \in DOMAIN circ : \A j \in DOMAIN circ[i].body :
    LET m == circ[i]  st == m.body[j] IN
    (~m.ext /\ st.k = "reg" /\ StmtDone(i, j)) =>
      \A l \in {l \in ToSet(Reg!SpecLeaves(st.ty, DirIn, Base(st.id))) : ~l.marker} :
        (\E e \in Emitted("reg", m.id) : e.path = l.path /\ e.attr = "__reset_async")
          <=> (st.rst.k = "asyncop" \/ (st.rst.k = "ref" /\ st.rst.path \in AsyncDecls(m, j)))

BinValue(bits) == FoldLeft(LAMBDA acc, b : 2 * acc + b, 0, bits)
BytesValue(bytes) == FoldLeft(LAMBDA acc, c : 256 * acc + (c % 256), 0, bytes)

\* Spec 8: an integer parameter's rendering "0b<bits>s<n>bits" has n bits,
\* n = 8 per byte (1 for an empty value), and reads back as the two's
\* complement bytes of the BigInt, negative chars included.
BigIntRoundTrip ==
  \A d \in DOMAIN emod_to_param_map : \A pr \in emod_to_param_map[d] :
    pr[2].k = "bin" =>
      /\ Len(pr[2].bits) = pr[2].width
      /\ \E i \in DOMAIN circ : \E q \in ToSet(circ[i].params) :
           /\ circ[i].ext /\ circ[i].defname = d /\ q.id = pr[1] /\ q.k = "int"
           /\ BinValue(pr[2].bits) = BytesValue(q.bytes)
           /\ pr[2].width = IF q.bytes = <<>> THEN 1 ELSE 8 * Len(q.bytes)

\* Register emission (spec 4.5.9): each leaf of a register gets exactly one
\* width attribute, __sbits when the leaf is SInt and __ubits otherwise.
RegisterWidthOnce ==
  \A i \in DOMAIN circ : \A j \in DOMAIN circ[i].body :
    LET m == circ[i]  st == m.body[j] IN
    (~m.ext /\ st.k = "reg" /\ StmtDone(i, j)) =>
      \A l \in {l \in ToSet(Reg!SpecLeaves(st.ty, DirIn, Base(st.id))) : ~l.marker /\ l.bits > 0} :
        LET ws == SelectSeq(lnast, LAMBDA e : e.k = "reg" /\ e.mod = m.id /\ e.path = l.path
                                            /\ e.attr \in {"__sbits", "__ubits"})
        IN  [k \in DOMAIN ws |-> ws[k].attr] = <<BitsAttr(l.sign)>>

\* Module-instance emission (spec 4.5.8): an instance of an external module
\* carries exactly that module's parameters.
ExtParamsAttached ==
  \A e \in ToSet(lnast) : \A i \in DOMAIN circ :
    (e.k = "inst" /\ circ[i].ext /\ circ[i].id = e.tgt) =>
      e.params = {<<q.id, ParamStr(q)>> : q \in ToSet(circ[i].params)}

\* Name resolution (spec 4.5.3, 4.5.7): an access whose base is a register
\* declared before it lowers to the register (#r, or #r...__q_pin on the
\* right), and one whose base is an instance lowers to its inp_/out_ port.
AccessResolves ==
  \A i \in DOMAIN circ : \A j \in DOMAIN circ[i].body :
    LET m == circ[i]  st == m.body[j] IN
    (~m.ext /\ st.k = "acc" /\ StmtDone(i, j)) =>
      /\ DeclBefore(m, j, "reg", st.e[1].v) =>
           \E e \in Emitted("acc", m.id) : e.sig = "#" /\ SubSeq(e.path, 1, Len(st.e)) = st.e
      /\ DeclBefore(m, j, "inst", st.e[1].v) =>
           \E e \in Emitted("acc", m.id) : e.sig \in {"inp_", "out_"} /\ e.path = st.e

\* The front end's promises for registers, external modules and accesses, taken
\* together (spec 4.5): every register's bitwidth is attached once, every
\* external instance carries its parameters, and every access to a register or
\* an instance port resolves to the flattened tuple path the code emits.
ModuleIOSpec == RegisterWidthOnce /\ ExtParamsAttached /\ AccessResolves

=============================================================================
