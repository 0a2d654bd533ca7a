---------------------------- MODULE PassCompiler ----------------------------
(***************************************************************************)
(* The pass.compiler driver (src/pass/compiler/pass_compiler.cpp) over     *)
(* the graph library, in a sequence of tool processes.  Each process may   *)
(* run the FIRRTL front end (Inou_firrtl::toLNAST, whose                   *)
(* PopulateAllModsIO registers every module of the circuit in the library *)
(* of its path) and then pass.compiler, whose compile() parses its        *)
(* options, creates the top graph, sets up the __fir_add/__fir_sub        *)
(* sub-nodes and syncs, and lowers every LNAST.  Between compiles another *)
(* command may delete a graph.  A process ends normally, on a failed      *)
(* assertion, or on a fatal error; what its libraries did not sync is     *)
(* lost (GraphLibrary!ProcessExit).                                        *)
(*                                                                         *)
(* The LGraph and Lcompiler code compile() calls is outside src/: creating *)
(* a graph (LGraph::create, Lcompiler::add_firrtl / add_pyrope) registers *)
(* its name with reset_id, as spec 3.4 says a module name is registered   *)
(* on lowering; the global passes change no library state.                 *)
(***************************************************************************)
EXTENDS GraphLibrary

CONSTANTS
  Circuit,      \* the front end's input: <<[name, ext, ports]>> in file order
  Absent,       \* a label not given on the command line
  FirAdd, FirSub, PinA, PinB, PinY,
  Files,        \* the backing files a first process may find
  LabelVals,    \* values given to the firrtl label (Absent: not given)
  TopVals,      \* values given to the top label
  MaxRuns       \* bound on the number of processes

VARIABLES
  phase,        \* where the process is
  lnasts,       \* var.lnasts: the user modules the front end lowered
  opt,          \* the labels of the running pass.compiler
  fepath,       \* the path the front end registered in (Absent: not run)
  lgs,          \* the graphs compile() handed back with var.add
  ub,           \* compile() read lnasts.front() of an empty vector
  runs          \* processes started

vars == <<gi, disk, phase, lnasts, opt, fepath, lgs, ub, runs>>

Phases == {"idle", "lnast", "create", "firmap", "lower", "wait", "done", "aborted", "crashed"}
Opts == [path : Paths, files : BOOLEAN, firrtl : LabelVals, top : TopVals]

\* The labels before any pass.compiler ran (setup's defaults).
DefaultOpt == [path |-> CHOOSE p \in Paths : TRUE, files |-> FALSE, firrtl |-> Absent, top |-> Absent]

\* check_option_firrtl: set unless absent, "false" or "0".
CheckOptionFirrtl(v) == v # Absent /\ v \notin {"false", "0"}

\* check_option_top: the label's value, "" when absent.
CheckOptionTop(v) == IF v = Absent THEN "" ELSE v

UserMods == SelectSeq(Circuit, LAMBDA m : ~m.ext)

\* PopulateAllModsIO via AddModToLibrary: reset_sub of every module of the
\* circuit in the library of the front end's path.  AddModToLibrary returns
\* the Sub_node by value, so the pins AddPortToSub appends go to that copy,
\* not to the library's sub-node.
RegisterAll(L, ms) == FoldLeft(LAMBDA acc, m : ResetSub(acc, m.name), L, ms)

\* Registration of one graph per module name (LGraph creation).
CreateAll(L, ns) == FoldLeft(ResetId, L, ns)

\* setup_firmap_library(lg): two sub-nodes, pins added through the reference
\* setup_sub returns, then sync() of the graph's library.
FirmapSub(L, n) ==
  LET L1 == ResetSub(L, n)  id == GetId(L1, n)
  IN FoldLeft(LAMBDA acc, q : AddPin(acc, id, q), L1,
              <<[name |-> PinA, dir |-> "in"], [name |-> PinB, dir |-> "in"],
                [name |-> PinY, dir |-> "out"]>>)
SetupFirmapLib(L) == FirmapSub(FirmapSub(L, FirAdd), FirSub)

Roomy(L) == GetMaxVersion(L) <= MaxVersion

Put(p, L) == (p :> L) @@ gi

----------------------------------------------------------------------------
\* Inou_firrtl::toLNAST: register the circuit's modules, one LNAST per user
\* module.
FrontEnd ==
  /\ phase = "idle"
  /\ \E p \in Paths :
       LET L == RegisterAll(InstanceOf(p), Circuit) IN
       /\ Roomy(L)
       /\ gi' = Put(p, L)
       /\ fepath' = p
  /\ lnasts' = [i \in DOMAIN UserMods |-> UserMods[i].name]
  /\ phase' = "lnast"
  /\ UNCHANGED <<disk, opt, lgs, ub, runs>>

\* compile(), lines 55-79: the options, the empty-input return, and the
\* assertion that a FIRRTL compile names its top.
CompileStart ==
  /\ phase \in {"idle", "lnast"}
  /\ \E o \in Opts :
       /\ opt' = o
       /\ phase' = CASE lnasts = <<>> /\ ~o.files              -> "done"
                     [] CheckOptionFirrtl(o.firrtl) /\ CheckOptionTop(o.top) = "" -> "aborted"
                     [] CheckOptionFirrtl(o.firrtl)             -> "create"
                     [] OTHER                                   -> "lower"
  /\ UNCHANGED <<gi, disk, lnasts, fepath, lgs, ub, runs>>

\* compile(), line 80: LGraph::create(path, top, lnasts.front()->...).  On
\* an empty lnasts front() is undefined: the process crashes, or the call
\* goes on with whatever source string it read.
CreateTop ==
  /\ phase = "create"
  /\ ub' = (lnasts = <<>>)
  /\ \/ LET L == ResetId(InstanceOf(opt.path), opt.top) IN
          /\ Roomy(L)
          /\ gi' = Put(opt.path, L)
          /\ phase' = "firmap"
     \/ /\ lnasts = <<>>
        /\ phase' = "crashed"
        /\ UNCHANGED gi
  /\ UNCHANGED <<disk, lnasts, opt, fepath, lgs, runs>>

\* compile(), line 81: setup_firmap_library, ending in sync().
SetupFirmap ==
  /\ phase = "firmap"
  /\ LET L == SetupFirmapLib(gi[opt.path]) IN
       /\ Roomy(L)
       /\ gi' = Put(opt.path, Cleaned(L))
       /\ disk' = [disk EXCEPT ![opt.path] = CleanDisk(L, @)]
  /\ phase' = "lower"
  /\ UNCHANGED <<lnasts, opt, fepath, lgs, ub, runs>>

\* compile(), lines 82-84 (firrtl_compilation or pyrope_compilation): one
\* graph per LNAST in the library of the compile's path.  A fatal error of
\* the lowering stops it after any prefix of the LNASTs.
Lower ==
  /\ phase = "lower"
  /\ \E k \in 0..Len(lnasts) :
       LET L == CreateAll(InstanceOf(opt.path), SubSeq(lnasts, 1, k)) IN
       /\ Roomy(L)
       /\ gi' = Put(opt.path, L)
       /\ phase' = IF k = Len(lnasts) THEN "wait" ELSE "crashed"
  /\ UNCHANGED <<disk, lnasts, opt, fepath, lgs, ub, runs>>

\* compile(), lines 87-89: wait_all and var.add.
WaitAll ==
  /\ phase = "wait"
  /\ lgs' = ToSet(lnasts)
  /\ phase' = "done"
  /\ UNCHANGED <<gi, disk, lnasts, opt, fepath, ub, runs>>

\* Another command of the process deletes a registered graph.
DeleteGraph ==
  /\ phase = "idle"
  /\ \E p \in Paths : \E n \in Names :
       /\ Include(InstanceOf(p), n)
       /\ gi' = Put(p, Expunge(InstanceOf(p), n))
  /\ UNCHANGED <<disk, phase, lnasts, opt, fepath, lgs, ub, runs>>

\* The process ends, normally or not, and a new one starts.
Restart ==
  /\ phase \in {"done", "aborted", "crashed"}
  /\ runs < MaxRuns
  /\ ProcessExit
  /\ phase' = "idle"
  /\ lnasts' = <<>>
  /\ fepath' = Absent
  /\ lgs' = {}
  /\ ub' = FALSE
  /\ runs' = runs + 1
  /\ UNCHANGED opt

Init ==
  /\ LibInit(Files)
  /\ phase = "idle"
  /\ lnasts = <<>>
  /\ opt = DefaultOpt
  /\ fepath = Absent
  /\ lgs = {}
  /\ ub = FALSE
  /\ runs = 1

Next ==
  \/ FrontEnd
  \/ CompileStart
  \/ CreateTop
  \/ SetupFirmap
  \/ Lower
  \/ WaitAll
  \/ DeleteGraph
  \/ Restart

Spec == Init /\ [][Next]_vars

----------------------------------------------------------------------------
TypeOK ==
  /\ phase \in Phases
  /\ lnasts \in Seq(Names)
  /\ opt \in Opts \cup {DefaultOpt}
  /\ fepath \in Paths \cup {Absent}
  /\ lgs \subseteq Names /\ ub \in BOOLEAN /\ runs \in 1..MaxRuns
  /\ DOMAIN gi \subseteq Paths
  /\ \A p \in DOMAIN gi :
       /\ gi[p].attribute \in [0..LgraphCount(gi[p]) - 1 -> Attr]
       /\ gi[p].name2id \in [DOMAIN gi[p].name2id -> 1..LgraphCount(gi[p]) - 1]
       /\ DOMAIN gi[p].name2id \subseteq Names
       /\ gi[p].recycled_id \in Seq(1..LgraphCount(gi[p]) - 1)
       /\ gi[p].max_version \in 0..MaxVersion /\ gi[p].clean \in BOOLEAN
       /\ gi[p].sub \in [DOMAIN gi[p].sub -> Seq(Pins)]
  /\ \A p \in Paths : disk[p] \subseteq Record

\* get_version returns the version of a registered graph (the code's own
\* comment: 0 only for an invalid id; spec section 9).
VersionReadable ==
  \A p \in DOMAIN gi : \A n \in DOMAIN gi[p].name2id :
    GetVersion(gi[p], gi[p].name2id[n]) = gi[p].attribute[gi[p].name2id[n]].version

\* compile() dereferences lnasts.front() only when there is an LNAST.
FrontOfLnast == ~ub

\* reset_sub returns the handle on which the module's pins are appended
\* (spec 4.3): after the front end, the library's sub-node of every module
\* of the circuit holds that module's ports in declaration order.
FrontEndPinsRegistered ==
  fepath \in DOMAIN gi =>
    \A i \in DOMAIN Circuit :
      Include(gi[fepath], Circuit[i].name) =>
        gi[fepath].sub[GetId(gi[fepath], Circuit[i].name)] = Circuit[i].ports

\* instance(path) finds the library the process already opened (spec 3.4:
\* one instance per path): when compile() opens the path again to create
\* the top graph and lower the LNASTs, every module the front end
\* registered there in the same process is still registered, and its slot
\* still carries its name, although none of it has been synced yet.
FrontEndKept ==
  fepath \in DOMAIN gi =>
    \A i \in DOMAIN Circuit :
      LET L == gi[fepath]  id == GetId(L, Circuit[i].name) IN
      GetNameDefined(L, id) /\ GetName(L, id) = Circuit[i].name

\* When compile() has finished, the graphs it handed back are on the backing
\* store of its path as they were created (spec 3.4: dirty state is
\* flushed; 4.3: sync is the durability barrier), so a later process sees
\* them.
GraphsDurable ==
  phase = "done" =>
    {r \in Records(InstanceOf(opt.path)) : r.name \in lgs} \subseteq disk[opt.path]

\* The driver's contract with the library and the front end.
DriverContract ==
  VersionReadable /\ FrontOfLnast /\ FrontEndPinsRegistered /\ GraphsDurable

=============================================================================
