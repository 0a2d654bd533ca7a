---------------------------- MODULE GraphLibrary ----------------------------
(***************************************************************************)
(* The graph library (src/core/graph_library.hpp): a per-path directory   *)
(* of graph names, each with an id, a version and an open count, backed   *)
(* by a file of (id, name, version) records.                               *)
(*                                                                         *)
(* A library is a record with the fields of class Graph_library           *)
(* (attribute, name2id, recycled_id, max_version, graph_library_clean)    *)
(* plus sub, the sub-node record (pins) of each registered id.  The       *)
(* operations are operators from a library to a library, so that a        *)
(* caller's handler, which calls several of them in a row, is one action. *)
(* The header defines get_name, lgraph_count, get_id, get_version,        *)
(* include, instance and sync; the other operations (the constructor's    *)
(* reload, add_name, reset_id, update, expunge_lgraph, clean_library) are *)
(* declared there and defined in a file outside src/, so they follow the  *)
(* registry interface of spec sections 3.4, 4.3 and 6.                    *)
(*                                                                         *)
(* gi is Graph_library::global_instances: the instances opened by this    *)
(* process.  disk is the backing file of each path.                        *)
(***************************************************************************)
EXTENDS Naturals, Sequences, FiniteSets, FiniteSetsExt, SequencesExt, Functions

CONSTANTS
  Paths,        \* library directories
  Names,        \* graph names
  Invalid,      \* the name "INVALID" of a cleared attribute
  Pins,         \* pin records [name, dir] a sub-node may hold
  MaxVersion    \* bound on max_version

VARIABLES gi, disk

libvars == <<gi, disk>>

Attr == [name : Names \cup {Invalid}, version : 0..MaxVersion, nopen : {0}]
Record == [id : Nat, name : Names, version : 1..MaxVersion]

\* Graph_attributes::clear().
Cleared == [name |-> Invalid, version |-> 0, nopen |-> 0]

\* lgraph_count(): the size of the attribute vector (slot 0 included).
LgraphCount(L) == Cardinality(DOMAIN L.attribute)

\* get_id(name): the id of a name, 0 when it has none.
GetId(L, n) == IF n \in DOMAIN L.name2id THEN L.name2id[n] ELSE 0

\* include(name).
Include(L, n) == n \in DOMAIN L.name2id

\* get_name(lgid), defined when its two assertions hold.
GetName(L, id) == L.attribute[id].name
GetNameDefined(L, id) == id > 0 /\ LgraphCount(L) > id

\* get_version(lgid) as written: 0 when the id is in range.  For an id past
\* the end the code reads attribute[lgid] out of range; no caller under
\* src/ reaches that case, and no property evaluates it.
GetVersion(L, id) == IF LgraphCount(L) >= id THEN 0 ELSE L.attribute[id].version

\* get_max_version().
GetMaxVersion(L) == L.max_version

\* The records of the backing file and the directory they describe.
DiskIds(d) == {r.id : r \in d}
DiskDir(d) == [n \in {r.name : r \in d} |-> (CHOOSE r \in d : r.name = n).id]

\* The constructor Graph_library(path): reload the backing file.  A missing
\* id below the largest one is a recycled id; the version counter resumes
\* from the largest stored version.
Load(d) ==
  LET size == Max(DiskIds(d) \cup {0}) + 1
      At(i) == CHOOSE r \in d : r.id = i
  IN [attribute   |-> [i \in 0..size-1 |->
                         IF i \in DiskIds(d)
                         THEN [name |-> At(i).name, version |-> At(i).version, nopen |-> 0]
                         ELSE Cleared],
      name2id     |-> DiskDir(d),
      recycled_id |-> SetToSortSeq((1..size-1) \ DiskIds(d), <),
      max_version |-> Max({r.version : r \in d} \cup {0}),
      clean       |-> TRUE,
      sub         |-> [i \in DiskIds(d) |-> <<>>]]

\* Mutant of InstanceOf: the path is reloaded from its file every time.
InstanceOfReload(p) == Load(disk[p])

\* instance(path): the process's instance of a path, created on first use.
InstanceOf(p) == IF p \in DOMAIN gi THEN gi[p] ELSE Load(disk[p])

\* update(lgid): the graph becomes the most recently modified one.
Update(L, id) ==
  [L EXCEPT !.attribute[id].version = L.max_version + 1,
            !.max_version = @ + 1, !.clean = FALSE]

\* Mutant of NewId: a new slot one past the end.
NewIdPastEnd(L) == IF L.recycled_id # <<>> THEN Last(L.recycled_id) ELSE LgraphCount(L) + 1

\* The id add_name hands out: the last recycled id, else a new slot.
NewId(L) == IF L.recycled_id # <<>> THEN Last(L.recycled_id) ELSE LgraphCount(L)

\* add_name(name): register a new name under NewId.
AddName(L, n) ==
  LET id == NewId(L)
      v  == L.max_version + 1
  IN [L EXCEPT
        !.attribute   = [i \in (DOMAIN @) \cup {id} |->
                           IF i = id THEN [name |-> n, version |-> v, nopen |-> 0]
                           ELSE L.attribute[i]],
        !.recycled_id = IF @ # <<>> THEN Front(@) ELSE @,
        !.name2id     = (n :> id) @@ @,
        !.sub         = (id :> <<>>) @@ @,
        !.max_version = v,
        !.clean       = FALSE]

\* reset_id(name): a registered name keeps its id and is updated; a new
\* name is added.
ResetId(L, n) == IF Include(L, n) THEN Update(L, L.name2id[n]) ELSE AddName(L, n)

\* reset_sub / setup_sub(name, source): reset the id and clear the sub-node.
ResetSub(L, n) ==
  LET L1 == ResetId(L, n) IN [L1 EXCEPT !.sub[L1.name2id[n]] = <<>>]

\* Sub_node::add_input_pin / add_output_pin on the library's sub-node.
AddPin(L, id, pin) == [L EXCEPT !.sub[id] = Append(@, pin)]

\* expunge_lgraph(name, lg): drop the name, clear and recycle its id.
Expunge(L, n) ==
  LET id == L.name2id[n] IN
  [L EXCEPT !.attribute[id] = Cleared,
            !.name2id       = [m \in DOMAIN @ \ {n} |-> @[m]],
            !.recycled_id   = Append(@, id),
            !.sub           = [i \in DOMAIN @ \ {id} |-> @[i]],
            !.clean         = FALSE]

\* The records clean_library writes: one per registered name.
Records(L) ==
  {[id |-> L.name2id[n], name |-> n, version |-> L.attribute[L.name2id[n]].version]
     : n \in DOMAIN L.name2id}

\* sync(), that is clean_library(): rewrite the file when dirty, and the
\* library is clean.
CleanDisk(L, d) == IF L.clean THEN d ELSE Records(L)
Cleaned(L) == [L EXCEPT !.clean = TRUE]

\* The end of the process.  instance() allocates each library with new and
\* keeps only the raw pointer in global_instances, so no ~Graph_library (and
\* its clean_library) runs: what was not synced is lost.
ProcessExit ==
  /\ gi' = <<>>
  /\ UNCHANGED disk

\* A fresh process: no instance opened, the backing files as some earlier
\* run left them.
LibInit(Files) ==
  /\ gi = <<>>
  /\ disk \in Files

=============================================================================
