-------------------------- MODULE MCPassCompiler --------------------------
(***************************************************************************)
(* Two library paths, the default lgdb and one other.  The circuit has an *)
(* external module Ext and a user module Top; the compile's top label is  *)
(* absent or one of the graph names.  A first process finds either empty  *)
(* libraries or an lgdb file left by an earlier run, with a graph Old at   *)
(* id 1, Top at id 3 and id 2 deleted.  Up to three processes run.        *)
(***************************************************************************)
EXTENDS PassCompiler

MCPaths == {"lgdb", "alt"}
MCNames == {"Top", "Ext", "Old", "__fir_add", "__fir_sub"}
MCPinNames == {"i", "o", "A", "B", "Y"}
MCPins == [name : MCPinNames, dir : {"in", "out"}]

MCCircuit ==
  << [name |-> "Ext", ext |-> TRUE,  ports |-> <<[name |-> "i", dir |-> "in"]>>],
     [name |-> "Top", ext |-> FALSE, ports |-> <<[name |-> "i", dir |-> "in"],
                                                 [name |-> "o", dir |-> "out"]>>] >>

OldFile == {[id |-> 1, name |-> "Old", version |-> 1], [id |-> 3, name |-> "Top", version |-> 2]}
MCFiles == {[p \in MCPaths |-> {}], [p \in MCPaths |-> IF p = "lgdb" THEN OldFile ELSE {}]}

MCLabelVals == {Absent, "true", "0"}
MCTopVals == {Absent, "Top"}
=============================================================================
