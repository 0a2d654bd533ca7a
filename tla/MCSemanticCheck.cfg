CONSTANTS
  Progs <- MCProgs
  TempNames <- MCTempNames
  OutNames <- MCOutNames
SPECIFICATION Spec
INVARIANTS
  TypeOK
  ListsDisjoint
  TempWrittenOnce
  UnreadTempsWarned
CHECK_DEADLOCK FALSE
