CONSTANTS
  SubstrOne <- MCSubstrOne
  Progs <- MCProgs
INIT Init
NEXT Next
\* Lowering a module ends after PerformLateMemAssigns.
CHECK_DEADLOCK FALSE
INVARIANTS
  TypeOK
  InferredDirection
  PlaceholderBeforeDriver
  LatePlaceholdersDeclared
  AttributesDefinedOnce
