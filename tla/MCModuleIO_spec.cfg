CONSTANTS
  Circuits <- MCCircuits
  TIds <- MCTIds
SPECIFICATION Spec
INVARIANT
  ModuleIOSpec
CHECK_DEADLOCK FALSE
