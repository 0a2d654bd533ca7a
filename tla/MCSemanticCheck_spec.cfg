CONSTANTS
  Progs <- MCProgsSpec
  TempNames <- MCTempNames
  OutNames <- MCOutNames
SPECIFICATION Spec
INVARIANT ValidatorSpec
CHECK_DEADLOCK FALSE
