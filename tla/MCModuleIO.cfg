CONSTANTS
  Circuits <- MCCircuits
  TIds <- MCTIds
SPECIFICATION Spec
INVARIANTS
  TypeOK
  InstanceDirAgrees
  PortWidthAttrs
  AsyncResetAttr
  BigIntRoundTrip
CHECK_DEADLOCK FALSE
