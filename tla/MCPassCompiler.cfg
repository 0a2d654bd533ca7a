CONSTANTS
  Paths <- MCPaths
  Names <- MCNames
  Invalid = "INVALID"
  Pins <- MCPins
  MaxVersion = 12
  Circuit <- MCCircuit
  Absent = Absent
  FirAdd = "__fir_add"
  FirSub = "__fir_sub"
  PinA = "A"
  PinB = "B"
  PinY = "Y"
  Files <- MCFiles
  MaxRuns = 2
  LabelVals <- MCLabelVals
  TopVals <- MCTopVals
SPECIFICATION Spec
INVARIANTS
  TypeOK
  FrontEndKept
CHECK_DEADLOCK FALSE
