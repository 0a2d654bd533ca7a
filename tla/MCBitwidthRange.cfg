CONSTANTS
  W = 5
  BitsMax = 48
  Consts <- MCConsts
  Sizes <- MCSizes
INIT Init
NEXT Next
INVARIANTS
  TypeOK
  UbitsRoundTrip
