CONSTANTS
  SubstrOne <- MCSubstrOne
  Progs <- MCProgsBinding
INIT Init
NEXT Next
CHECK_DEADLOCK FALSE
INVARIANT LateBindingComplete
