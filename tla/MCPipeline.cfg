CONSTANTS
  Mods <- MCMods
  TIds <- MCTIds
  GenIds <- MCGenIds
  OutIds <- MCOutIds
  MaxTemps = 40
SPECIFICATION PipelineSpec
INVARIANTS
  TypeOK
  OperandsBeforeUse
  DataflowPreserved
CHECK_DEADLOCK FALSE
