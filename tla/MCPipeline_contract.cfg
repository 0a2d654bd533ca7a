CONSTANTS
  Mods <- ContractValueMods
  TIds <- MCTIds
  GenIds <- MCGenIds
  OutIds <- MCOutIds
  MaxTemps = 40
SPECIFICATION PipelineSpec
INVARIANT LnastContract
CHECK_DEADLOCK FALSE
