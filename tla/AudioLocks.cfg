SPECIFICATION FairSpec
CONSTANTS
  transfers = transfers
  reroutes = reroutes
  opens = opens
  o1 = o1
  o2 = o2
  i1 = i1
  Free = Free
  Null = Null
  Threads <- MCThreads
  Outputs <- MCOutputs
  Inputs <- OneInput
  Modes <- CallOrNot
  MayCall <- MCMayCall
INVARIANTS
  TransferSafe
  ScanSafe
  ModeMatchesCall
PROPERTIES
  HolderProceeds
