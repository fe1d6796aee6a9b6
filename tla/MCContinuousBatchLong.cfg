CONSTANTS
  NumBlocks = 6
  BlockSize = 2
  MaxPos = 6
  MaxConcurrent = 3
  Budgets = {1}
  MaxFaults = 0
  Requests <- MCRequestsLong
  MaxSeqs = 4
SPECIFICATION EndlessSpec
PROPERTY EveryPrefillAdvances
