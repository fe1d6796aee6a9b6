CONSTANTS
  NumBlocks = 3
  BlockSize = 2
  MaxPos = 6
  MaxConcurrent = 2
  Budgets = {1, 3}
  MaxFaults = 1
  Requests <- MCRequestsFew
  MaxSeqs = 3
SPECIFICATION EndlessSpec
PROPERTY EveryRequestAnswered
