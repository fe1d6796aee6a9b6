CONSTANTS
  NumBlocks = 5
  BlockSize = 2
  MaxPos = 6
  MaxConcurrent = 3
  Budgets = {1, 3}
  MaxFaults = 1
  Requests <- MCRequests
  MaxSeqs = 4
SPECIFICATION Spec
CONSTRAINT LastDecodes
INVARIANTS
  TypeOK
  BlocksConserved
  HistoryContiguous
  HoldersBounded
PROPERTY ImplementsServing
