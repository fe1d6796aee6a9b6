CONSTANTS
  NumBlocks = 4
  BlockSize = 2
  MaxPos = 6
  Requests <- MCRequests
  MaxSeqs = 3
SPECIFICATION Spec
INVARIANTS
  TypeOK
  FitsIsServed
PROPERTIES
  ImplementsServing
  RunEnds
