CONSTANTS
  NumBlocks = 2
  BlockSize = 2
  NumLayers = 1
  MaxSeqLen = 3
  Caches = {c1, c2}
  k1 = k1
  k2 = k2
  v1 = v1
  v2 = v2
  z = z
  Vecs <- MCVecs
  Zero = z
  Projections <- MCProjections
SPECIFICATION Spec
SYMMETRY MCSymmetry
INVARIANTS
  TypeOK
  ExclusiveBlocks
  NoBlockLost
  AllocationIsLazy
PROPERTY
  ImplementsContiguousKV
