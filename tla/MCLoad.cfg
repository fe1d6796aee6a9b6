CONSTANTS
  Word = 128
  MaxString = 100
  Names <- MCNames
  Embed <- MCEmbed
  LmHead <- MCLmHead
  Norm <- MCNorm
  Shards <- MCShards
  Sound <- MCSound
  OddSizes <- MCOddSizes
  OddHeaders <- MCOddHeaders
  OddNames <- MCOddNames
  OddDims <- MCOddDims
  OddOffsets <- MCOddOffsets
  MaxOdd = 1
  MaxLost = 1
  Hidden = 2
  QDim = 3
  KvDim = 1
  Inter = 1
  Vocab = 2
  NumLayers = 2
  Threads = {t1, t2}
  MaxFaults = 1
SPECIFICATION Spec
SYMMETRY MCSymmetry
INVARIANTS
  TypeOK
  TensorsInMappings
  NothingElseLeaks
  ForwardSeesWholeModel
