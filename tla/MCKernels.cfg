CONSTANTS
  NumThreads = 3
  Threshold = 16
  Products <- MCProducts
  Attentions <- MCAttentions
SPECIFICATION Spec
INVARIANTS
  TypeOK
  DotsAreSerial
  OneWriter
  HeadsAreIndependent
