SPECIFICATION DecoderFairSpec
CONSTANTS
  Files <- MCFiles
  Edge = 2
  DstCapacity = 144
  MaxBlocks = 64
INVARIANTS BufferHoldsScan BlocksRight ScanIsFinished ImageRight FaultsRefused
PROPERTIES DecoderEnds
CHECK_DEADLOCK FALSE
