SPECIFICATION DecoderSpec
CONSTANTS
  Files <- MCFlatFiles
  Edge = 2
  DstCapacity = 144
  MaxBlocks = 64
INVARIANT WholeImage
CHECK_DEADLOCK FALSE
