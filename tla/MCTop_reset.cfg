SPECIFICATION TopSpec
CONSTANTS
  NumDecoders = 2
  DescFifoDepth = 2
  InputFifoDepth = 1
  OutputFifoDepth = 1
  SourceLen <- MCSource
  ImageLen <- MCImage
  PixelLen <- MCPixels
  WordSize = 16
  MaxResets = 1
INVARIANTS AssignmentHolds
