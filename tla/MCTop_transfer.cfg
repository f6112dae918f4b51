SPECIFICATION TopSpec
CONSTANTS
  NumDecoders = 2
  DescFifoDepth = 2
  InputFifoDepth = 2
  OutputFifoDepth = 2
  SourceLen <- MCSourceLong
  ImageLen <- MCImageLong
  PixelLen <- MCPixelsLong
  WordSize = 16
  MaxResets = 0
INVARIANTS ImageComplete
