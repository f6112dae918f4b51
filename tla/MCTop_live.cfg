SPECIFICATION TopFairSpec
CONSTANTS
  NumDecoders = 2
  DescFifoDepth = 1
  InputFifoDepth = 1
  OutputFifoDepth = 1
  SourceLen <- MCSourceShort
  ImageLen <- MCImageShort
  PixelLen <- MCPixelsShort
  WordSize = 16
  MaxResets = 0
PROPERTIES EveryImageReturned
