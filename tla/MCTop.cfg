SPECIFICATION SteadySpec
CONSTANTS
  NumDecoders = 2
  DescFifoDepth = 2
  InputFifoDepth = 2
  OutputFifoDepth = 2
  SourceLen <- MCSource
  ImageLen <- MCImage
  PixelLen <- MCPixels
  WordSize = 16
  MaxResets = 1
INVARIANTS TopTypeOK AssignmentHoldsBetweenResets FifosAccounted TransfersAccounted SourceInOrder ImageComplete TasksConserved
PROPERTY ImplementsDecodeService
