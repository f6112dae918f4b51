SPECIFICATION Spec
CONSTANTS
  Mode = "hw"
  NumTasks = 3
  SrcSlots = 2
  DstSlots = 2
  DescFifoDepth = 2
  Decoders = {d1, d2}
  Descriptors <- MCDescriptors
  NoDesc = NoDesc
  Stale <- MCStale
  Workers = {w1, w2}
  Faults = {"load", "descriptor"}
SYMMETRY MCSymmetry
INVARIANTS TypeOK BuffersExclusive NoInternalFailure NoTaskLost
PROPERTIES ImplementsService DeviceIsDecodeService
