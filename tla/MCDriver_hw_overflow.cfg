SPECIFICATION FairSpec
CONSTANTS
  Mode = "hw"
  NumTasks = 3
  SrcSlots = 3
  DstSlots = 3
  DescFifoDepth = 1
  Decoders = {d1, d2}
  Descriptors <- MCDescriptors
  NoDesc = NoDesc
  Stale <- MCStale
  Workers = {w1}
  Faults = {}
PROPERTIES DriverEnds
