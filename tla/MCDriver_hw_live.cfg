SPECIFICATION FairSpec
CONSTANTS
  Mode = "hw"
  NumTasks = 4
  SrcSlots = 3
  DstSlots = 2
  DescFifoDepth = 2
  Decoders = {d1, d2}
  Descriptors <- MCDescriptors
  NoDesc = NoDesc
  Stale <- MCStale
  Workers = {w1}
  Faults = {}
PROPERTIES AllImagesDone
