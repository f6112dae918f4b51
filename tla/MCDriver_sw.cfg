SPECIFICATION FairSpec
CONSTANTS
  Mode = "sw"
  NumTasks = 4
  SrcSlots = 2
  DstSlots = 2
  DescFifoDepth = 1
  Decoders = {}
  Descriptors <- MCDescriptors
  NoDesc = NoDesc
  Stale <- MCStale
  Workers = {w1, w2, w3}
  Faults = {"load", "decode"}
INVARIANTS SlotsConserved NoLostWakeup NoIdleDestination OwnImageDumped ExitStatusHonest
PROPERTIES StagesAdvance FrozenByFailure DriverEnds
