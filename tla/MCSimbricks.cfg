SPECIFICATION HostLinkFairSpec
CONSTANTS
  Slots = 2
  SrcSize = 5
  DstSize = 4
  Alignment = 8
  RegionSizes <- MCRegionSizes
  PhysBases <- MCPhysBases
  Cores <- MCCores
  ClockPeriod = 2
  LinkLatency = 1
  SyncInterval = 1
  QueueLen = 3
  MaxPending = 2
  Jobs = 1
  ReadsPerJob = 2
  EndOfTime = 6
INVARIANTS SlotsDisjoint StartedReady NoDescriptorLeft LinkTypeOK OneReadInFlight DmaAnsweredOnce AbortedByLateDma
PROPERTIES HandledOnTime TimeMonotone TimeGoesOn
CHECK_DEADLOCK FALSE
