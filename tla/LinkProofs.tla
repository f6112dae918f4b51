------------------------------ MODULE LinkProofs ------------------------------
(***************************************************************************)
(* The driver's start-up and the SimBricks link behind it, which take      *)
(* their steps in any order (HostLinkSpec).                                *)
(*                                                                         *)
(* The driver starts right: the invariants of start-up hold for any number *)
(* and size of slots, any alignment, any DMA region and any failing call.  *)
(* They do not say in which step which descriptors are open or how far the *)
(* pools are cut; the inductive one does.                                  *)
(*                                                                         *)
(* The link: register reads, DMA requests and images are neither           *)
(* lost nor doubled on their way through the two queues, time goes forward *)
(* and stands still when it should, and what ends the simulator is the     *)
(* late answer to a DMA request, never an access of the driver; for any    *)
(* clock period, latency, synchronisation interval, queue length and       *)
(* number of identifiers and images.                                       *)
(***************************************************************************)
EXTENDS SimbricksProperties, QueueLemmas, SequenceTheorems

-----------------------------------------------------------------------------
(* Start-up *)

VfioSteps == {"open_container", "check_api", "check_noiommu", "open_group", "group_status",
              "set_container", "set_iommu", "get_device_fd", "device_info",
              "busmaster_enable", "map_region_0", "map_region_1"}
DevmemSteps == {"open_devmem", "mmap_devmem"}
DmaSteps == {"get_size", "get_phys_addr", "get_coherent", "open_udmabuf", "get_sync",
             "set_sync", "mmap_udmabuf"}
LaterSteps == {"init_pools", "start_threads", "started"}

(* What stays open of the backend's own set-up. *)
Own == IF backend = "vfio" THEN {"device"} ELSE {}

(* The descriptors that are open when a step begins. *)
OpenAt ==
  CASE step \in {"open_container", "open_devmem"} -> {}
    [] step \in {"check_api", "check_noiommu", "open_group"} -> {"container"}
    [] step \in {"group_status", "set_container", "set_iommu", "get_device_fd"} ->
         {"container", "group"}
    [] step = "device_info" -> {"container", "group", "device"}
    [] step \in {"busmaster_enable", "map_region_0", "map_region_1"} -> {"device"}
    [] step = "mmap_devmem" -> {"devmem"}
    [] step \in {"get_sync", "set_sync", "mmap_udmabuf"} -> Own \union {"udmabuf"}
    [] OTHER -> Own

StepsOrdered ==
  /\ backend \in {"vfio", "devmem", "sw"}
  /\ step \in VfioSteps \union DevmemSteps \union DmaSteps \union LaterSteps \union {"failed"}
  /\ step \in VfioSteps => backend = "vfio"
  /\ step \in DevmemSteps => backend = "devmem"
  /\ step \in DmaSteps => backend # "sw"

OpenDescriptors ==
  IF step = "failed" THEN fds \subseteq Own ELSE fds = OpenAt

DeviceReady ==
  /\ bars \subseteq {0, 1}
  /\ step = "map_region_1" => 0 \in bars
  /\ backend # "sw" /\ step \in DmaSteps \union LaterSteps => bars = {0, 1}
  /\ backend = "vfio" /\ step \in {"map_region_0", "map_region_1"} \union DmaSteps \union LaterSteps
       => bus_master

Buffer == [off : Nat, size : Nat]

PoolTypes ==
  /\ region \in [size : Nat, base : Nat]
  /\ dma_buf_off \in Nat
  /\ slots \in Seq(Buffer)

(* The slots lie one behind the other, and behind the last one the region   *)
(* is free.                                                                 *)
(* Slot i, below what is cut so far. *)
WellCut(s, i, limit) ==
  /\ s.off \in Nat /\ s.size \in Nat
  /\ s.size = (IF i <= Slots THEN SrcSize ELSE DstSize)
  /\ s.off % Alignment = 0
  /\ s.off + s.size <= limit

(* A slot within the region. *)
Inside(s, size) == s.off + s.size <= size

(* Of two slots, the one cut first. *)
Before(s, r) == s.off + s.size <= r.off

PoolsCut ==
  /\ slots # <<>> => step \in LaterSteps \union {"failed"}
  /\ Len(slots) <= 2 * Slots
  /\ \A i \in 1..Len(slots) : WellCut(slots[i], i, dma_buf_off)
  /\ backend # "sw" => \A i \in 1..Len(slots) : Inside(slots[i], region.size)
  /\ \A i, j \in 1..Len(slots) : i < j => Before(slots[i], slots[j])
  /\ slots # <<>> /\ backend # "sw" => region.base % Alignment = 0

ThreadsStart ==
  /\ step \in {"start_threads", "started"} => PoolsComplete
  /\ step = "started" => cpu_workers >= 1

StartupInv ==
  /\ StepsOrdered
  /\ OpenDescriptors
  /\ DeviceReady
  /\ PoolTypes
  /\ PoolsCut
  /\ ThreadsStart

-----------------------------------------------------------------------------
(* Division with remainder, and the remainder of a multiple. *)
LEMMA DivMod ==
  \A v \in Nat, a \in Nat \ {0} :
    /\ v = ((v \div a) * a) + (v % a)
    /\ v % a \in 0..(a - 1)
    /\ v \div a \in Nat
  BY SMT

LEMMA MultipleMod == \A q \in Nat, a \in Nat \ {0} : (q * a) % a = 0
  BY SMT

(* AlignUp returns a multiple of the alignment that is not below the value. *)
LEMMA AlignUpAligns ==
  ASSUME NEW v \in Nat, NEW a \in Nat \ {0}
  PROVE  AlignUp(v, a) \in Nat /\ AlignUp(v, a) >= v /\ AlignUp(v, a) % a = 0
<1> DEFINE q == (v + a - 1) \div a
           r == (v + a - 1) % a
<1>1. v + a - 1 \in Nat
  BY SMT
<1>2. q \in Nat /\ r \in 0..(a - 1) /\ v + a - 1 = (q * a) + r
  BY <1>1, DivMod
<1>3. AlignUp(v, a) = q * a
  BY DEF AlignUp
<1>4. (q * a) % a = 0
  BY <1>2, MultipleMod
<1> HIDE DEF q, r
<1>5. q * a \in Nat
  BY <1>2, SMT
<1>6. q * a >= v
  BY <1>2, <1>5, SMT
<1> QED
  BY <1>3, <1>4, <1>5, <1>6

-----------------------------------------------------------------------------
LEMMA StartupInvInitially == StartupInit => StartupInv
  BY StartupAssumption, SMT
  DEF StartupInit, StartupInv, StepsOrdered, OpenDescriptors, DeviceReady, PoolTypes, WellCut, Inside,
      Before, PoolsCut, ThreadsStart, OpenAt, Own, NoRegion, VfioSteps,
      DevmemSteps, DmaSteps, LaterSteps

(* A step that leaves the pools and their region alone keeps what is known  *)
(* of them, as long as it does not go back behind init_pools.               *)
LEMMA PoolsKept ==
  ASSUME StartupInv, UNCHANGED <<backend, region, dma_buf_off, slots>>,
         slots # <<>> => step' \in LaterSteps \union {"failed"}
  PROVE  PoolTypes' /\ PoolsCut'
  BY SMT DEF StartupInv, PoolTypes, PoolsCut

LEMMA VfioInitKeeps ==
  ASSUME StartupInv, VfioInit
  PROVE  StartupInv'
<1>1. step \in VfioSteps /\ step' \in VfioSteps \union {"failed"} /\ backend = "vfio"
  BY Zenon
  DEF StartupInv, StepsOrdered, VfioInit, VfioInitStep, VfioInitFails, Call, CallFails, VfioSteps
<1>2. UNCHANGED <<backend, region, dma_buf_off, slots, bars, bus_master, cpu_workers>>
  BY DEF VfioInit
<1>3. slots = <<>>
  BY <1>1, SMT DEF StartupInv, PoolsCut, LaterSteps, VfioSteps
<1>4. PoolTypes' /\ PoolsCut'
  BY <1>2, <1>3, PoolsKept
<1>5. OpenDescriptors'
  <2>1. CASE VfioInitStep
    BY <2>1, <1>1, <1>2, SMT
    DEF StartupInv, OpenDescriptors, OpenAt, Own, VfioInitStep, Call, VfioSteps
  <2>2. CASE VfioInitFails
    BY <2>2, <1>1, <1>2, SMT
    DEF StartupInv, OpenDescriptors, OpenAt, Own, VfioInitFails, CallFails, VfioSteps,
        ErrorCont, ErrorGroup, ErrorDev
  <2> QED
    BY <2>1, <2>2 DEF VfioInit
<1>6. step' \notin {"map_region_0", "map_region_1"}
  BY SMT DEF VfioInit, VfioInitStep, VfioInitFails, Call, CallFails
<1> QED
  BY <1>1, <1>2, <1>4, <1>5, <1>6, SMT
  DEF StartupInv, StepsOrdered, DeviceReady, ThreadsStart, VfioSteps, DevmemSteps, DmaSteps,
      LaterSteps

LEMMA BusmasterEnableKeeps ==
  ASSUME StartupInv, BusmasterEnable
  PROVE  StartupInv'
<1>1. PoolTypes' /\ PoolsCut'
  <2>1. slots = <<>>
    BY SMT DEF BusmasterEnable, Call, CallFails, StartupInv, PoolsCut, LaterSteps
  <2> QED
    BY <2>1, PoolsKept DEF BusmasterEnable
<1> QED
  BY <1>1, SMT
  DEF BusmasterEnable, Call, CallFails, StartupInv, StepsOrdered, OpenDescriptors, OpenAt, Own,
      DeviceReady, ThreadsStart, VfioSteps, DevmemSteps, DmaSteps, LaterSteps

LEMMA MapRegionKeeps ==
  ASSUME StartupInv, MapRegion
  PROVE  StartupInv'
<1>1. PoolTypes' /\ PoolsCut'
  <2>1. slots = <<>>
    BY SMT DEF MapRegion, Call, CallFails, StartupInv, PoolsCut, LaterSteps
  <2> QED
    BY <2>1, PoolsKept DEF MapRegion
<1> QED
  BY <1>1, SMT
  DEF MapRegion, Call, CallFails, StartupInv, StepsOrdered, OpenDescriptors, OpenAt, Own,
      DeviceReady, ThreadsStart, VfioSteps, DevmemSteps, DmaSteps, LaterSteps

LEMMA InitDevmemKeeps ==
  ASSUME StartupInv, InitDevmem
  PROVE  StartupInv'
<1>1. PoolTypes' /\ PoolsCut'
  <2>1. slots = <<>>
    BY SMT DEF InitDevmem, Call, CallFails, StartupInv, PoolsCut, LaterSteps
  <2> QED
    BY <2>1, PoolsKept DEF InitDevmem
<1> QED
  BY <1>1, SMT
  DEF InitDevmem, Call, CallFails, StartupInv, StepsOrdered, OpenDescriptors, OpenAt, Own,
      DeviceReady, ThreadsStart, VfioSteps, DevmemSteps, DmaSteps, LaterSteps

LEMMA DmaBufInitKeeps ==
  ASSUME StartupInv, DmaBufInit
  PROVE  StartupInv'
<1>1. /\ step \in DmaSteps
      /\ step' \in DmaSteps \union {"init_pools", "failed"}
      /\ backend # "sw"
      /\ UNCHANGED <<backend, bus_master, bars, dma_buf_off, slots, cpu_workers>>
  BY SMT DEF DmaBufInit, Call, CallFails, StartupInv, StepsOrdered, DmaSteps
<1>2. slots = <<>>
  BY <1>1, SMT DEF StartupInv, PoolsCut, LaterSteps, DmaSteps
<1>3. region' \in [size : Nat, base : Nat]
  BY StartupAssumption, SMT DEF DmaBufInit, StartupInv, PoolTypes
<1>4. PoolTypes' /\ PoolsCut'
  BY <1>1, <1>2, <1>3, SMT DEF StartupInv, PoolTypes, PoolsCut
<1>5. OpenDescriptors'
  BY <1>1, SMT
  DEF DmaBufInit, Call, CallFails, StartupInv, OpenDescriptors, OpenAt, Own, DmaSteps
<1> QED
  BY <1>1, <1>4, <1>5, SMT
  DEF StartupInv, StepsOrdered, DeviceReady, ThreadsStart, VfioSteps, DevmemSteps, DmaSteps,
      LaterSteps

-----------------------------------------------------------------------------
(* A slot cut behind the others, at the next aligned offset. *)
LEMMA SlotCut ==
  ASSUME StartupInv, step = "init_pools", ~PoolsComplete,
         NEW off, off = AlignUp(dma_buf_off, Alignment),
         slots' = Append(slots, [off |-> off, size |-> NextSize]),
         dma_buf_off' = off + NextSize,
         backend # "sw" => region.base % Alignment = 0 /\ off + NextSize <= region.size,
         UNCHANGED <<backend, region, step>>
  PROVE  PoolTypes' /\ PoolsCut'
<1> DEFINE new == [off |-> off, size |-> NextSize]
<1>0. PICK n : n = Len(slots)
  OBVIOUS
<1>1. off \in Nat /\ off >= dma_buf_off /\ off % Alignment = 0
  BY AlignUpAligns, StartupAssumption DEF StartupInv, PoolTypes
<1>2. NextSize \in Nat /\ NextSize = (IF n + 1 <= Slots THEN SrcSize ELSE DstSize)
  BY <1>0, StartupAssumption, SMT DEF NextSize, StartupInv, PoolTypes
<1>3. slots \in Seq(Buffer) /\ new \in Buffer
  BY <1>1, <1>2 DEF StartupInv, PoolTypes, Buffer
<1>4. /\ slots' = Append(slots, new)
      /\ slots' \in Seq(Buffer)
      /\ n \in Nat /\ Len(slots') = n + 1
      /\ \A i \in 1..n : slots'[i] = slots[i]
      /\ slots'[n + 1] = new
  BY <1>0, <1>3, SMT
<1>5. n + 1 <= 2 * Slots
  BY <1>0, <1>4, StartupAssumption, SMT DEF StartupInv, PoolsCut, PoolsComplete
<1>6. dma_buf_off \in Nat /\ dma_buf_off' \in Nat /\ dma_buf_off <= dma_buf_off'
  BY <1>1, <1>2, SMT DEF StartupInv, PoolTypes
<1>7. new.off = off /\ new.size = NextSize
  OBVIOUS
<1> HIDE DEF new
<1>8. /\ \A i \in 1..n : WellCut(slots[i], i, dma_buf_off)
      /\ backend # "sw" => \A i \in 1..n : Inside(slots[i], region.size)
      /\ \A i, j \in 1..n : i < j => Before(slots[i], slots[j])
  BY <1>0, Zenon DEF StartupInv, PoolsCut
<1>9. /\ \A i \in 1..(n + 1) : i = n + 1 \/ i \in 1..n
      /\ \A i \in 1..(n + 1), j \in 1..(n + 1) : i < j => i \in 1..n
  BY <1>4, SMT
<1>10. ASSUME NEW i \in 1..(n + 1)
       PROVE  /\ WellCut(slots'[i], i, dma_buf_off')
              /\ backend # "sw" => Inside(slots'[i], region.size)
  <2>1. CASE i = n + 1
    <3>1. WellCut(new, i, dma_buf_off')
      BY <2>1, <1>1, <1>2, <1>7, SMT DEF WellCut
    <3>2. backend # "sw" => Inside(new, region.size)
      BY <1>7 DEF Inside
    <3> QED
      BY <3>1, <3>2, <2>1, <1>4
  <2>2. CASE i \in 1..n
    <3>1. ASSUME NEW s, WellCut(s, i, dma_buf_off)
          PROVE  WellCut(s, i, dma_buf_off')
      BY <3>1, <1>6, SMT DEF WellCut
    <3> QED
      BY <3>1, <2>2, <1>4, <1>8
  <2> QED
    BY <2>1, <2>2, <1>9, Zenon
<1>11. ASSUME NEW i \in 1..(n + 1), NEW j \in 1..(n + 1), i < j
       PROVE  Before(slots'[i], slots'[j])
  <2>1. i \in 1..n /\ slots'[i] = slots[i]
    BY <1>4, <1>9, <1>11
  <2>2. CASE j = n + 1
    <3>1. WellCut(slots[i], i, dma_buf_off)
      BY <2>1, <1>8
    <3>2. ASSUME NEW s, WellCut(s, i, dma_buf_off)
          PROVE  Before(s, new)
      BY <3>2, <1>1, <1>6, <1>7, SMT DEF WellCut, Before
    <3> QED
      BY <3>1, <3>2, <2>1, <2>2, <1>4
  <2>3. CASE j \in 1..n
    BY <2>1, <2>3, <1>4, <1>8, <1>11
  <2> QED
    BY <2>2, <2>3, <1>9, Zenon
<1>12. slots' # <<>>
  BY <1>4, SMT
<1>13. PoolTypes'
  BY <1>4, <1>6 DEF StartupInv, PoolTypes
<1>14. PoolsCut'
  BY <1>4, <1>5, <1>10, <1>11, <1>12 DEF PoolsCut, LaterSteps
<1> QED
  BY <1>13, <1>14

LEMMA AllocationKeeps ==
  ASSUME StartupInv, DmaBufAllocAligned \/ MallocSlot
  PROVE  StartupInv'
<1> DEFINE off == AlignUp(dma_buf_off, Alignment)
<1>1. /\ step = "init_pools" /\ ~PoolsComplete /\ step' \in {"init_pools", "failed"}
      /\ UNCHANGED <<backend, fds, bus_master, bars, region, cpu_workers>>
  BY DEF DmaBufAllocAligned, MallocSlot
<1>2. PoolTypes' /\ PoolsCut'
  <2>1. CASE step' = "failed"
    <3>1. UNCHANGED <<slots, dma_buf_off>>
      BY <2>1, <1>1 DEF DmaBufAllocAligned, MallocSlot
    <3> QED
      BY <3>1, <2>1, <1>1, PoolsKept
  <2>2. CASE step' # "failed"
    <3>1. /\ slots' = Append(slots, [off |-> off, size |-> NextSize])
          /\ dma_buf_off' = off + NextSize
          /\ step' = step
      BY <2>2, <1>1 DEF DmaBufAllocAligned, MallocSlot
    <3>2. off \in Nat /\ NextSize \in Nat
      BY AlignUpAligns, StartupAssumption DEF NextSize, StartupInv, PoolTypes
    <3>3. ASSUME backend # "sw"
          PROVE  region.base % Alignment = 0 /\ off + NextSize <= region.size
      <4>1. ~(region.base % Alignment # 0 \/ off + NextSize > region.size)
        BY <3>3, <2>2 DEF DmaBufAllocAligned, MallocSlot
      <4>2. region.size \in Nat
        BY DEF StartupInv, PoolTypes
      <4> HIDE DEF off
      <4> QED
        BY <4>1, <4>2, <3>2, SMT
    <3> HIDE DEF off
    <3>4. off = AlignUp(dma_buf_off, Alignment)
      BY DEF off
    <3> QED
      BY <3>1, <3>3, <3>4, <1>1, SlotCut
  <2> QED
    BY <2>1, <2>2
<1> QED
  BY <1>1, <1>2, SMT
  DEF StartupInv, StepsOrdered, OpenDescriptors, OpenAt, Own, DeviceReady, ThreadsStart,
      VfioSteps, DevmemSteps, DmaSteps, LaterSteps

LEMMA CheckImagesKeeps ==
  ASSUME StartupInv, CheckImages
  PROVE  StartupInv'
<1>1. PoolTypes' /\ PoolsCut'
  BY PoolsKept DEF CheckImages, LaterSteps
<1>2. PoolsComplete'
  BY DEF CheckImages, PoolsComplete
<1> QED
  BY <1>1, <1>2, SMT
  DEF CheckImages, StartupInv, StepsOrdered, OpenDescriptors, OpenAt, Own, DeviceReady,
      ThreadsStart, VfioSteps, DevmemSteps, DmaSteps, LaterSteps

LEMMA StartThreadsKeeps ==
  ASSUME StartupInv, StartThreads
  PROVE  StartupInv'
<1>1. PoolTypes' /\ PoolsCut'
  BY PoolsKept DEF StartThreads, LaterSteps
<1>2. PoolsComplete'
  BY DEF StartThreads, PoolsComplete, StartupInv, ThreadsStart
<1>3. cpu_workers' >= 1
  BY StartupAssumption, SMT DEF StartThreads
<1> QED
  BY <1>1, <1>2, <1>3, SMT
  DEF StartThreads, StartupInv, StepsOrdered, OpenDescriptors, OpenAt, Own, DeviceReady,
      ThreadsStart, VfioSteps, DevmemSteps, DmaSteps, LaterSteps

(* The inductive invariant of start-up, behind which the link runs. *)
THEOREM StartupInvariant == HostLinkSpec => []StartupInv
<1>1. HostLinkInit => StartupInv
  BY StartupInvInitially DEF HostLinkInit
<1>2. StartupInv /\ [HostLinkNext]_HostLinkVars => StartupInv'
  <2> SUFFICES ASSUME StartupInv, [HostLinkNext]_HostLinkVars
               PROVE  StartupInv'
    OBVIOUS
  <2>1. CASE StartupNext
    BY <2>1, VfioInitKeeps, BusmasterEnableKeeps, MapRegionKeeps, InitDevmemKeeps,
       DmaBufInitKeeps, AllocationKeeps, CheckImagesKeeps, StartThreadsKeeps
    DEF StartupNext
  <2>2. CASE UNCHANGED startupVars
    BY <2>2
    DEF startupVars, StartupInv, StepsOrdered, OpenDescriptors, OpenAt, Own, DeviceReady, PoolTypes,
        PoolsCut, ThreadsStart, PoolsComplete
  <2> QED
    BY <2>1, <2>2 DEF HostLinkNext, Linked, HostLinkVars
<1> QED
  BY <1>1, <1>2, PTL DEF HostLinkSpec

-----------------------------------------------------------------------------
(* The buffers of the pools are aligned, lie in the DMA region and share no *)
(* byte, whatever the sizes and the region (DmaBufAllocAligned).            *)
THEOREM BuffersAreDisjoint == HostLinkSpec => []SlotsDisjoint
<1>1. StartupInv => SlotsDisjoint
  BY DEF StartupInv, PoolsCut, WellCut, Inside, Before, SlotsDisjoint
<1> QED
  BY <1>1, StartupInvariant, PTL

(* The threads start only when every part of start-up has succeeded (main,  *)
(* init_vfio, init_devmem, InitDmaBufferPool).                              *)
THEOREM ThreadsStartReady == HostLinkSpec => []StartedReady
<1>1. StartupInv => StartedReady
  <2> SUFFICES ASSUME StartupInv, step = "started"
               PROVE  StartedReady
    BY DEF StartedReady
  <2>1. Len(slots) = 2 * Slots
    BY DEF StartupInv, ThreadsStart, PoolsComplete
  <2>2. slots # <<>>
    BY <2>1, StartupAssumption, SMT
  <2>3. \A i \in 1..(2 * Slots) : slots[i].size = (IF i <= Slots THEN SrcSize ELSE DstSize)
    BY <2>1 DEF StartupInv, PoolsCut, WellCut
  <2>4. backend # "sw" => bars = {0, 1} /\ region.base % Alignment = 0
    BY <2>2 DEF StartupInv, DeviceReady, PoolsCut, LaterSteps
  <2>5. backend = "vfio" => bus_master
    BY DEF StartupInv, DeviceReady, LaterSteps
  <2>6. cpu_workers >= 1
    BY DEF StartupInv, ThreadsStart
  <2> QED
    BY <2>1, <2>3, <2>4, <2>5, <2>6 DEF StartedReady
<1> QED
  BY <1>1, StartupInvariant, PTL

(* No way out of start-up leaves a descriptor open other than the device's  *)
(* (the labels of vfio_init, the early returns of DmaBufInit).              *)
THEOREM DescriptorsAreClosed == HostLinkSpec => []NoDescriptorLeft
<1>1. StartupInv => NoDescriptorLeft
  BY SMT DEF StartupInv, OpenDescriptors, OpenAt, Own, NoDescriptorLeft
<1> QED
  BY <1>1, StartupInvariant, PTL


-----------------------------------------------------------------------------
(* The messages *)

RequestIds == 1..MaxPending
RegisterValues == [bar : {0, 1}, data : {0, 1}, posted : BOOLEAN]

ToDevice ==
  [type : {"SYNC", "TERMINATE", "READ"}, val : {0}, ts : Nat]
    \union [type : {"WRITE"}, val : RegisterValues, ts : Nat]
    \union [type : {"READCOMP", "WRITECOMP"}, val : RequestIds, ts : Nat]

ToHost ==
  [type : {"SYNC", "WRITECOMP"}, val : {0}, ts : Nat]
    \union [type : {"READCOMP"}, val : BOOLEAN, ts : Nat]
    \union [type : {"READ", "WRITE"}, val : RequestIds, ts : Nat]

DmaRequests == [type : {"READ", "WRITE"}, id : RequestIds]

(* Both adapters step in a clock edge, one after the other. *)
StepsPaired ==
  /\ stepped \in {{}, {"axi"}, {"axil"}}
  /\ num_adapters_ticked = IF stepped = {} THEN 0 ELSE 1
  /\ pc # "adapters" => stepped = {}

LinkTyped ==
  /\ h2d \in Seq(ToDevice) /\ Len(h2d) <= QueueLen
  /\ d2h \in Seq(ToHost) /\ Len(d2h) <= QueueLen
  /\ simbricks_time \in Nat /\ in_timestamp \in Nat /\ host_time \in 0..EndOfTime
  /\ synchronized \in BOOLEAN /\ pseudo_synchronized \in BOOLEAN /\ exiting \in BOOLEAN
  /\ pc \in {"sync_poll", "poll_h2d", "adapters", "finished", "aborted"}
  /\ StepsPaired
  /\ reg_reads \in Nat /\ reg_writes \in Seq(RegisterValues)
  /\ dma_reads \in SUBSET RequestIds /\ dma_writes \in SUBSET RequestIds
  /\ to_commit \in Nat /\ to_read \in Nat /\ completed \in Nat
  /\ to_write \in {"none", "todo", "sent"}
  /\ driver \in {"off", "running", "reading", "done", "terminated"}
  /\ submitted \in Nat /\ fetched \in Nat
  /\ host_dma \in SUBSET DmaRequests

LEMMA LinkConstants ==
  /\ ClockPeriod \in Nat \ {0} /\ LinkLatency \in Nat \ {0} /\ SyncInterval \in Nat \ {0}
  /\ QueueLen \in Nat \ {0} /\ MaxPending \in Nat \ {0} /\ EndOfTime \in Nat \ {0}
  /\ Jobs \in Nat /\ ReadsPerJob \in Nat
BY SimbricksAssumption

-----------------------------------------------------------------------------
(* Sending *)

(* d2h_alloc and D2HOutSend: one message ... *)
LEMMA SendOne ==
  ASSUME NEW T, NEW q \in Seq(T), NEW a \in T
  PROVE  /\ q \o <<a>> = Append(q, a)
         /\ q \o <<a>> \in Seq(T)
         /\ Len(q \o <<a>>) = Len(q) + 1
         /\ \A S : Count(q \o <<a>>, S) = Count(q, S) + One(a \in S)
<1>1. q \o <<a>> = Append(q, a) /\ Append(q, a) \in Seq(T) /\ Len(Append(q, a)) = Len(q) + 1
  OBVIOUS
<1>2. \A S : Count(Append(q, a), S) = Count(q, S) + One(a \in S)
  BY CountAppend
<1>3. QED
  BY <1>1, <1>2

(* ... or what the two channels of an adapter have to send. *)
Sent(r, a, w, b) == (IF r THEN <<a>> ELSE <<>>) \o (IF w THEN <<b>> ELSE <<>>)

SentOn(queue, r, a, w, b) ==
  \A S : Count(queue \o Sent(r, a, w, b), S) =
           Count(queue, S) + One(r /\ a \in S) + One(w /\ b \in S)

LEMMA SendTwo ==
  ASSUME NEW T, NEW q \in Seq(T), NEW r \in BOOLEAN, NEW w \in BOOLEAN,
         NEW a \in T, NEW b \in T
  PROVE  /\ q \o Sent(r, a, w, b) \in Seq(T)
         /\ Len(q \o Sent(r, a, w, b)) = Len(q) + Len(Sent(r, a, w, b))
         /\ SentOn(q, r, a, w, b)
<1> DEFINE m == Sent(r, a, w, b)
<1>1. \A S : Count(q, S) \in Nat
  BY CountType
<1>2. CASE ~r /\ ~w
  <2>1. q \o m = q /\ m = <<>> /\ Len(m) = 0
    BY <1>2 DEF Sent
  <2> HIDE DEF m
  <2>2. SentOn(q, r, a, w, b)
    BY <1>1, <1>2, <2>1 DEF One, SentOn, m
  <2>3. QED
    BY <2>1, <2>2 DEF m
<1>3. CASE r /\ ~w
  <2>1. m = <<a>> /\ Len(m) = 1
    BY <1>3 DEF Sent
  <2>2. /\ q \o <<a>> \in Seq(T) /\ Len(q \o <<a>>) = Len(q) + 1
        /\ \A S : Count(q \o <<a>>, S) = Count(q, S) + One(a \in S)
    BY SendOne
  <2> HIDE DEF m
  <2>3. q \o m = q \o <<a>>
    BY <2>1
  <2>4. \A S : Count(q \o m, S) = Count(q, S) + One(r /\ a \in S) + One(w /\ b \in S)
    BY <1>1, <1>3, <2>2, <2>3 DEF One
  <2>5. QED
    BY <2>1, <2>2, <2>3, <2>4 DEF m, SentOn
<1>4. CASE ~r /\ w
  <2>1. m = <<b>> /\ Len(m) = 1
    BY <1>4 DEF Sent
  <2>2. /\ q \o <<b>> \in Seq(T) /\ Len(q \o <<b>>) = Len(q) + 1
        /\ \A S : Count(q \o <<b>>, S) = Count(q, S) + One(b \in S)
    BY SendOne
  <2> HIDE DEF m
  <2>3. q \o m = q \o <<b>>
    BY <2>1
  <2>4. \A S : Count(q \o m, S) = Count(q, S) + One(r /\ a \in S) + One(w /\ b \in S)
    BY <1>1, <1>4, <2>2, <2>3 DEF One
  <2>5. QED
    BY <2>1, <2>2, <2>3, <2>4 DEF m, SentOn
<1>5. CASE r /\ w
  <2>1. m = <<a>> \o <<b>>
    BY <1>5 DEF Sent
  <2> DEFINE p == q \o <<a>>
  <2>2. p \in Seq(T) /\ Len(p) = Len(q) + 1 /\ \A S : Count(p, S) = Count(q, S) + One(a \in S)
    BY <2>1, SendOne
  <2>3. q \o m = p \o <<b>> /\ Len(m) = 2
    <3>1. <<a>> \in Seq(T) /\ <<b>> \in Seq(T) /\ Len(<<a>> \o <<b>>) = 2
      BY <2>1
    <3>2. (q \o <<a>>) \o <<b>> = q \o (<<a>> \o <<b>>)
      BY <3>1, ConcatAssociative
    <3>3. QED
      BY <2>1, <3>1, <3>2
  <2> HIDE DEF p
  <2>4. /\ p \o <<b>> \in Seq(T) /\ Len(p \o <<b>>) = Len(p) + 1
        /\ \A S : Count(p \o <<b>>, S) = Count(p, S) + One(b \in S)
    BY <2>1, <2>2, SendOne
  <2>5. Len(q) \in Nat
    OBVIOUS
  <2>6. Len(q \o m) = Len(q) + Len(m)
    BY <2>2, <2>3, <2>4, <2>5
  <2>7. \A S : Count(q \o m, S) = Count(q, S) + One(r /\ a \in S) + One(w /\ b \in S)
    BY <1>1, <1>5, <2>2, <2>3, <2>4 DEF One
  <2>8. QED
    BY <2>3, <2>4, <2>6, <2>7 DEF SentOn
<1>6. QED
  BY <1>2, <1>3, <1>4, <1>5

(* What poll_h2d takes off a queue. *)
LEMMA ReceiveOne ==
  ASSUME NEW T, NEW q \in Seq(T), q # <<>>
  PROVE  /\ Head(q) \in T
         /\ Tail(q) \in Seq(T)
         /\ Len(Tail(q)) = Len(q) - 1
         /\ \A S : Count(Tail(q), S) = Count(q, S) - One(Head(q) \in S)
         /\ \A S : Head(q) \in S => Count(q, S) > 0
<1>1. /\ Head(q) \in T /\ Tail(q) \in Seq(T) /\ Len(Tail(q)) = Len(q) - 1
      /\ Len(q) \in Nat /\ 1 \in 1..Len(q) /\ Head(q) = q[1]
  OBVIOUS
<1>2. \A S : Count(Tail(q), S) = Count(q, S) - One(Head(q) \in S)
  BY CountTail
<1>3. ASSUME NEW S, Head(q) \in S
      PROVE  Count(q, S) > 0
  <2>1. Count(q, S) = 0 <=> \A k \in 1..Len(q) : q[k] \notin S
    BY CountNone
  <2>2. Count(q, S) # 0 /\ Count(q, S) \in Nat
    BY <1>1, <1>3, <2>1, CountType
  <2>3. QED
    BY <2>2
<1>4. QED
  BY <1>1, <1>2, <1>3

(* std::find_if over the identifiers finds one that is free. *)
LEMMA FreeIdIsFree ==
  ASSUME LinkTyped, NEW pending \in SUBSET RequestIds, Cardinality(pending) < MaxPending
  PROVE  FreeId(pending) \in RequestIds \ pending
<1>1. \E id \in 1..MaxPending : id \notin pending
  <2> SUFFICES ASSUME 1..MaxPending \subseteq pending
               PROVE  FALSE
    OBVIOUS
  <2>1. pending = 1..MaxPending
    BY DEF RequestIds
  <2>2. Cardinality(1..MaxPending) = MaxPending
    BY LinkConstants, FS_Interval
  <2>3. QED
    BY <2>1, <2>2, LinkConstants
<1>2. QED
  BY <1>1 DEF FreeId, RequestIds
-----------------------------------------------------------------------------
(* Types *)

LEMMA MessageFields ==
  /\ \A m \in ToDevice :
       /\ m.ts \in Nat
       /\ m.type \in {"SYNC", "TERMINATE", "READ", "WRITE", "READCOMP", "WRITECOMP"}
       /\ m.type = "WRITE" => m.val \in RegisterValues /\ m.val.bar \in {0, 1}
       /\ m.type \in {"READCOMP", "WRITECOMP"} => m.val \in RequestIds
  /\ \A m \in ToHost :
       /\ m.ts \in Nat
       /\ m.type \in {"SYNC", "WRITECOMP", "READCOMP", "READ", "WRITE"}
       /\ m.type = "READCOMP" => m.val \in BOOLEAN
       /\ m.type \in {"READ", "WRITE"} => m.val \in RequestIds
BY DEF ToDevice, ToHost, RegisterValues

(* What the host may send. *)
LEMMA MessagesToDevice ==
  ASSUME NEW t \in Nat
  PROVE  /\ \A type \in {"SYNC", "TERMINATE", "READ"} : Message(type, 0, t) \in ToDevice
         /\ \A bar, data \in {0, 1}, posted \in BOOLEAN :
              Message("WRITE", [bar |-> bar, data |-> data, posted |-> posted], t) \in ToDevice
         /\ \A type \in {"READCOMP", "WRITECOMP"}, id \in RequestIds :
              Message(type, id, t) \in ToDevice
<1>1. t + LinkLatency \in Nat
  BY LinkConstants
<1>2. QED
  BY <1>1 DEF Message, ToDevice, RegisterValues

(* What the adapter may send. *)
LEMMA MessagesToHost ==
  ASSUME NEW t \in Nat
  PROVE  /\ \A type \in {"SYNC", "WRITECOMP"} : Message(type, 0, t) \in ToHost
         /\ \A some \in BOOLEAN : Message("READCOMP", some, t) \in ToHost
         /\ \A type \in {"READ", "WRITE"}, id \in RequestIds :
              Message(type, id, t) \in ToHost
<1>1. t + LinkLatency \in Nat
  BY LinkConstants
<1>2. QED
  BY <1>1 DEF Message, ToHost

LEMMA LinkTypedInit ==
  ASSUME LinkInit
  PROVE  LinkTyped
<1>1. /\ \A S : <<>> \in Seq(S)
      /\ Len(<<>>) <= QueueLen /\ 0 \in 0..EndOfTime
  BY LinkConstants
<1>2. StepsPaired
  BY DEF LinkInit, StepsPaired
<1>3. QED
  BY <1>1, <1>2 DEF LinkInit, LinkTyped

LEMMA TypedSyncPoll ==
  ASSUME LinkTyped, SyncPoll
  PROVE  LinkTyped'
<1>1. /\ d2h' \in Seq(ToHost) /\ Len(d2h') <= QueueLen /\ simbricks_time' \in Nat
  <2>1. simbricks_time' \in Nat
    BY DEF SyncPoll, LinkTyped
  <2>2. Message("SYNC", 0, simbricks_time') \in ToHost
    BY <2>1, MessagesToHost
  <2>3. \/ d2h' = d2h
        \/ Len(d2h) < QueueLen /\ d2h' = Append(d2h, Message("SYNC", 0, simbricks_time'))
    BY DEF SyncPoll
  <2>4. /\ d2h \in Seq(ToHost) /\ Len(d2h) \in Nat /\ Len(d2h) <= QueueLen
        /\ QueueLen \in Nat
    BY LinkConstants DEF LinkTyped
  <2>5. QED
    BY <2>1, <2>2, <2>3, <2>4
<1>2. pc' = "poll_h2d" /\ stepped' = {} /\ num_adapters_ticked' = 0
  BY DEF SyncPoll, LinkTyped, StepsPaired
<1>3. QED
  BY <1>1, <1>2 DEF SyncPoll, LinkTyped, StepsPaired, acceleratorVars, hostVars

(* A message comes off h2d. *)
LEMMA TypedArrived ==
  ASSUME LinkTyped, h2d # <<>>
  PROVE  /\ Head(h2d) \in ToDevice /\ Head(h2d).ts \in Nat
         /\ Tail(h2d) \in Seq(ToDevice) /\ Len(Tail(h2d)) <= QueueLen
<1>1. h2d \in Seq(ToDevice) /\ Len(h2d) \in Nat /\ Len(h2d) <= QueueLen
  BY DEF LinkTyped
<1>2. /\ Head(h2d) \in ToDevice /\ Tail(h2d) \in Seq(ToDevice)
      /\ Len(Tail(h2d)) = Len(h2d) - 1
  BY <1>1, ReceiveOne
<1>3. QED
  BY <1>1, <1>2, MessageFields, LinkConstants

LEMMA TypedPoll ==
  ASSUME LinkTyped,
         \/ PollNothing \/ PollThrows
         \/ H2DRead \/ H2DWrite \/ H2DReadcomp \/ H2DWritecomp \/ H2DSync \/ H2DTerminate
  PROVE  LinkTyped'
<1>1. pc = "poll_h2d"
  BY DEF PollNothing, PollThrows, H2DRead, H2DWrite, H2DReadcomp, H2DWritecomp, H2DSync,
     H2DTerminate, Arrived
<1>2. /\ h2d' \in Seq(ToDevice) /\ Len(h2d') <= QueueLen /\ in_timestamp' \in Nat
  <2>1. \/ h2d' = h2d /\ in_timestamp' = in_timestamp
        \/ h2d # <<>> /\ h2d' \in {h2d, Tail(h2d)} /\ in_timestamp' = Head(h2d).ts
    BY DEF PollNothing, PollThrows, H2DRead, H2DWrite, H2DReadcomp, H2DWritecomp, H2DSync,
       H2DTerminate, Arrived
  <2>2. QED
    BY <2>1, TypedArrived DEF LinkTyped
<1>3. /\ pc' \in {"sync_poll", "poll_h2d", "adapters", "aborted"}
      /\ stepped' = {} /\ num_adapters_ticked' = 0
      /\ UNCHANGED <<simbricks_time, synchronized, to_commit, to_read, to_write, completed,
                     host_time, driver, submitted, fetched, host_dma>>
  BY <1>1 DEF PollNothing, PollThrows, H2DRead, H2DWrite, H2DReadcomp, H2DWritecomp,
     H2DSync, H2DTerminate, Arrived, PollEnds, LinkTyped, StepsPaired, acceleratorVars,
     hostVars
<1>4. exiting' \in BOOLEAN /\ pseudo_synchronized' \in BOOLEAN
  BY DEF PollNothing, PollThrows, H2DRead, H2DWrite, H2DReadcomp, H2DWritecomp,
     H2DSync, H2DTerminate, LinkTyped
<1>5. /\ dma_reads' \in SUBSET RequestIds /\ dma_writes' \in SUBSET RequestIds
      /\ reg_reads' \in Nat
  BY DEF PollNothing, PollThrows, H2DRead, H2DWrite, H2DReadcomp, H2DWritecomp,
     H2DSync, H2DTerminate, LinkTyped
<1>6. /\ reg_writes' \in Seq(RegisterValues)
      /\ d2h' \in Seq(ToHost) /\ Len(d2h') <= QueueLen
  <2>1. CASE H2DWrite
    <3>1. h2d # <<>> /\ Head(h2d).type = "WRITE"
      BY <2>1 DEF H2DWrite, Arrived
    <3>2. Head(h2d).val \in RegisterValues
      BY <3>1, TypedArrived, MessageFields
    <3>3. reg_writes' \in Seq(RegisterValues)
      BY <2>1, <3>2 DEF H2DWrite, LinkTyped
    <3>4. Message("WRITECOMP", 0, simbricks_time) \in ToHost
      BY MessagesToHost DEF LinkTyped
    <3>5. \/ d2h' = d2h \o <<>>
          \/ /\ d2h' = d2h \o <<Message("WRITECOMP", 0, simbricks_time)>>
             /\ Len(d2h) + Len(<<Message("WRITECOMP", 0, simbricks_time)>>) <= QueueLen
      BY <2>1 DEF H2DWrite, D2HOutSend
    <3>6. d2h \in Seq(ToHost) /\ Len(d2h) <= QueueLen
      BY DEF LinkTyped
    <3>7. QED
      BY <3>3, <3>4, <3>5, <3>6, SendOne
  <2>2. CASE ~H2DWrite
    BY <2>2 DEF PollNothing, PollThrows, H2DRead, H2DReadcomp, H2DWritecomp, H2DSync,
       H2DTerminate, LinkTyped
  <2>3. QED
    BY <2>1, <2>2
<1>7. QED
  BY <1>2, <1>3, <1>4, <1>5, <1>6 DEF LinkTyped, StepsPaired
LEMMA TypedTick ==
  ASSUME LinkTyped, NEW adapter \in {"axi", "axil"}, Tick(adapter)
  PROVE  /\ StepsPaired'
         /\ simbricks_time' \in Nat
         /\ pc' \in {"sync_poll", "adapters", "finished"}
         /\ UNCHANGED <<h2d, in_timestamp, synchronized, pseudo_synchronized, exiting>>
<1>1. \/ stepped = {} /\ Ticked = 1
      \/ stepped \in {{"axi"}, {"axil"}} /\ Ticked = 0
  BY DEF LinkTyped, StepsPaired, Ticked
<1>2. simbricks_time + ClockPeriod \in Nat /\ simbricks_time \in Nat
  BY LinkConstants DEF LinkTyped
<1>3. CASE stepped = {} /\ Ticked = 1
  <2>1. stepped' = {adapter} /\ num_adapters_ticked' = 1 /\ pc' = "adapters"
    BY <1>3 DEF Tick
  <2>2. QED
    BY <1>2, <2>1 DEF Tick, StepsPaired
<1>4. CASE stepped \in {{"axi"}, {"axil"}} /\ Ticked = 0
  <2>1. stepped' = {} /\ num_adapters_ticked' = 0 /\ pc' \in {"finished", "sync_poll"}
    BY <1>4 DEF Tick
  <2>2. QED
    BY <1>2, <2>1 DEF Tick, StepsPaired
<1>5. QED
  BY <1>1, <1>3, <1>4

(* What s_axi_adapter_step sends, and what it notes as pending. *)
AxiSent(read, write, r, w) ==
  /\ read => r \notin dma_reads
  /\ write => w \notin dma_writes /\ to_write = "todo"
  /\ dma_reads' = IF read THEN dma_reads \union {r} ELSE dma_reads
  /\ dma_writes' = IF write THEN dma_writes \union {w} ELSE dma_writes
  /\ to_write' = IF write THEN "sent" ELSE to_write
  /\ to_read' \in Nat
  /\ d2h' \in Seq(ToHost) /\ Len(d2h') <= QueueLen
  /\ \A S : Count(d2h', S) =
              Count(d2h, S) + One(read /\ Message("READ", r, simbricks_time) \in S)
                            + One(write /\ Message("WRITE", w, simbricks_time) \in S)

LEMMA AxiSends ==
  ASSUME LinkTyped, AxiAdapterStep
  PROVE  \E read, write \in BOOLEAN, r, w \in RequestIds : AxiSent(read, write, r, w)
<1>1. PICK read \in BOOLEAN, write \in BOOLEAN :
        /\ read => MayRead
        /\ write => MayWrite
        /\ D2HOutSend(
             (IF read THEN <<Message("READ", FreeId(dma_reads), simbricks_time)>> ELSE <<>>)
             \o (IF write THEN <<Message("WRITE", FreeId(dma_writes), simbricks_time)>>
                 ELSE <<>>))
        /\ dma_reads' = IF read THEN dma_reads \union {FreeId(dma_reads)} ELSE dma_reads
        /\ dma_writes' = IF write THEN dma_writes \union {FreeId(dma_writes)} ELSE dma_writes
        /\ to_read' = IF read THEN to_read - 1 ELSE to_read
        /\ to_write' = IF write THEN "sent" ELSE to_write
  BY DEF AxiAdapterStep
<1>2. read => FreeId(dma_reads) \in RequestIds \ dma_reads
  BY <1>1, FreeIdIsFree DEF MayRead, LinkTyped
<1>3. write => FreeId(dma_writes) \in RequestIds \ dma_writes /\ to_write = "todo"
  BY <1>1, FreeIdIsFree DEF MayWrite, LinkTyped
<1>4. PICK r \in RequestIds : read => r = FreeId(dma_reads)
  <2>1. 1 \in RequestIds
    BY LinkConstants DEF RequestIds
  <2>2. QED
    BY <1>2, <2>1
<1>5. PICK w \in RequestIds : write => w = FreeId(dma_writes)
  <2>1. 1 \in RequestIds
    BY LinkConstants DEF RequestIds
  <2>2. QED
    BY <1>3, <2>1
<1>6. PICK a, b : a = Message("READ", r, simbricks_time) /\ b = Message("WRITE", w, simbricks_time)
  OBVIOUS
<1>7. a \in ToHost /\ b \in ToHost
  BY <1>6, MessagesToHost DEF LinkTyped
<1> DEFINE m == Sent(read, a, write, b)
<1>9. D2HOutSend(m)
  <2>1. /\ read => a = Message("READ", FreeId(dma_reads), simbricks_time)
        /\ write => b = Message("WRITE", FreeId(dma_writes), simbricks_time)
    BY <1>4, <1>5, <1>6
  <2>2. m = (IF read THEN <<Message("READ", FreeId(dma_reads), simbricks_time)>> ELSE <<>>)
            \o (IF write THEN <<Message("WRITE", FreeId(dma_writes), simbricks_time)>>
                ELSE <<>>)
    BY <2>1 DEF Sent
  <2>3. QED
    BY <1>1, <2>2
<1>10. d2h' = d2h \o m /\ Len(d2h) + Len(m) <= QueueLen /\ d2h \in Seq(ToHost)
  BY <1>9 DEF D2HOutSend, LinkTyped
<1>11. /\ d2h \o m \in Seq(ToHost) /\ Len(d2h \o m) = Len(d2h) + Len(m)
       /\ SentOn(d2h, read, a, write, b)
  BY <1>7, <1>10, SendTwo
<1>12. to_read' \in Nat
  BY <1>1, LinkConstants DEF MayRead, LinkTyped
<1>13. /\ dma_reads' = IF read THEN dma_reads \union {r} ELSE dma_reads
       /\ dma_writes' = IF write THEN dma_writes \union {w} ELSE dma_writes
  BY <1>1, <1>4, <1>5
<1>14. /\ read => r \notin dma_reads
       /\ write => w \notin dma_writes /\ to_write = "todo"
  BY <1>2, <1>3, <1>4, <1>5
<1>15. /\ d2h' \in Seq(ToHost) /\ Len(d2h') <= QueueLen
       /\ \A S : Count(d2h', S) =
                   Count(d2h, S) + One(read /\ Message("READ", r, simbricks_time) \in S)
                                 + One(write /\ Message("WRITE", w, simbricks_time) \in S)
  BY <1>6, <1>10, <1>11 DEF SentOn
<1>16. to_write' = IF write THEN "sent" ELSE to_write
  BY <1>1
<1>17. AxiSent(read, write, r, w)
  BY <1>12, <1>13, <1>14, <1>15, <1>16 DEF AxiSent
<1>18. QED
  BY <1>17

(* What m_axil_adapter_step sends, and what is left of the register         *)
(* operations.                                                              *)
AxilSent(read, write, answered) ==
  /\ read => reg_reads > 0
  /\ write => reg_writes # <<>>
  /\ reg_reads' = reg_reads - One(read) /\ reg_reads' \in Nat
  /\ completed' = completed - One(read /\ completed > 0) /\ completed' \in Nat
  /\ to_commit' = to_commit + One(write) /\ to_commit' \in Nat
  /\ reg_writes' \in Seq(RegisterValues)
  /\ Len(reg_writes') = Len(reg_writes) - One(write)
  /\ d2h' \in Seq(ToHost) /\ Len(d2h') <= QueueLen
  /\ \A S : Count(d2h', S) =
              Count(d2h, S)
                + One(read /\ Message("READCOMP", completed > 0, simbricks_time) \in S)
                + One(answered /\ Message("WRITECOMP", 0, simbricks_time) \in S)

LEMMA AxilSends ==
  ASSUME LinkTyped, AxilAdapterStep
  PROVE  \E read, write, answered \in BOOLEAN : AxilSent(read, write, answered)
<1>1. PICK read \in BOOLEAN, write \in BOOLEAN :
        /\ read => reg_reads > 0
        /\ write => reg_writes # <<>>
        /\ D2HOutSend(
             (IF read THEN <<Message("READCOMP", completed > 0, simbricks_time)>> ELSE <<>>)
             \o (IF write /\ ~Head(reg_writes).posted
                 THEN <<Message("WRITECOMP", 0, simbricks_time)>> ELSE <<>>))
        /\ reg_reads' = IF read THEN reg_reads - 1 ELSE reg_reads
        /\ completed' = IF read /\ completed > 0 THEN completed - 1 ELSE completed
        /\ reg_writes' = IF write THEN Tail(reg_writes) ELSE reg_writes
        /\ to_commit' = IF write THEN to_commit + 1 ELSE to_commit
  BY DEF AxilAdapterStep
<1>2. PICK answered \in BOOLEAN : answered <=> write /\ ~Head(reg_writes).posted
  OBVIOUS
<1>3. PICK a, b : /\ a = Message("READCOMP", completed > 0, simbricks_time)
                  /\ b = Message("WRITECOMP", 0, simbricks_time)
  OBVIOUS
<1>4. a \in ToHost /\ b \in ToHost
  <2>1. (completed > 0) \in BOOLEAN
    OBVIOUS
  <2>2. QED
    BY <1>3, <2>1, MessagesToHost DEF LinkTyped
<1> DEFINE m == Sent(read, a, answered, b)
<1>6. D2HOutSend(m)
  BY <1>1, <1>2, <1>3 DEF Sent
<1>7. d2h' = d2h \o m /\ Len(d2h) + Len(m) <= QueueLen /\ d2h \in Seq(ToHost)
  BY <1>6 DEF D2HOutSend, LinkTyped
<1>8. /\ d2h \o m \in Seq(ToHost) /\ Len(d2h \o m) = Len(d2h) + Len(m)
      /\ SentOn(d2h, read, a, answered, b)
  BY <1>4, <1>7, SendTwo
<1>9. /\ d2h' \in Seq(ToHost) /\ Len(d2h') <= QueueLen
      /\ \A S : Count(d2h', S) =
                  Count(d2h, S)
                    + One(read /\ Message("READCOMP", completed > 0, simbricks_time) \in S)
                    + One(answered /\ Message("WRITECOMP", 0, simbricks_time) \in S)
  BY <1>3, <1>7, <1>8 DEF SentOn
<1>10. /\ reg_reads \in Nat /\ completed \in Nat /\ to_commit \in Nat
       /\ reg_writes \in Seq(RegisterValues) /\ Len(reg_writes) \in Nat
  BY DEF LinkTyped
<1>11. /\ reg_writes' \in Seq(RegisterValues)
       /\ Len(reg_writes') = Len(reg_writes) - One(write)
  BY <1>1, <1>10, ReceiveOne DEF One
<1>12. /\ reg_reads' = reg_reads - One(read) /\ reg_reads' \in Nat
       /\ completed' = completed - One(read /\ completed > 0) /\ completed' \in Nat
       /\ to_commit' = to_commit + One(write) /\ to_commit' \in Nat
  BY <1>1, <1>10 DEF One
<1>13. AxilSent(read, write, answered)
  BY <1>1, <1>9, <1>11, <1>12 DEF AxilSent
<1>14. QED
  BY <1>13
LEMMA TypedAdapters ==
  ASSUME LinkTyped, AxiAdapterStep \/ AxilAdapterStep
  PROVE  LinkTyped'
<1>1. CASE AxiAdapterStep
  <2>1. PICK read \in BOOLEAN, write \in BOOLEAN, r \in RequestIds, w \in RequestIds :
          AxiSent(read, write, r, w)
    BY <1>1, AxiSends
  <2>2. Tick("axi") /\ UNCHANGED <<reg_reads, reg_writes, to_commit, completed, hostVars>>
    BY <1>1 DEF AxiAdapterStep
  <2>3. /\ dma_reads' \in SUBSET RequestIds /\ dma_writes' \in SUBSET RequestIds
        /\ to_write' \in {"none", "todo", "sent"} /\ to_read' \in Nat
        /\ d2h' \in Seq(ToHost) /\ Len(d2h') <= QueueLen
    BY <2>1 DEF AxiSent, LinkTyped
  <2>4. QED
    BY <2>2, <2>3, TypedTick DEF LinkTyped, hostVars
<1>2. CASE AxilAdapterStep
  <2>1. PICK read \in BOOLEAN, write \in BOOLEAN, answered \in BOOLEAN :
          AxilSent(read, write, answered)
    BY <1>2, AxilSends
  <2>2. Tick("axil") /\ UNCHANGED <<dma_reads, dma_writes, to_read, to_write, hostVars>>
    BY <1>2 DEF AxilAdapterStep
  <2>3. QED
    BY <2>1, <2>2, TypedTick DEF LinkTyped, hostVars, AxilSent
<1>3. QED
  BY <1>1, <1>2

LEMMA TypedAccelerator ==
  ASSUME LinkTyped, AcceleratorNext
  PROVE  LinkTyped'
<1>1. /\ to_commit' \in Nat /\ to_read' \in Nat /\ completed' \in Nat
      /\ to_write' \in {"none", "todo", "sent"}
  BY LinkConstants DEF AcceleratorNext, StartDecode, PushCompletion, LinkTyped
<1>2. UNCHANGED <<h2d, d2h, adapterVars, hostVars>>
  BY DEF AcceleratorNext, StartDecode, PushCompletion
<1>3. QED
  BY <1>1, <1>2 DEF LinkTyped, StepsPaired, adapterVars, hostVars

(* What the calls of the driver and of its host send, and what they note. *)
HostCall ==
  \/ EnableSimulation \/ SubmitDescriptor \/ ReadCompletion \/ DisableSimulation
  \/ AnswerDma \/ HostSync \/ HostTerminate

IsWrite(m, bar, data) == m.type = "WRITE" /\ m.val.bar = bar /\ m.val.data = data

SwitchedOn(m) ==
  /\ IsWrite(m, 1, 1)
  /\ driver = "off" /\ driver' = "running"
  /\ UNCHANGED <<submitted, fetched, host_dma>>
Submitted(m) ==
  /\ IsWrite(m, 0, 1)
  /\ driver = "running" /\ submitted' = submitted + 1
  /\ UNCHANGED <<driver, fetched, host_dma>>
ReadSent(m) ==
  /\ m.type = "READ"
  /\ driver = "running" /\ driver' = "reading"
  /\ UNCHANGED <<submitted, fetched, host_dma>>
SwitchedOff(m) ==
  /\ IsWrite(m, 1, 0)
  /\ driver = "running" /\ driver' = "done"
  /\ UNCHANGED <<submitted, fetched, host_dma>>
Answered(m) ==
  /\ \E r \in host_dma : /\ m.type = Answer(r.type) /\ m.val = r.id
                         /\ host_dma' = host_dma \ {r}
  /\ UNCHANGED <<driver, submitted, fetched>>
SyncSent(m) == m.type = "SYNC" /\ UNCHANGED <<driver, submitted, fetched, host_dma>>
Terminated(m) ==
  /\ m.type = "TERMINATE"
  /\ driver # "reading" /\ driver' = "terminated"
  /\ UNCHANGED <<submitted, fetched, host_dma>>

HostSent(m) ==
  /\ m.ts = host_time + LinkLatency
  /\ Len(h2d) < QueueLen
  /\ h2d' = h2d \o <<m>>
  /\ driver # "terminated"
  /\ UNCHANGED <<d2h, adapterVars, acceleratorVars, host_time>>
  /\ \/ SwitchedOn(m) \/ Submitted(m) \/ ReadSent(m) \/ SwitchedOff(m)
     \/ Answered(m) \/ SyncSent(m) \/ Terminated(m)

LEMMA HostSends ==
  ASSUME LinkTyped, HostCall
  PROVE  \E m \in ToDevice : HostSent(m)
<1>1. host_time \in Nat /\ host_time \in 0..EndOfTime
  BY LinkConstants DEF LinkTyped
<1>2. ASSUME NEW bar \in {0, 1}, NEW data \in {0, 1}, NEW posted \in BOOLEAN,
             HostSend(RegisterWrite(bar, data, posted))
      PROVE  \E m \in ToDevice :
               /\ IsWrite(m, bar, data)
               /\ m.ts = host_time + LinkLatency
               /\ HostSend(<<m>>)
  <2> DEFINE m == Message("WRITE", [bar |-> bar, data |-> data, posted |-> posted], host_time)
  <2>1. m \in ToDevice
    BY <1>1, MessagesToDevice
  <2>2. IsWrite(m, bar, data) /\ m.ts = host_time + LinkLatency
    BY DEF IsWrite, Message
  <2>3. HostSend(<<m>>)
    BY <1>2 DEF RegisterWrite
  <2>4. QED
    BY <2>1, <2>2, <2>3
<1>3. ASSUME NEW type \in {"SYNC", "TERMINATE", "READ"},
             HostSend(<<Message(type, 0, host_time)>>)
      PROVE  \E m \in ToDevice :
               m.type = type /\ m.ts = host_time + LinkLatency /\ HostSend(<<m>>)
  <2>1. Message(type, 0, host_time) \in ToDevice
    BY <1>1, MessagesToDevice
  <2>2. QED
    BY <1>3, <2>1 DEF Message
<1>4. CASE EnableSimulation
  <2>1. PICK posted \in BOOLEAN : HostSend(RegisterWrite(1, 1, posted))
    BY <1>4 DEF EnableSimulation
  <2>2. PICK m \in ToDevice : IsWrite(m, 1, 1) /\ m.ts = host_time + LinkLatency /\ HostSend(<<m>>)
    BY <1>2, <2>1
  <2>3. SwitchedOn(m)
    BY <1>4, <2>2 DEF EnableSimulation, SwitchedOn
  <2>4. HostSent(m)
    BY <2>2, <2>3 DEF HostSend, HostSent
  <2>5. QED
    BY <2>4
<1>5. CASE SubmitDescriptor
  <2>1. PICK posted \in BOOLEAN : HostSend(RegisterWrite(0, 1, posted))
    BY <1>5 DEF SubmitDescriptor
  <2>2. PICK m \in ToDevice : IsWrite(m, 0, 1) /\ m.ts = host_time + LinkLatency /\ HostSend(<<m>>)
    BY <1>2, <2>1
  <2>3. Submitted(m)
    BY <1>5, <2>2 DEF SubmitDescriptor, Submitted
  <2>4. HostSent(m)
    BY <2>2, <2>3 DEF HostSend, HostSent
  <2>5. QED
    BY <2>4
<1>6. CASE DisableSimulation
  <2>1. PICK posted \in BOOLEAN : HostSend(RegisterWrite(1, 0, posted))
    BY <1>6 DEF DisableSimulation
  <2>2. PICK m \in ToDevice : IsWrite(m, 1, 0) /\ m.ts = host_time + LinkLatency /\ HostSend(<<m>>)
    BY <1>2, <2>1
  <2>3. SwitchedOff(m)
    BY <1>6, <2>2 DEF DisableSimulation, SwitchedOff
  <2>4. HostSent(m)
    BY <2>2, <2>3 DEF HostSend, HostSent
  <2>5. QED
    BY <2>4
<1>7. CASE ReadCompletion
  <2>1. PICK m \in ToDevice : m.type = "READ" /\ m.ts = host_time + LinkLatency /\ HostSend(<<m>>)
    BY <1>3, <1>7 DEF ReadCompletion
  <2>2. ReadSent(m)
    BY <1>7, <2>1 DEF ReadCompletion, ReadSent
  <2>3. HostSent(m)
    BY <2>1, <2>2 DEF HostSend, HostSent
  <2>4. QED
    BY <2>3
<1>8. CASE HostSync
  <2>1. PICK m \in ToDevice : m.type = "SYNC" /\ m.ts = host_time + LinkLatency /\ HostSend(<<m>>)
    BY <1>3, <1>8 DEF HostSync
  <2>2. SyncSent(m)
    BY <1>8, <2>1 DEF HostSync, SyncSent
  <2>3. HostSent(m)
    BY <2>1, <2>2 DEF HostSend, HostSent
  <2>4. QED
    BY <2>3
<1>9. CASE HostTerminate
  <2>1. PICK m \in ToDevice : /\ m.type = "TERMINATE" /\ m.ts = host_time + LinkLatency
                              /\ HostSend(<<m>>)
    BY <1>3, <1>9 DEF HostTerminate
  <2>2. Terminated(m)
    BY <1>9, <2>1 DEF HostTerminate, Terminated
  <2>3. HostSent(m)
    BY <2>1, <2>2 DEF HostSend, HostSent
  <2>4. QED
    BY <2>3
<1>10. CASE AnswerDma
  <2>1. PICK r \in host_dma :
          /\ HostSend(<<Message(IF r.type = "READ" THEN "READCOMP" ELSE "WRITECOMP", r.id, host_time)>>)
          /\ host_dma' = host_dma \ {r}
          /\ UNCHANGED <<driver, submitted, fetched>>
    BY <1>10 DEF AnswerDma
  <2> DEFINE m == Message(Answer(r.type), r.id, host_time)
  <2>2. r.id \in RequestIds
    BY DEF LinkTyped, DmaRequests
  <2>3. m \in ToDevice
    BY <1>1, <2>2, MessagesToDevice DEF Answer
  <2>4. m.type = Answer(r.type) /\ m.val = r.id /\ m.ts = host_time + LinkLatency
    BY DEF Message
  <2>5. HostSend(<<m>>)
    BY <2>1 DEF Answer
  <2> HIDE DEF m
  <2>6. Answered(m)
    BY <2>1, <2>4 DEF Answered
  <2>7. HostSent(m)
    BY <2>4, <2>5, <2>6 DEF HostSend, HostSent
  <2>8. QED
    BY <2>3, <2>7
<1>11. QED
  BY <1>4, <1>5, <1>6, <1>7, <1>8, <1>9, <1>10 DEF HostCall

LEMMA TypedHost ==
  ASSUME LinkTyped, HostNext
  PROVE  LinkTyped'
<1>1. CASE HostCall
  <2>1. PICK m \in ToDevice : HostSent(m)
    BY <1>1, HostSends
  <2>2. h2d \in Seq(ToDevice) /\ Len(h2d) \in Nat
    BY DEF LinkTyped
  <2>3. h2d' \in Seq(ToDevice) /\ Len(h2d') <= QueueLen
    BY <2>1, <2>2, SendOne, LinkConstants DEF HostSent
  <2>4. /\ driver' \in {"off", "running", "reading", "done", "terminated"}
        /\ submitted' \in Nat /\ fetched' \in Nat /\ host_dma' \in SUBSET DmaRequests
    BY <2>1 DEF HostSent, SwitchedOn, Submitted, ReadSent, SwitchedOff, Answered, SyncSent,
       Terminated, LinkTyped
  <2>5. UNCHANGED <<d2h, adapterVars, acceleratorVars, host_time>>
    BY <2>1 DEF HostSent
  <2>6. QED
    BY <2>3, <2>4, <2>5 DEF LinkTyped, StepsPaired, adapterVars, acceleratorVars
<1>2. CASE HostReceive
  <2> DEFINE m == Head(d2h)
  <2>1. /\ d2h # <<>> /\ d2h' = Tail(d2h)
        /\ host_dma' = IF m.type \in {"READ", "WRITE"}
                       THEN host_dma \union {[type |-> m.type, id |-> m.val]} ELSE host_dma
        /\ driver' = IF m.type = "READCOMP" THEN "running" ELSE driver
        /\ fetched' = IF m.type = "READCOMP" /\ m.val THEN fetched + 1 ELSE fetched
        /\ UNCHANGED <<h2d, adapterVars, acceleratorVars, host_time, submitted>>
    BY <1>2 DEF HostReceive
  <2>2. d2h \in Seq(ToHost) /\ Len(d2h) <= QueueLen /\ Len(d2h) \in Nat
    BY DEF LinkTyped
  <2>3. m \in ToHost /\ d2h' \in Seq(ToHost) /\ Len(d2h') = Len(d2h) - 1
    BY <2>1, <2>2, ReceiveOne
  <2> HIDE DEF m
  <2>4. Len(d2h') <= QueueLen
    BY <2>2, <2>3, LinkConstants
  <2>5. host_dma' \in SUBSET DmaRequests
    <3>1. m.type \in {"READ", "WRITE"} => [type |-> m.type, id |-> m.val] \in DmaRequests
      BY <2>3, MessageFields DEF DmaRequests
    <3>2. QED
      BY <2>1, <3>1 DEF LinkTyped
  <2>6. /\ driver' \in {"off", "running", "reading", "done", "terminated"}
        /\ fetched' \in Nat
    BY <2>1 DEF LinkTyped
  <2>7. QED
    BY <2>1, <2>3, <2>4, <2>5, <2>6 DEF LinkTyped, StepsPaired, adapterVars, acceleratorVars
<1>3. CASE HostAdvance
  <2>1. host_time' \in 0..EndOfTime
    BY <1>3, LinkConstants DEF HostAdvance, LinkTyped
  <2>2. UNCHANGED <<h2d, d2h, adapterVars, acceleratorVars, driver, submitted, fetched, host_dma>>
    BY <1>3 DEF HostAdvance
  <2>3. QED
    BY <2>1, <2>2 DEF LinkTyped, StepsPaired, adapterVars, acceleratorVars
<1>4. QED
  BY <1>1, <1>2, <1>3 DEF HostNext, HostCall

LEMMA LinkTypedNext ==
  ASSUME LinkTyped, LinkNext
  PROVE  LinkTyped'
BY TypedSyncPoll, TypedPoll, TypedAdapters, TypedAccelerator, TypedHost DEF LinkNext,
   AdapterNext
-----------------------------------------------------------------------------
(* What a step does to the queues and the counters *)

(* poll_h2d hands message m over. *)
Handled(m) ==
  /\ reg_reads' = reg_reads + One(m.type = "READ")
  /\ Len(reg_writes') = Len(reg_writes) + One(m.type = "WRITE" /\ m.val.bar = 0)
  /\ dma_reads' = IF m.type = "READCOMP" THEN dma_reads \ {m.val} ELSE dma_reads
  /\ dma_writes' = IF m.type = "WRITECOMP" THEN dma_writes \ {m.val} ELSE dma_writes
  /\ pseudo_synchronized' = IF m.type = "WRITE" /\ m.val.bar = 1 THEN m.val.data = 0
                            ELSE pseudo_synchronized
  /\ \E answered \in BOOLEAN : \A S :
       Count(d2h', S) =
         Count(d2h, S) + One(answered /\ Message("WRITECOMP", 0, simbricks_time) \in S)

Polled ==
  /\ h2d # <<>> /\ h2d' = Tail(h2d)
  /\ synchronized => Head(h2d).ts <= simbricks_time
  /\ ~Throws(Head(h2d))
  /\ in_timestamp' = Head(h2d).ts
  /\ Handled(Head(h2d))

PollIdles ==
  UNCHANGED <<h2d, d2h, reg_reads, reg_writes, dma_reads, dma_writes, pseudo_synchronized>>

PollActions ==
  \/ PollNothing \/ PollThrows
  \/ H2DRead \/ H2DWrite \/ H2DReadcomp \/ H2DWritecomp \/ H2DSync \/ H2DTerminate

LEMMA PollHandles ==
  ASSUME LinkTyped, PollActions
  PROVE  /\ UNCHANGED <<synchronized, simbricks_time, acceleratorVars, hostVars>>
         /\ \/ PollNothing /\ PollIdles
            \/ PollThrows /\ PollIdles
            \/ Polled
<1>1. UNCHANGED <<synchronized, simbricks_time, acceleratorVars, hostVars>>
  BY DEF PollActions, PollNothing, PollThrows, H2DRead, H2DWrite, H2DReadcomp,
     H2DWritecomp, H2DSync, H2DTerminate, PollEnds, acceleratorVars, hostVars
<1>2. CASE PollNothing
  BY <1>1, <1>2 DEF PollNothing, PollIdles
<1>3. CASE PollThrows
  BY <1>1, <1>3 DEF PollThrows, PollIdles
<1>4. CASE H2DRead \/ H2DReadcomp \/ H2DWritecomp \/ H2DSync \/ H2DTerminate
  <2> DEFINE m == Head(h2d)
  <2>1. /\ h2d # <<>> /\ h2d' = Tail(h2d)
        /\ m.type \in {"READ", "READCOMP", "WRITECOMP", "SYNC", "TERMINATE"}
        /\ synchronized => m.ts <= simbricks_time
        /\ ~Throws(m)
        /\ in_timestamp' = m.ts
        /\ UNCHANGED <<d2h, pseudo_synchronized, reg_writes>>
    BY <1>4 DEF H2DRead, H2DReadcomp, H2DWritecomp, H2DSync, H2DTerminate, Arrived
  <2>2. /\ reg_reads' = IF m.type = "READ" THEN reg_reads + 1 ELSE reg_reads
        /\ dma_reads' = IF m.type = "READCOMP" THEN dma_reads \ {m.val} ELSE dma_reads
        /\ dma_writes' = IF m.type = "WRITECOMP" THEN dma_writes \ {m.val} ELSE dma_writes
    BY <1>4 DEF H2DRead, H2DReadcomp, H2DWritecomp, H2DSync, H2DTerminate, Arrived
  <2>3. \A S : Count(d2h', S) = Count(d2h, S) + One(FALSE /\ Message("WRITECOMP", 0, simbricks_time) \in S)
    <3>1. \A S : Count(d2h, S) \in Nat
      BY CountType DEF LinkTyped
    <3>2. QED
      BY <2>1, <3>1 DEF One
  <2>4. reg_reads \in Nat /\ Len(reg_writes) \in Nat
    BY DEF LinkTyped
  <2> HIDE DEF m
  <2>5. Handled(m)
    <3>1. reg_reads' = reg_reads + One(m.type = "READ")
      BY <2>2, <2>4 DEF One
    <3>2. Len(reg_writes') = Len(reg_writes) + One(m.type = "WRITE" /\ m.val.bar = 0)
      BY <2>1, <2>4 DEF One
    <3>3. pseudo_synchronized' = IF m.type = "WRITE" /\ m.val.bar = 1 THEN m.val.data = 0
                                 ELSE pseudo_synchronized
      BY <2>1
    <3>4. \E answered \in BOOLEAN : \A S :
            Count(d2h', S) =
              Count(d2h, S) + One(answered /\ Message("WRITECOMP", 0, simbricks_time) \in S)
      BY <2>3
    <3>5. QED
      BY <2>2, <3>1, <3>2, <3>3, <3>4 DEF Handled
  <2>6. QED
    BY <1>1, <2>1, <2>5 DEF Polled, m
<1>5. CASE H2DWrite
  <2> DEFINE m == Head(h2d)
             w == m.val
             a == Message("WRITECOMP", 0, simbricks_time)
  <2>1. /\ h2d # <<>> /\ h2d' = Tail(h2d)
        /\ m.type = "WRITE"
        /\ synchronized => m.ts <= simbricks_time
        /\ ~Throws(m)
        /\ in_timestamp' = m.ts
        /\ UNCHANGED <<reg_reads, dma_reads, dma_writes>>
    BY <1>5 DEF H2DWrite, Arrived
  <2>2. /\ reg_writes' = IF w.bar = 0 THEN Append(reg_writes, w) ELSE reg_writes
        /\ pseudo_synchronized' = IF w.bar = 1 THEN w.data = 0 ELSE pseudo_synchronized
        /\ d2h' = d2h \o <<>> \/ d2h' = d2h \o <<a>>
    BY <1>5 DEF H2DWrite, D2HOutSend
  <2>3. /\ w \in RegisterValues /\ reg_writes \in Seq(RegisterValues) /\ reg_reads \in Nat
        /\ d2h \in Seq(ToHost) /\ a \in ToHost
    BY <2>1, TypedArrived, MessageFields, MessagesToHost DEF LinkTyped
  <2> HIDE DEF m, w, a
  <2>4. Len(reg_writes') = Len(reg_writes) + One(w.bar = 0)
    BY <2>2, <2>3 DEF One
  <2>5. \E answered \in BOOLEAN : \A S : Count(d2h', S) = Count(d2h, S) + One(answered /\ a \in S)
    <3>1. \A S : Count(d2h, S) \in Nat
      BY <2>3, CountType
    <3>2. CASE d2h' = d2h \o <<>>
      <4>1. d2h' = d2h
        BY <2>3, <3>2
      <4>2. \A S : Count(d2h', S) = Count(d2h, S) + One(FALSE /\ a \in S)
        BY <3>1, <4>1 DEF One
      <4>3. QED
        BY <4>2
    <3>3. CASE d2h' = d2h \o <<a>>
      <4>1. \A S : Count(d2h', S) = Count(d2h, S) + One(TRUE /\ a \in S)
        BY <2>3, <3>3, SendOne DEF One
      <4>2. QED
        BY <4>1
    <3>4. QED
      BY <2>2, <3>2, <3>3
  <2>6. Handled(m)
    <3>1. reg_reads' = reg_reads + One(m.type = "READ")
      BY <2>1, <2>3 DEF One
    <3>2. Len(reg_writes') = Len(reg_writes) + One(m.type = "WRITE" /\ m.val.bar = 0)
      BY <2>1, <2>4 DEF One, w
    <3>3. pseudo_synchronized' = IF m.type = "WRITE" /\ m.val.bar = 1 THEN m.val.data = 0
                                 ELSE pseudo_synchronized
      BY <2>1, <2>2 DEF w
    <3>4. /\ dma_reads' = IF m.type = "READCOMP" THEN dma_reads \ {m.val} ELSE dma_reads
          /\ dma_writes' = IF m.type = "WRITECOMP" THEN dma_writes \ {m.val} ELSE dma_writes
      BY <2>1
    <3>5. QED
      BY <2>5, <3>1, <3>2, <3>3, <3>4 DEF Handled, a
  <2>7. QED
    BY <1>1, <2>1, <2>6 DEF Polled, m
<1>6. QED
  BY <1>1, <1>2, <1>3, <1>4, <1>5 DEF PollActions
(* simbricks_sync_poll sends a SYNC, or nothing. *)
LEMMA SyncPollSends ==
  ASSUME LinkTyped, SyncPoll
  PROVE  /\ UNCHANGED <<h2d, reg_reads, reg_writes, dma_reads, dma_writes, acceleratorVars,
                        hostVars>>
         /\ \E sent \in BOOLEAN, m \in ToHost :
              /\ m.type = "SYNC"
              /\ \A S : Count(d2h', S) = Count(d2h, S) + One(sent /\ m \in S)
<1>1. UNCHANGED <<h2d, reg_reads, reg_writes, dma_reads, dma_writes, acceleratorVars, hostVars>>
  BY DEF SyncPoll, acceleratorVars, hostVars
<1> DEFINE m == Message("SYNC", 0, simbricks_time')
<1>2. m \in ToHost /\ m.type = "SYNC"
  <2>1. simbricks_time' \in Nat
    BY DEF SyncPoll, LinkTyped
  <2>2. QED
    BY <2>1, MessagesToHost DEF Message
<1>3. d2h' = d2h \/ d2h' = Append(d2h, m)
  BY DEF SyncPoll
<1> HIDE DEF m
<1>4. d2h \in Seq(ToHost) /\ \A S : Count(d2h, S) \in Nat
  BY CountType DEF LinkTyped
<1>5. CASE d2h' = d2h
  <2>1. \A S : Count(d2h', S) = Count(d2h, S) + One(FALSE /\ m \in S)
    BY <1>4, <1>5 DEF One
  <2>2. QED
    BY <1>1, <1>2, <2>1
<1>6. CASE d2h' = Append(d2h, m)
  <2>1. \A S : Count(d2h', S) = Count(d2h, S) + One(TRUE /\ m \in S)
    BY <1>2, <1>4, <1>6, CountAppend DEF One
  <2>2. QED
    BY <1>1, <1>2, <2>1
<1>7. QED
  BY <1>3, <1>5, <1>6

(* The host takes a message off d2h. *)
LEMMA HostReceives ==
  ASSUME LinkTyped, HostReceive
  PROVE  /\ UNCHANGED <<h2d, adapterVars, acceleratorVars, submitted>>
         /\ \E m \in ToHost :
              /\ \A S : /\ Count(d2h', S) = Count(d2h, S) - One(m \in S)
                        /\ m \in S => Count(d2h, S) > 0
              /\ host_dma' = IF m.type \in {"READ", "WRITE"}
                             THEN host_dma \union {[type |-> m.type, id |-> m.val]} ELSE host_dma
              /\ driver' = IF m.type = "READCOMP" THEN "running" ELSE driver
              /\ fetched' = IF m.type = "READCOMP" /\ m.val THEN fetched + 1 ELSE fetched
<1> DEFINE m == Head(d2h)
<1>1. /\ d2h # <<>> /\ d2h' = Tail(d2h)
      /\ host_dma' = IF m.type \in {"READ", "WRITE"}
                     THEN host_dma \union {[type |-> m.type, id |-> m.val]} ELSE host_dma
      /\ driver' = IF m.type = "READCOMP" THEN "running" ELSE driver
      /\ fetched' = IF m.type = "READCOMP" /\ m.val THEN fetched + 1 ELSE fetched
      /\ UNCHANGED <<h2d, adapterVars, acceleratorVars, submitted>>
  BY DEF HostReceive
<1>2. d2h \in Seq(ToHost)
  BY DEF LinkTyped
<1>3. /\ m \in ToHost
      /\ \A S : /\ Count(d2h', S) = Count(d2h, S) - One(m \in S)
                /\ m \in S => Count(d2h, S) > 0
  BY <1>1, <1>2, ReceiveOne
<1> HIDE DEF m
<1>4. QED
  BY <1>1, <1>3

(* The device side of the same. *)
LEMMA PollTakes ==
  ASSUME LinkTyped, Polled
  PROVE  \E m \in ToDevice :
           /\ m = Head(h2d)
           /\ \A S : /\ Count(h2d', S) = Count(h2d, S) - One(m \in S)
                     /\ m \in S => Count(h2d, S) > 0
           /\ Handled(m)
<1>1. h2d \in Seq(ToDevice) /\ h2d # <<>> /\ h2d' = Tail(h2d)
  BY DEF LinkTyped, Polled
<1>2. /\ Head(h2d) \in ToDevice
      /\ \A S : /\ Count(h2d', S) = Count(h2d, S) - One(Head(h2d) \in S)
                /\ Head(h2d) \in S => Count(h2d, S) > 0
  BY <1>1, ReceiveOne
<1>3. QED
  BY <1>2 DEF Polled

LEMMA HostPuts ==
  ASSUME LinkTyped, NEW m \in ToDevice, HostSent(m)
  PROVE  \A S : Count(h2d', S) = Count(h2d, S) + One(m \in S)
<1>1. h2d \in Seq(ToDevice) /\ h2d' = h2d \o <<m>>
  BY DEF LinkTyped, HostSent
<1>2. QED
  BY <1>1, SendOne

-----------------------------------------------------------------------------
(* Register reads *)

ReadRequests == {m \in ToDevice : m.type = "READ"}
ReadAnswers == {m \in ToHost : m.type = "READCOMP"}

ReadsCounted ==
  Count(h2d, ReadRequests) + reg_reads + Count(d2h, ReadAnswers) = One(driver = "reading")

LEMMA ReadsCountedMeans == LinkTyped /\ ReadsCounted => OneReadInFlight
<1> SUFFICES ASSUME LinkTyped, ReadsCounted
             PROVE  OneReadInFlight
  OBVIOUS
<1>1. /\ h2d \in Seq(ToDevice) /\ d2h \in Seq(ToHost)
      /\ \A i \in 1..Len(h2d) : h2d[i] \in ToDevice
      /\ \A i \in 1..Len(d2h) : d2h[i] \in ToHost
  BY DEF LinkTyped
<1>2. /\ CountOf(h2d, "READ") = Count(h2d, ReadRequests)
      /\ CountOf(d2h, "READCOMP") = Count(d2h, ReadAnswers)
  <2>1. /\ {i \in 1..Len(h2d) : h2d[i].type = "READ"} = Positions(h2d, ReadRequests)
        /\ {i \in 1..Len(d2h) : d2h[i].type = "READCOMP"} = Positions(d2h, ReadAnswers)
    BY <1>1 DEF Positions, ReadRequests, ReadAnswers
  <2>2. QED
    BY <2>1 DEF CountOf, Count
<1>3. QED
  BY <1>2 DEF ReadsCounted, OneReadInFlight, One

LEMMA ReadsCountedInit ==
  ASSUME LinkInit
  PROVE  ReadsCounted
<1>1. \A S : Count(<<>>, S) = 0
  BY CountEmpty
<1>2. QED
  BY <1>1 DEF LinkInit, ReadsCounted, One

LEMMA ReadsCountedNext ==
  ASSUME LinkTyped, ReadsCounted, LinkNext
  PROVE  ReadsCounted'
<1> DEFINE asked == Count(h2d, ReadRequests)
           back == Count(d2h, ReadAnswers)
<1>1. asked \in Nat /\ back \in Nat /\ reg_reads \in Nat
  BY CountType DEF LinkTyped
<1>2. asked + reg_reads + back = One(driver = "reading")
  BY DEF ReadsCounted
<1>3. SUFFICES Count(h2d', ReadRequests) + reg_reads' + Count(d2h', ReadAnswers)
                 = One(driver' = "reading")
  BY DEF ReadsCounted, ReadRequests, ReadAnswers, ToDevice, ToHost
<1>4. CASE SyncPoll
  <2>1. /\ h2d' = h2d /\ reg_reads' = reg_reads /\ driver' = driver
        /\ \E sent \in BOOLEAN, m \in ToHost :
             m.type = "SYNC" /\ Count(d2h', ReadAnswers) = back + One(sent /\ m \in ReadAnswers)
    BY <1>4, SyncPollSends DEF hostVars
  <2>2. Count(d2h', ReadAnswers) = back
    BY <1>1, <2>1 DEF ReadAnswers, One
  <2>3. QED
    BY <1>2, <2>1, <2>2
<1>5. CASE PollActions
  <2>1. driver' = driver /\ (PollIdles \/ Polled)
    BY <1>5, PollHandles DEF hostVars
  <2>2. CASE PollIdles
    BY <1>2, <2>1, <2>2 DEF PollIdles
  <2>3. CASE Polled
    <3>1. PICK m \in ToDevice :
            /\ Count(h2d', ReadRequests) = asked - One(m \in ReadRequests)
            /\ Handled(m)
      BY <2>3, PollTakes
    <3>2. PICK answered \in BOOLEAN :
            Count(d2h', ReadAnswers) =
              back + One(answered /\ Message("WRITECOMP", 0, simbricks_time) \in ReadAnswers)
      BY <3>1 DEF Handled
    <3>3. Count(d2h', ReadAnswers) = back
      BY <1>1, <3>2 DEF Message, ReadAnswers, One
    <3>4. reg_reads' = reg_reads + One(m \in ReadRequests)
      BY <3>1 DEF Handled, ReadRequests
    <3>5. One(m \in ReadRequests) \in Nat
      BY DEF One
    <3> HIDE DEF asked, back
    <3>6. QED
      BY <1>1, <1>2, <2>1, <3>1, <3>3, <3>4, <3>5
  <2>4. QED
    BY <2>1, <2>2, <2>3
<1>6. CASE AxiAdapterStep
  <2>1. /\ UNCHANGED <<h2d, reg_reads, driver>>
    BY <1>6 DEF AxiAdapterStep, Tick, hostVars
  <2>2. PICK read \in BOOLEAN, write \in BOOLEAN, r \in RequestIds, w \in RequestIds :
          Count(d2h', ReadAnswers) =
            back + One(read /\ Message("READ", r, simbricks_time) \in ReadAnswers)
                 + One(write /\ Message("WRITE", w, simbricks_time) \in ReadAnswers)
    BY <1>6, AxiSends DEF AxiSent
  <2>3. Count(d2h', ReadAnswers) = back
    BY <1>1, <2>2 DEF Message, ReadAnswers, One
  <2>4. QED
    BY <1>2, <2>1, <2>3
<1>7. CASE AxilAdapterStep
  <2>1. UNCHANGED <<h2d, driver>>
    BY <1>7 DEF AxilAdapterStep, Tick, hostVars
  <2>2. PICK read \in BOOLEAN, write \in BOOLEAN, answered \in BOOLEAN :
          AxilSent(read, write, answered)
    BY <1>7, AxilSends
  <2>3. Count(d2h', ReadAnswers) =
          back + One(read /\ Message("READCOMP", completed > 0, simbricks_time) \in ReadAnswers)
               + One(answered /\ Message("WRITECOMP", 0, simbricks_time) \in ReadAnswers)
    BY <2>2 DEF AxilSent
  <2>4. /\ Message("READCOMP", completed > 0, simbricks_time) \in ReadAnswers
        /\ Message("WRITECOMP", 0, simbricks_time) \notin ReadAnswers
    <3>1. simbricks_time \in Nat /\ (completed > 0) \in BOOLEAN
      BY DEF LinkTyped
    <3>2. Message("READCOMP", completed > 0, simbricks_time) \in ToHost
      BY <3>1, MessagesToHost
    <3>3. QED
      BY <3>2 DEF Message, ReadAnswers
  <2>5. Count(d2h', ReadAnswers) = back + One(read)
    BY <1>1, <2>3, <2>4 DEF One
  <2>6. reg_reads' = reg_reads - One(read) /\ One(read) \in Nat
    BY <2>2 DEF AxilSent, One
  <2> HIDE DEF asked, back
  <2>7. asked + reg_reads' + Count(d2h', ReadAnswers) = asked + reg_reads + back
    BY <1>1, <2>5, <2>6
  <2>8. QED
    BY <1>2, <2>1, <2>7 DEF asked
<1>8. CASE AcceleratorNext \/ HostAdvance
  BY <1>2, <1>8 DEF AcceleratorNext, StartDecode, PushCompletion, HostAdvance, adapterVars,
     hostVars
<1>9. CASE HostCall
  <2>1. PICK m \in ToDevice : HostSent(m)
    BY <1>9, HostSends
  <2>2. Count(h2d', ReadRequests) = asked + One(m \in ReadRequests)
    BY <2>1, HostPuts
  <2>3. d2h' = d2h /\ reg_reads' = reg_reads
    BY <2>1 DEF HostSent, adapterVars
  <2>4. One(driver' = "reading") = One(driver = "reading") + One(m \in ReadRequests)
    BY <2>1 DEF HostSent, SwitchedOn, Submitted, ReadSent, SwitchedOff, Answered, SyncSent,
       Terminated, IsWrite, Answer, ReadRequests, One
  <2>5. One(m \in ReadRequests) \in Nat
    BY DEF One
  <2> HIDE DEF asked, back
  <2>6. QED
    BY <1>1, <1>2, <2>2, <2>3, <2>4, <2>5 DEF back
<1>10. CASE HostReceive
  <2>1. UNCHANGED <<h2d, reg_reads>>
    BY <1>10, HostReceives DEF adapterVars
  <2>2. PICK m \in ToHost :
          /\ Count(d2h', ReadAnswers) = back - One(m \in ReadAnswers)
          /\ m \in ReadAnswers => back > 0
          /\ driver' = IF m.type = "READCOMP" THEN "running" ELSE driver
    BY <1>10, HostReceives
  <2>3. m \in ReadAnswers <=> m.type = "READCOMP"
    BY DEF ReadAnswers
  <2> HIDE DEF asked, back
  <2>4. CASE m \in ReadAnswers
    <3>1. driver = "reading" /\ asked = 0 /\ reg_reads = 0 /\ back = 1
      BY <1>1, <1>2, <2>2, <2>4 DEF One
    <3>2. QED
      BY <2>1, <2>2, <2>3, <2>4, <3>1 DEF One, asked
  <2>5. CASE m \notin ReadAnswers
    BY <1>1, <1>2, <2>1, <2>2, <2>3, <2>5 DEF One, asked
  <2>6. QED
    BY <2>4, <2>5
<1>11. QED
  BY <1>4, <1>5, <1>6, <1>7, <1>8, <1>9, <1>10 DEF LinkNext, AdapterNext, HostNext,
     HostCall, PollActions
-----------------------------------------------------------------------------
(* DMA requests *)

DmaRequested(kind, id) == {m \in ToHost : m.type = kind /\ m.val = id}
DmaAnswers(kind, id) == {m \in ToDevice : m.type = Answer(kind) /\ m.val = id}
Request(kind, id) == [type |-> kind, id |-> id]

DmaPlaced(kind, id) ==
  Count(d2h, DmaRequested(kind, id)) + One(Request(kind, id) \in host_dma)
      + Count(h2d, DmaAnswers(kind, id))
    = One(id \in Pending(kind))

DmaCounted == \A id \in RequestIds, kind \in {"READ", "WRITE"} : DmaPlaced(kind, id)

LEMMA DmaCountedMeans == LinkTyped /\ DmaCounted => DmaAnsweredOnce
<1> SUFFICES ASSUME LinkTyped, DmaCounted, NEW id \in RequestIds, NEW kind \in {"READ", "WRITE"}
             PROVE  CountOfDma(d2h, kind, id)
                      + (IF [type |-> kind, id |-> id] \in host_dma THEN 1 ELSE 0)
                      + CountOfDma(h2d, Answer(kind), id)
                    = (IF id \in Pending(kind) THEN 1 ELSE 0)
  BY DEF DmaAnsweredOnce, RequestIds
<1>1. /\ \A i \in 1..Len(h2d) : h2d[i] \in ToDevice
      /\ \A i \in 1..Len(d2h) : d2h[i] \in ToHost
  BY DEF LinkTyped
<1>2. /\ CountOfDma(d2h, kind, id) = Count(d2h, DmaRequested(kind, id))
      /\ CountOfDma(h2d, Answer(kind), id) = Count(h2d, DmaAnswers(kind, id))
  <2>1. /\ {i \in 1..Len(d2h) : d2h[i].type = kind /\ d2h[i].val = id}
             = Positions(d2h, DmaRequested(kind, id))
        /\ {i \in 1..Len(h2d) : h2d[i].type = Answer(kind) /\ h2d[i].val = id}
             = Positions(h2d, DmaAnswers(kind, id))
    BY <1>1 DEF Positions, DmaRequested, DmaAnswers
  <2>2. QED
    BY <2>1 DEF CountOfDma, Count
<1>3. DmaPlaced(kind, id)
  BY DEF DmaCounted
<1>4. QED
  BY <1>2, <1>3 DEF DmaPlaced, Request, One

LEMMA DmaCountedInit ==
  ASSUME LinkInit
  PROVE  DmaCounted
<1>1. \A S : Count(<<>>, S) = 0
  BY CountEmpty
<1>2. QED
  BY <1>1 DEF LinkInit, DmaCounted, DmaPlaced, Pending, One

LEMMA DmaPlacedNext ==
  ASSUME LinkTyped, LinkNext,
         NEW id \in RequestIds, NEW kind \in {"READ", "WRITE"}, DmaPlaced(kind, id)
  PROVE  DmaPlaced(kind, id)'
<1> DEFINE Asks == DmaRequested(kind, id)
           Answers == DmaAnswers(kind, id)
           asked == Count(d2h, Asks)
           held == One(Request(kind, id) \in host_dma)
           back == Count(h2d, Answers)
           waits == One(id \in Pending(kind))
<1>1. asked \in Nat /\ back \in Nat
  BY CountType DEF LinkTyped
<1>2. asked + held + back = waits
  BY DEF DmaPlaced
<1>3. SUFFICES Count(d2h', Asks) + held' + Count(h2d', Answers) = waits'
  BY DEF DmaPlaced, DmaRequested, DmaAnswers, Request, Answer, ToDevice, ToHost
<1>4. /\ \A m : m \in Asks <=> m \in ToHost /\ m.type = kind /\ m.val = id
      /\ \A m : m \in Answers <=> m \in ToDevice /\ m.type = Answer(kind) /\ m.val = id
      /\ waits = IF id \in (IF kind = "READ" THEN dma_reads ELSE dma_writes) THEN 1 ELSE 0
      /\ waits' = IF id \in (IF kind = "READ" THEN dma_reads' ELSE dma_writes') THEN 1 ELSE 0
      /\ Answer(kind) = IF kind = "READ" THEN "READCOMP" ELSE "WRITECOMP"
      /\ held = IF Request(kind, id) \in host_dma THEN 1 ELSE 0
      /\ held' = IF Request(kind, id) \in host_dma' THEN 1 ELSE 0
  BY DEF DmaRequested, DmaAnswers, Pending, Answer, Request, One
<1>5. \A m : m.type \notin {"READ", "WRITE"} => m \notin Asks
  BY <1>4
<1>6. \A m : m.type \notin {"READCOMP", "WRITECOMP"} => m \notin Answers
  BY <1>4
<1> HIDE DEF Asks, Answers, held, waits
<1>7. CASE SyncPoll
  <2>1. /\ h2d' = h2d /\ dma_reads' = dma_reads /\ dma_writes' = dma_writes
        /\ host_dma' = host_dma
        /\ \E sent \in BOOLEAN, m \in ToHost :
             m.type = "SYNC" /\ Count(d2h', Asks) = asked + One(sent /\ m \in Asks)
    BY <1>7, SyncPollSends DEF hostVars
  <2>2. Count(d2h', Asks) = asked
    BY <1>1, <1>5, <2>1 DEF One
  <2>3. QED
    BY <1>2, <1>4, <2>1, <2>2
<1>8. CASE PollActions
  <2>1. host_dma' = host_dma /\ (PollIdles \/ Polled)
    BY <1>8, PollHandles DEF hostVars
  <2>2. CASE PollIdles
    BY <1>2, <1>4, <2>1, <2>2 DEF PollIdles
  <2>3. CASE Polled
    <3>1. PICK m \in ToDevice :
            /\ Count(h2d', Answers) = back - One(m \in Answers)
            /\ m \in Answers => back > 0
            /\ Handled(m)
      BY <2>3, PollTakes
    <3>2. PICK answered \in BOOLEAN :
            Count(d2h', Asks) =
              asked + One(answered /\ Message("WRITECOMP", 0, simbricks_time) \in Asks)
      BY <3>1 DEF Handled
    <3>3. Count(d2h', Asks) = asked
      BY <1>1, <1>5, <3>2 DEF Message, One
    <3>4. /\ dma_reads' = IF m.type = "READCOMP" THEN dma_reads \ {m.val} ELSE dma_reads
          /\ dma_writes' = IF m.type = "WRITECOMP" THEN dma_writes \ {m.val} ELSE dma_writes
      BY <3>1 DEF Handled
    <3>5. CASE m \in Answers
      <4>1. back > 0
        BY <3>1, <3>5
      <4>2. waits = 1 /\ asked = 0 /\ held = 0 /\ back = 1
        BY <1>1, <1>2, <1>4, <4>1
      <4>3. waits' = 0
        BY <1>4, <3>4, <3>5
      <4>4. held' = held
        BY <1>4, <2>1
      <4>5. QED
        BY <3>1, <3>3, <3>5, <4>2, <4>3, <4>4 DEF One
    <3>6. CASE m \notin Answers
      <4>1. waits' = waits
        BY <1>4, <3>4, <3>6
      <4>2. Count(h2d', Answers) = back
        BY <1>1, <3>1, <3>6 DEF One
      <4>3. QED
        BY <1>2, <1>4, <2>1, <3>3, <4>1, <4>2
    <3>7. QED
      BY <3>5, <3>6
  <2>4. QED
    BY <2>1, <2>2, <2>3
<1>9. CASE AxiAdapterStep
  <2>1. UNCHANGED <<h2d, host_dma>>
    BY <1>9 DEF AxiAdapterStep, Tick, hostVars
  <2>2. PICK read \in BOOLEAN, write \in BOOLEAN, r \in RequestIds, w \in RequestIds :
          AxiSent(read, write, r, w)
    BY <1>9, AxiSends
  <2>3. Count(d2h', Asks) =
          asked + One(read /\ Message("READ", r, simbricks_time) \in Asks)
                + One(write /\ Message("WRITE", w, simbricks_time) \in Asks)
    BY <2>2 DEF AxiSent
  <2>4. /\ Message("READ", r, simbricks_time) \in Asks <=> kind = "READ" /\ r = id
        /\ Message("WRITE", w, simbricks_time) \in Asks <=> kind = "WRITE" /\ w = id
    <3>1. /\ Message("READ", r, simbricks_time) \in ToHost
          /\ Message("WRITE", w, simbricks_time) \in ToHost
      BY MessagesToHost DEF LinkTyped
    <3>2. QED
      BY <1>4, <3>1 DEF Message
  <2>5. /\ read => r \notin dma_reads
        /\ write => w \notin dma_writes
        /\ dma_reads' = IF read THEN dma_reads \union {r} ELSE dma_reads
        /\ dma_writes' = IF write THEN dma_writes \union {w} ELSE dma_writes
    BY <2>2 DEF AxiSent
  <2>6. waits' = waits + One(read /\ kind = "READ" /\ r = id)
                                 + One(write /\ kind = "WRITE" /\ w = id)
    BY <1>4, <2>5 DEF One
  <2>7. Count(d2h', Asks) = asked + One(read /\ kind = "READ" /\ r = id)
                                  + One(write /\ kind = "WRITE" /\ w = id)
    BY <2>3, <2>4
  <2>8. /\ One(read /\ kind = "READ" /\ r = id) \in Nat
        /\ One(write /\ kind = "WRITE" /\ w = id) \in Nat
    BY DEF One
  <2>9. QED
    BY <1>1, <1>2, <1>4, <2>1, <2>6, <2>7, <2>8
<1>10. CASE AxilAdapterStep
  <2>1. UNCHANGED <<h2d, host_dma, dma_reads, dma_writes>>
    BY <1>10 DEF AxilAdapterStep, Tick, hostVars
  <2>2. PICK read \in BOOLEAN, write \in BOOLEAN, answered \in BOOLEAN :
          AxilSent(read, write, answered)
    BY <1>10, AxilSends
  <2>3. Count(d2h', Asks) =
          asked + One(read /\ Message("READCOMP", completed > 0, simbricks_time) \in Asks)
                + One(answered /\ Message("WRITECOMP", 0, simbricks_time) \in Asks)
    BY <2>2 DEF AxilSent
  <2>4. /\ Message("READCOMP", completed > 0, simbricks_time) \notin Asks
        /\ Message("WRITECOMP", 0, simbricks_time) \notin Asks
    BY <1>5 DEF Message
  <2>5. Count(d2h', Asks) = asked
    BY <1>1, <2>3, <2>4 DEF One
  <2>6. QED
    BY <1>2, <1>4, <2>1, <2>5
<1>11. CASE AcceleratorNext \/ HostAdvance
  <2>1. UNCHANGED <<h2d, d2h, host_dma, dma_reads, dma_writes>>
    BY <1>11 DEF AcceleratorNext, StartDecode, PushCompletion, HostAdvance, adapterVars,
       hostVars
  <2>2. QED
    BY <1>2, <1>4, <2>1
<1>12. CASE HostCall
  <2>1. PICK m \in ToDevice : HostSent(m)
    BY <1>12, HostSends
  <2>2. Count(h2d', Answers) = back + One(m \in Answers)
    BY <2>1, HostPuts
  <2>3. d2h' = d2h /\ dma_reads' = dma_reads /\ dma_writes' = dma_writes
    BY <2>1 DEF HostSent, adapterVars
  <2>4. held = held' + One(m \in Answers) /\ One(m \in Answers) \in Nat
    <3>1. CASE Answered(m)
      <4>1. PICK r \in host_dma : /\ m.type = Answer(r.type) /\ m.val = r.id
                                  /\ host_dma' = host_dma \ {r}
        BY <3>1 DEF Answered
      <4>2. r = [type |-> r.type, id |-> r.id] /\ r.type \in {"READ", "WRITE"}
        BY DEF LinkTyped, DmaRequests
      <4>3. r = Request(kind, id) <=> r.type = kind /\ r.id = id
        BY <4>2 DEF Request
      <4>4. m \in Answers <=> r.type = kind /\ r.id = id
        BY <1>4, <4>1, <4>2 DEF Answer
      <4>5. QED
        BY <1>4, <4>1, <4>3, <4>4 DEF One
    <3>2. CASE ~Answered(m)
      <4>1. host_dma' = host_dma /\ m.type \notin {"READCOMP", "WRITECOMP"}
        BY <2>1, <3>2 DEF HostSent, SwitchedOn, Submitted, ReadSent, SwitchedOff, SyncSent,
           Terminated, IsWrite
      <4>2. QED
        BY <1>4, <1>6, <4>1 DEF One
    <3>3. QED
      BY <3>1, <3>2
  <2>5. QED
    BY <1>1, <1>2, <1>4, <2>2, <2>3, <2>4
<1>13. CASE HostReceive
  <2>1. UNCHANGED <<h2d, dma_reads, dma_writes>>
    BY <1>13, HostReceives DEF adapterVars
  <2>2. PICK m \in ToHost :
          /\ Count(d2h', Asks) = asked - One(m \in Asks)
          /\ m \in Asks => asked > 0
          /\ host_dma' = IF m.type \in {"READ", "WRITE"}
                         THEN host_dma \union {[type |-> m.type, id |-> m.val]} ELSE host_dma
    BY <1>13, HostReceives
  <2>3. m \in Asks => held' = 1
    BY <1>4, <2>2 DEF Request
  <2>4. m \in Asks => held = 0
    BY <1>1, <1>2, <1>4, <2>2
  <2>5. m \notin Asks => held' = held
    <3>1. Request(kind, id) = [type |-> m.type, id |-> m.val] => m.type = kind /\ m.val = id
      BY DEF Request
    <3>2. QED
      BY <1>4, <2>2, <3>1
  <2>6. held' = held + One(m \in Asks) /\ One(m \in Asks) \in Nat
    BY <1>4, <2>3, <2>4, <2>5 DEF One
  <2>7. QED
    BY <1>1, <1>2, <1>4, <2>1, <2>2, <2>6
<1>14. QED
  BY <1>7, <1>8, <1>9, <1>10, <1>11, <1>12, <1>13 DEF LinkNext, AdapterNext, HostNext,
     HostCall, PollActions

LEMMA DmaCountedNext ==
  ASSUME LinkTyped, DmaCounted, LinkNext
  PROVE  DmaCounted'
<1>1. ASSUME NEW id \in RequestIds, NEW kind \in {"READ", "WRITE"}
      PROVE  DmaPlaced(kind, id)'
  BY DmaPlacedNext DEF DmaCounted
<1>2. QED
  BY <1>1 DEF DmaCounted, RequestIds
-----------------------------------------------------------------------------
(* Images *)

Descriptors == {m \in ToDevice : m.type = "WRITE" /\ m.val.bar = 0}
Completions == {m \in ToHost : m.type = "READCOMP" /\ m.val = TRUE}

(* An image submitted is read, on its way back, in the accelerator, on the  *)
(* register bus, or on its way to it.                                       *)
ImagesCounted ==
  submitted = fetched + Count(d2h, Completions) + completed + One(to_write # "none")
                + to_commit + Len(reg_writes) + Count(h2d, Descriptors)

LEMMA ImagesCountedInit ==
  ASSUME LinkInit
  PROVE  ImagesCounted
<1>1. \A S : Count(<<>>, S) = 0
  BY CountEmpty
<1>2. Len(<<>>) = 0
  OBVIOUS
<1>3. QED
  BY <1>1, <1>2 DEF LinkInit, ImagesCounted, One

LEMMA ImagesCountedNext ==
  ASSUME LinkTyped, ImagesCounted, LinkNext
  PROVE  ImagesCounted'
<1> DEFINE there == Count(h2d, Descriptors)
           back == Count(d2h, Completions)
           bus == Len(reg_writes)
           busy == One(to_write # "none")
<1>1. /\ there \in Nat /\ back \in Nat /\ bus \in Nat /\ busy \in Nat
      /\ to_commit \in Nat /\ completed \in Nat /\ fetched \in Nat /\ submitted \in Nat
  <2>1. there \in Nat /\ back \in Nat
    BY CountType DEF LinkTyped
  <2>2. bus \in Nat /\ busy \in Nat
    BY DEF LinkTyped, One
  <2>3. QED
    BY <2>1, <2>2 DEF LinkTyped
<1>2. submitted = fetched + back + completed + busy + to_commit + bus + there
  BY DEF ImagesCounted
<1>3. SUFFICES submitted' = fetched' + Count(d2h', Completions) + completed' + busy' + to_commit'
                              + Len(reg_writes') + Count(h2d', Descriptors)
  BY DEF ImagesCounted, Descriptors, Completions, ToDevice, ToHost
<1>4. \A m : m.type # "READCOMP" => m \notin Completions
  BY DEF Completions
<1>5. CASE SyncPoll
  <2>1. /\ h2d' = h2d /\ reg_writes' = reg_writes
        /\ UNCHANGED <<acceleratorVars, hostVars>>
        /\ \E sent \in BOOLEAN, m \in ToHost :
             m.type = "SYNC" /\ Count(d2h', Completions) = back + One(sent /\ m \in Completions)
    BY <1>5, SyncPollSends
  <2>2. Count(d2h', Completions) = back
    BY <1>1, <1>4, <2>1 DEF One
  <2>3. QED
    BY <1>2, <2>1, <2>2 DEF acceleratorVars, hostVars
<1>6. CASE PollActions
  <2>1. UNCHANGED <<acceleratorVars, hostVars>> /\ (PollIdles \/ Polled)
    BY <1>6, PollHandles
  <2>2. CASE PollIdles
    BY <1>2, <2>1, <2>2 DEF PollIdles, acceleratorVars, hostVars
  <2>3. CASE Polled
    <3>1. PICK m \in ToDevice :
            /\ Count(h2d', Descriptors) = there - One(m \in Descriptors)
            /\ Handled(m)
      BY <2>3, PollTakes
    <3>2. PICK answered \in BOOLEAN :
            Count(d2h', Completions) =
              back + One(answered /\ Message("WRITECOMP", 0, simbricks_time) \in Completions)
      BY <3>1 DEF Handled
    <3>3. Count(d2h', Completions) = back
      BY <1>1, <1>4, <3>2 DEF Message, One
    <3>4. Len(reg_writes') = bus + One(m \in Descriptors) /\ One(m \in Descriptors) \in Nat
      BY <3>1 DEF Handled, Descriptors, One
    <3>5. /\ submitted' = submitted /\ fetched' = fetched /\ completed' = completed
          /\ busy' = busy /\ to_commit' = to_commit
      BY <2>1 DEF acceleratorVars, hostVars
    <3> HIDE DEF there, back, bus, busy
    <3>6. QED
      BY <1>1, <1>2, <3>1, <3>3, <3>4, <3>5
  <2>4. QED
    BY <2>1, <2>2, <2>3
<1>7. CASE AxiAdapterStep
  <2>1. UNCHANGED <<h2d, reg_writes, to_commit, completed, fetched, submitted>>
    BY <1>7 DEF AxiAdapterStep, Tick, hostVars
  <2>2. PICK read \in BOOLEAN, write \in BOOLEAN, r \in RequestIds, w \in RequestIds :
          AxiSent(read, write, r, w)
    BY <1>7, AxiSends
  <2>3. Count(d2h', Completions) =
          back + One(read /\ Message("READ", r, simbricks_time) \in Completions)
               + One(write /\ Message("WRITE", w, simbricks_time) \in Completions)
    BY <2>2 DEF AxiSent
  <2>4. Count(d2h', Completions) = back
    BY <1>1, <1>4, <2>3 DEF Message, One
  <2>5. busy' = busy
    BY <2>2 DEF AxiSent, One
  <2> HIDE DEF busy
  <2>6. QED
    BY <1>2, <2>1, <2>4, <2>5
<1>8. CASE AxilAdapterStep
  <2>1. UNCHANGED <<h2d, to_write, fetched, submitted>>
    BY <1>8 DEF AxilAdapterStep, Tick, hostVars
  <2>2. PICK read \in BOOLEAN, write \in BOOLEAN, answered \in BOOLEAN :
          AxilSent(read, write, answered)
    BY <1>8, AxilSends
  <2>3. Count(d2h', Completions) =
          back + One(read /\ Message("READCOMP", completed > 0, simbricks_time) \in Completions)
               + One(answered /\ Message("WRITECOMP", 0, simbricks_time) \in Completions)
    BY <2>2 DEF AxilSent
  <2>4. /\ Message("READCOMP", completed > 0, simbricks_time) \in Completions <=> completed > 0
        /\ Message("WRITECOMP", 0, simbricks_time) \notin Completions
    <3>1. simbricks_time \in Nat /\ (completed > 0) \in BOOLEAN
      BY DEF LinkTyped
    <3>2. Message("READCOMP", completed > 0, simbricks_time) \in ToHost
      BY <3>1, MessagesToHost
    <3>3. Message("READCOMP", completed > 0, simbricks_time) \in Completions <=> completed > 0
      BY <3>2 DEF Message, Completions
    <3>4. QED
      BY <1>4, <3>3 DEF Message
  <2>5. /\ Count(d2h', Completions) = back + One(read /\ completed > 0)
        /\ One(read /\ completed > 0) \in Nat /\ One(write) \in Nat
    BY <1>1, <2>3, <2>4 DEF One
  <2>6. /\ completed' = completed - One(read /\ completed > 0)
        /\ to_commit' = to_commit + One(write)
        /\ Len(reg_writes') = bus - One(write)
    BY <2>2 DEF AxilSent
  <2>7. /\ Count(h2d', Descriptors) = there /\ busy' = busy
        /\ fetched' = fetched /\ submitted' = submitted
    BY <2>1
  <2> DEFINE got == One(read /\ completed > 0)
             put == One(write)
  <2>8. /\ got \in Nat /\ put \in Nat
        /\ Count(d2h', Completions) = back + got /\ completed' = completed - got
        /\ to_commit' = to_commit + put /\ Len(reg_writes') = bus - put
    BY <2>5, <2>6
  <2> HIDE DEF there, back, bus, busy, got, put
  <2>9. QED
    BY <1>1, <1>2, <2>7, <2>8
<1>9. CASE AcceleratorNext
  <2>1. UNCHANGED <<h2d, d2h, reg_writes, fetched, submitted>>
    BY <1>9 DEF AcceleratorNext, StartDecode, PushCompletion, adapterVars, hostVars
  <2>2. \/ completed' = completed /\ busy = 0 /\ busy' = 1 /\ to_commit' = to_commit - 1
        \/ completed' = completed + 1 /\ busy = 1 /\ busy' = 0 /\ to_commit' = to_commit
    BY <1>9 DEF AcceleratorNext, StartDecode, PushCompletion, One
  <2>3. /\ Count(h2d', Descriptors) = there /\ Count(d2h', Completions) = back
        /\ Len(reg_writes') = bus /\ fetched' = fetched /\ submitted' = submitted
    BY <2>1
  <2> HIDE DEF there, back, bus, busy
  <2>4. QED
    BY <1>1, <1>2, <2>2, <2>3
<1>10. CASE HostAdvance
  BY <1>2, <1>10 DEF HostAdvance, adapterVars, acceleratorVars
<1>11. CASE HostCall
  <2>1. PICK m \in ToDevice : HostSent(m)
    BY <1>11, HostSends
  <2>2. Count(h2d', Descriptors) = there + One(m \in Descriptors)
    BY <2>1, HostPuts
  <2>3. UNCHANGED <<d2h, reg_writes, acceleratorVars>>
    BY <2>1 DEF HostSent, adapterVars
  <2>4. submitted' = submitted + One(m \in Descriptors) /\ One(m \in Descriptors) \in Nat
    <3>1. m \in Descriptors <=> Submitted(m)
      BY <2>1 DEF HostSent, SwitchedOn, Submitted, ReadSent, SwitchedOff, Answered, SyncSent,
         Terminated, IsWrite, Answer, Descriptors
    <3>2. submitted' = IF Submitted(m) THEN submitted + 1 ELSE submitted
      BY <2>1 DEF HostSent, SwitchedOn, Submitted, ReadSent, SwitchedOff, Answered, SyncSent,
         Terminated
    <3>3. QED
      BY <1>1, <3>1, <3>2 DEF One
  <2>5. fetched' = fetched
    BY <2>1 DEF HostSent, SwitchedOn, Submitted, ReadSent, SwitchedOff, Answered, SyncSent,
       Terminated
  <2>6. /\ completed' = completed /\ busy' = busy /\ to_commit' = to_commit
        /\ Len(reg_writes') = bus /\ Count(d2h', Completions) = back
    BY <2>3 DEF acceleratorVars
  <2> HIDE DEF there, back, bus, busy
  <2>7. QED
    BY <1>1, <1>2, <2>2, <2>4, <2>5, <2>6
<1>12. CASE HostReceive
  <2>1. UNCHANGED <<h2d, reg_writes, acceleratorVars, submitted>>
    BY <1>12, HostReceives DEF adapterVars
  <2>2. PICK m \in ToHost :
          /\ Count(d2h', Completions) = back - One(m \in Completions)
          /\ fetched' = IF m.type = "READCOMP" /\ m.val THEN fetched + 1 ELSE fetched
    BY <1>12, HostReceives
  <2>3. fetched' = fetched + One(m \in Completions) /\ One(m \in Completions) \in Nat
    <3>1. m.type = "READCOMP" => m.val \in BOOLEAN
      BY MessageFields
    <3>2. m \in Completions <=> m.type = "READCOMP" /\ m.val
      BY <3>1 DEF Completions
    <3>3. QED
      BY <1>1, <2>2, <3>2 DEF One
  <2>4. /\ completed' = completed /\ busy' = busy /\ to_commit' = to_commit
        /\ Len(reg_writes') = bus /\ Count(h2d', Descriptors) = there
        /\ submitted' = submitted
    BY <2>1 DEF acceleratorVars
  <2>5. Count(d2h', Completions) = back - One(m \in Completions)
    BY <2>2
  <2> HIDE DEF there, back, bus, busy
  <2>6. QED
    BY <1>1, <1>2, <2>3, <2>4, <2>5
<1>13. QED
  BY <1>5, <1>6, <1>7, <1>8, <1>9, <1>10, <1>11, <1>12 DEF LinkNext, AdapterNext, HostNext,
     HostCall, PollActions

LEMMA LinkTypedMeans == LinkTyped /\ ImagesCounted => LinkTypeOK
<1> SUFFICES ASSUME LinkTyped, ImagesCounted
             PROVE  LinkTypeOK
  OBVIOUS
<1>1. fetched + completed <= submitted
  <2>1. Count(d2h, Completions) \in Nat /\ Count(h2d, Descriptors) \in Nat
    BY CountType DEF LinkTyped
  <2>2. /\ One(to_write # "none") \in Nat /\ Len(reg_writes) \in Nat
        /\ fetched \in Nat /\ completed \in Nat /\ submitted \in Nat /\ to_commit \in Nat
    BY DEF LinkTyped, One
  <2>3. QED
    BY <2>1, <2>2 DEF ImagesCounted
<1>2. num_adapters_ticked = Cardinality(stepped) /\ stepped \subseteq {"axi", "axil"}
  <2>1. Cardinality({}) = 0 /\ Cardinality({"axi"}) = 1 /\ Cardinality({"axil"}) = 1
    BY FS_EmptySet, FS_Singleton
  <2>2. QED
    BY <2>1 DEF LinkTyped, StepsPaired
<1>3. QED
  BY <1>1, <1>2 DEF LinkTyped, LinkTypeOK, RequestIds
-----------------------------------------------------------------------------
(* The order of messages *)

LEMMA PutBehind ==
  ASSUME NEW T, NEW q \in Seq(T), NEW m \in T, NEW p, p = q \o <<m>>
  PROVE  /\ Len(p) = Len(q) + 1 /\ Len(q) \in Nat /\ p # <<>>
         /\ \A i \in 1..Len(p) :
              \/ i \in 1..Len(q) /\ p[i] = q[i]
              \/ i = Len(q) + 1 /\ p[i] = m
         /\ \A i \in 1..Len(q) : i \in 1..Len(p) /\ p[i] = q[i]
         /\ Len(q) + 1 \in 1..Len(p) /\ p[Len(q) + 1] = m
         /\ q # <<>> => Head(p) = Head(q)
OBVIOUS

LEMMA TakenOff ==
  ASSUME NEW T, NEW q \in Seq(T), q # <<>>, NEW p, p = Tail(q)
  PROVE  /\ Len(p) = Len(q) - 1 /\ Len(q) \in Nat
         /\ 1 \in 1..Len(q) /\ q[1] = Head(q)
         /\ \A i \in 1..Len(p) : i \in Nat /\ i + 1 \in 1..Len(q) /\ p[i] = q[i + 1]
         /\ \A i \in 1..Len(q) : i # 1 => i \in Nat /\ i - 1 \in 1..Len(p) /\ p[i - 1] = q[i]
OBVIOUS

IsAccess(m) == m.type = "READ" \/ (m.type = "WRITE" /\ m.val.bar = 0)

(* The accesses of the driver lie between its two writes of                 *)
(* simulation_enabled, on the link as in the driver.                        *)
NotYetOff ==
  driver \in {"off", "running", "reading"} =>
    \A i \in 1..Len(h2d) : ~IsWrite(h2d[i], 1, 0)
OnOrComing ==
  driver \in {"running", "reading"} /\ pseudo_synchronized =>
    \E i \in 1..Len(h2d) : IsWrite(h2d[i], 1, 1)
AccessBehindOn ==
  pseudo_synchronized =>
    \A i \in 1..Len(h2d) : IsAccess(h2d[i]) =>
      \E j \in 1..Len(h2d) : j < i /\ IsWrite(h2d[j], 1, 1)
NoAccessBehindOff ==
  \A i, j \in 1..Len(h2d) : i < j => ~(IsWrite(h2d[i], 1, 0) /\ IsAccess(h2d[j]))
LateAnswerFirst ==
  pc = "aborted" => h2d # <<>> /\ Head(h2d).type \in {"READCOMP", "WRITECOMP"}

SwitchesInOrder ==
  /\ NotYetOff /\ OnOrComing /\ AccessBehindOn /\ NoAccessBehindOff /\ LateAnswerFirst

LEMMA SwitchesInOrderInit ==
  ASSUME LinkInit
  PROVE  SwitchesInOrder
BY DEF LinkInit, SwitchesInOrder, NotYetOff, OnOrComing, AccessBehindOn, NoAccessBehindOff,
   LateAnswerFirst

(* Nothing they speak of changes. *)
LEMMA SwitchesStay ==
  ASSUME SwitchesInOrder, h2d' = h2d, pseudo_synchronized' = pseudo_synchronized,
         driver' = driver \/ (driver = "reading" /\ driver' = "running"),
         pc' = "aborted" => pc = "aborted"
  PROVE  SwitchesInOrder'
BY DEF SwitchesInOrder, NotYetOff, OnOrComing, AccessBehindOn, NoAccessBehindOff,
   LateAnswerFirst, IsWrite, IsAccess

LEMMA SwitchesPolled ==
  ASSUME LinkTyped, SwitchesInOrder, Polled, driver' = driver, pc' # "aborted"
  PROVE  SwitchesInOrder'
<1> DEFINE m == Head(h2d)
<1>1. h2d \in Seq(ToDevice) /\ h2d # <<>> /\ h2d' = Tail(h2d)
  BY DEF LinkTyped, Polled
<1>2. /\ Len(h2d') = Len(h2d) - 1 /\ Len(h2d) \in Nat
      /\ 1 \in 1..Len(h2d) /\ h2d[1] = m
      /\ \A i \in 1..Len(h2d') : i \in Nat /\ i + 1 \in 1..Len(h2d) /\ h2d'[i] = h2d[i + 1]
      /\ \A i \in 1..Len(h2d) : i # 1 =>
           i \in Nat /\ i - 1 \in 1..Len(h2d') /\ h2d'[i - 1] = h2d[i]
  BY <1>1, TakenOff
<1>3. \/ m.type = "WRITE" /\ m.val.bar = 1 /\ pseudo_synchronized' = (m.val.data = 0)
      \/ ~(m.type = "WRITE" /\ m.val.bar = 1) /\ pseudo_synchronized' = pseudo_synchronized
  BY DEF Polled, Handled
<1> HIDE DEF m
<1>4. IsWrite(m, 1, 0) \/ (pseudo_synchronized' => ~IsWrite(m, 1, 1) /\ pseudo_synchronized)
  BY <1>3 DEF IsWrite
<1>5. NotYetOff'
  <2> SUFFICES ASSUME driver \in {"off", "running", "reading"}, NEW i \in 1..Len(h2d')
               PROVE  ~IsWrite(h2d'[i], 1, 0)
    BY DEF NotYetOff, IsWrite
  <2>1. QED
    BY <1>2 DEF SwitchesInOrder, NotYetOff
<1>6. OnOrComing'
  <2> SUFFICES ASSUME driver \in {"running", "reading"}, pseudo_synchronized'
               PROVE  \E i \in 1..Len(h2d') : IsWrite(h2d'[i], 1, 1)
    BY DEF OnOrComing, IsWrite
  <2>1. ~IsWrite(m, 1, 0)
    BY <1>2 DEF SwitchesInOrder, NotYetOff
  <2>2. PICK i \in 1..Len(h2d) : IsWrite(h2d[i], 1, 1)
    BY <1>4, <2>1 DEF SwitchesInOrder, OnOrComing
  <2>3. i # 1
    BY <1>2, <1>4, <2>1, <2>2
  <2>4. QED
    BY <1>2, <2>2, <2>3
<1>7. NoAccessBehindOff'
  <2> SUFFICES ASSUME NEW i \in 1..Len(h2d'), NEW j \in 1..Len(h2d'), i < j
               PROVE  ~(IsWrite(h2d'[i], 1, 0) /\ IsAccess(h2d'[j]))
    BY DEF NoAccessBehindOff, IsWrite, IsAccess
  <2>1. i + 1 < j + 1
    BY <1>2
  <2>2. QED
    BY <1>2, <2>1 DEF SwitchesInOrder, NoAccessBehindOff
<1>8. AccessBehindOn'
  <2> SUFFICES ASSUME pseudo_synchronized', NEW i \in 1..Len(h2d'), IsAccess(h2d'[i])
               PROVE  \E j \in 1..Len(h2d') : j < i /\ IsWrite(h2d'[j], 1, 1)
    BY DEF AccessBehindOn, IsWrite, IsAccess
  <2>1. i + 1 \in 1..Len(h2d) /\ IsAccess(h2d[i + 1]) /\ 1 < i + 1 /\ i \in Nat
    BY <1>2
  <2>2. ~IsWrite(m, 1, 0)
    BY <1>2, <2>1 DEF SwitchesInOrder, NoAccessBehindOff
  <2>3. PICK j \in 1..Len(h2d) : j < i + 1 /\ IsWrite(h2d[j], 1, 1)
    BY <1>4, <2>1, <2>2 DEF SwitchesInOrder, AccessBehindOn
  <2>4. j # 1
    BY <1>2, <1>4, <2>2, <2>3
  <2>5. j - 1 \in 1..Len(h2d') /\ h2d'[j - 1] = h2d[j] /\ j - 1 < i
    BY <1>2, <2>1, <2>3, <2>4
  <2>6. QED
    BY <2>3, <2>5
<1>9. LateAnswerFirst'
  BY DEF LateAnswerFirst
<1>10. QED
  BY <1>5, <1>6, <1>7, <1>8, <1>9 DEF SwitchesInOrder

LEMMA SwitchesSent ==
  ASSUME LinkTyped, SwitchesInOrder, NEW m \in ToDevice, HostSent(m)
  PROVE  SwitchesInOrder'
<1> DEFINE n == Len(h2d) + 1
<1>1. h2d \in Seq(ToDevice) /\ h2d' = h2d \o <<m>>
  BY DEF LinkTyped, HostSent
<1>2. /\ Len(h2d') = n /\ Len(h2d) \in Nat /\ h2d' # <<>>
      /\ \A i \in 1..Len(h2d') :
           \/ i \in 1..Len(h2d) /\ h2d'[i] = h2d[i]
           \/ i = n /\ h2d'[i] = m
      /\ \A i \in 1..Len(h2d) : i \in 1..Len(h2d') /\ h2d'[i] = h2d[i]
      /\ n \in 1..Len(h2d') /\ h2d'[n] = m
      /\ h2d # <<>> => Head(h2d') = Head(h2d)
  BY <1>1, PutBehind
<1>3. pseudo_synchronized' = pseudo_synchronized /\ pc' = pc /\ driver # "terminated"
  BY DEF HostSent, adapterVars
<1>4. IsAccess(m) => driver = "running"
  BY DEF HostSent, SwitchedOn, Submitted, ReadSent, SwitchedOff, Answered, SyncSent, Terminated,
     IsWrite, IsAccess, Answer
<1>5. IsWrite(m, 1, 0) => driver' = "done"
  BY DEF HostSent, SwitchedOn, Submitted, ReadSent, SwitchedOff, Answered, SyncSent, Terminated,
     IsWrite, Answer
<1>6. \/ driver' = driver
      \/ driver = "off" /\ driver' = "running" /\ IsWrite(m, 1, 1)
      \/ driver = "running" /\ driver' = "reading"
      \/ driver' \in {"done", "terminated"}
  BY DEF HostSent, SwitchedOn, Submitted, ReadSent, SwitchedOff, Answered, SyncSent, Terminated
<1>7. NotYetOff'
  <2> SUFFICES ASSUME driver' \in {"off", "running", "reading"}, NEW i \in 1..Len(h2d')
               PROVE  ~IsWrite(h2d'[i], 1, 0)
    BY DEF NotYetOff, IsWrite
  <2>1. driver \in {"off", "running", "reading"} /\ ~IsWrite(m, 1, 0)
    BY <1>5, <1>6
  <2>2. QED
    BY <1>2, <2>1 DEF SwitchesInOrder, NotYetOff
<1>8. OnOrComing'
  <2> SUFFICES ASSUME driver' \in {"running", "reading"}, pseudo_synchronized
               PROVE  \E i \in 1..Len(h2d') : IsWrite(h2d'[i], 1, 1)
    BY <1>3 DEF OnOrComing, IsWrite
  <2>1. driver \in {"running", "reading"} \/ IsWrite(m, 1, 1)
    BY <1>6
  <2>2. QED
    BY <1>2, <2>1 DEF SwitchesInOrder, OnOrComing
<1>9. AccessBehindOn'
  <2> SUFFICES ASSUME pseudo_synchronized, NEW i \in 1..Len(h2d'), IsAccess(h2d'[i])
               PROVE  \E j \in 1..Len(h2d') : j < i /\ IsWrite(h2d'[j], 1, 1)
    BY <1>3 DEF AccessBehindOn, IsWrite, IsAccess
  <2>1. \E j \in 1..Len(h2d) : j < i /\ IsWrite(h2d[j], 1, 1)
    <3>1. CASE i \in 1..Len(h2d) /\ h2d'[i] = h2d[i]
      BY <3>1 DEF SwitchesInOrder, AccessBehindOn
    <3>2. CASE i = n /\ h2d'[i] = m
      <4>1. PICK j \in 1..Len(h2d) : IsWrite(h2d[j], 1, 1)
        BY <1>4, <3>2 DEF SwitchesInOrder, OnOrComing
      <4>2. QED
        BY <1>2, <3>2, <4>1
    <3>3. QED
      BY <1>2, <3>1, <3>2
  <2>2. QED
    BY <1>2, <2>1
<1>10. NoAccessBehindOff'
  <2> SUFFICES ASSUME NEW i \in 1..Len(h2d'), NEW j \in 1..Len(h2d'), i < j,
                      IsWrite(h2d'[i], 1, 0), IsAccess(h2d'[j])
               PROVE  FALSE
    BY DEF NoAccessBehindOff, IsWrite, IsAccess
  <2>1. i \in 1..Len(h2d) /\ h2d'[i] = h2d[i]
    BY <1>2
  <2>2. CASE j \in 1..Len(h2d) /\ h2d'[j] = h2d[j]
    BY <2>1, <2>2 DEF SwitchesInOrder, NoAccessBehindOff
  <2>3. CASE j = n /\ h2d'[j] = m
    BY <1>4, <2>1, <2>3 DEF SwitchesInOrder, NotYetOff
  <2>4. QED
    BY <1>2, <2>2, <2>3
<1>11. LateAnswerFirst'
  BY <1>2, <1>3 DEF SwitchesInOrder, LateAnswerFirst
<1>12. QED
  BY <1>7, <1>8, <1>9, <1>10, <1>11 DEF SwitchesInOrder

LEMMA SwitchesThrown ==
  ASSUME LinkTyped, SwitchesInOrder, PollThrows
  PROVE  SwitchesInOrder'
<1>1. /\ h2d # <<>> /\ Throws(Head(h2d)) /\ pseudo_synchronized
      /\ UNCHANGED <<h2d, pseudo_synchronized, driver>>
  BY DEF PollThrows, Throws, hostVars
<1>2. h2d \in Seq(ToDevice)
  BY DEF LinkTyped
<1>3. 1 \in 1..Len(h2d) /\ h2d[1] = Head(h2d)
  BY <1>1, <1>2
<1>4. ~IsAccess(Head(h2d))
  BY <1>1, <1>3 DEF SwitchesInOrder, AccessBehindOn
<1>5. Head(h2d).type \in {"READCOMP", "WRITECOMP"}
  BY <1>1, <1>4 DEF Throws, IsAccess
<1>6. LateAnswerFirst'
  BY <1>1, <1>5 DEF LateAnswerFirst
<1>7. NotYetOff' /\ OnOrComing' /\ AccessBehindOn' /\ NoAccessBehindOff'
  BY <1>1 DEF SwitchesInOrder, NotYetOff, OnOrComing, AccessBehindOn, NoAccessBehindOff,
     IsWrite, IsAccess
<1>8. QED
  BY <1>6, <1>7 DEF SwitchesInOrder

LEMMA SwitchesInOrderNext ==
  ASSUME LinkTyped, ReadsCounted, SwitchesInOrder, LinkNext
  PROVE  SwitchesInOrder'
<1>1. CASE PollActions
  <2>1. /\ driver' = driver
        /\ (PollNothing /\ PollIdles) \/ (PollThrows /\ PollIdles) \/ Polled
    BY <1>1, PollHandles DEF hostVars
  <2>2. CASE PollNothing /\ PollIdles
    <3>1. pc' # "aborted"
      BY <2>2 DEF PollNothing, PollEnds
    <3>2. QED
      BY <2>1, <2>2, <3>1, SwitchesStay DEF PollIdles
  <2>3. CASE PollThrows
    BY <2>3, SwitchesThrown
  <2>4. CASE Polled
    <3>1. ~PollThrows
      BY <2>4 DEF Polled, PollThrows
    <3>2. pc' # "aborted"
      BY <1>1, <3>1 DEF PollActions, PollNothing, H2DRead, H2DWrite, H2DReadcomp, H2DWritecomp,
         H2DSync, H2DTerminate, PollEnds
    <3>3. QED
      BY <2>1, <2>4, <3>2, SwitchesPolled
  <2>5. QED
    BY <2>1, <2>2, <2>3, <2>4
<1>2. CASE SyncPoll
  BY <1>2, SwitchesStay DEF SyncPoll, hostVars
<1>3. CASE AxiAdapterStep \/ AxilAdapterStep
  <2>1. /\ UNCHANGED <<h2d, pseudo_synchronized, driver>>
        /\ pc' # "aborted"
    BY <1>3 DEF AxiAdapterStep, AxilAdapterStep, Tick, hostVars
  <2>2. QED
    BY <2>1, SwitchesStay
<1>4. CASE AcceleratorNext \/ HostAdvance
  <2>1. UNCHANGED <<h2d, pseudo_synchronized, driver, pc>>
    BY <1>4 DEF AcceleratorNext, StartDecode, PushCompletion, HostAdvance, adapterVars, hostVars
  <2>2. QED
    BY <2>1, SwitchesStay
<1>5. CASE HostCall
  BY <1>5, HostSends, SwitchesSent
<1>6. CASE HostReceive
  <2>1. UNCHANGED <<h2d, pseudo_synchronized, pc>>
    BY <1>6, HostReceives DEF adapterVars
  <2>2. PICK m \in ToHost :
          /\ m \in ReadAnswers => Count(d2h, ReadAnswers) > 0
          /\ driver' = IF m.type = "READCOMP" THEN "running" ELSE driver
    BY <1>6, HostReceives
  <2>3. m.type = "READCOMP" => driver = "reading"
    <3>1. /\ Count(h2d, ReadRequests) \in Nat /\ Count(d2h, ReadAnswers) \in Nat
          /\ reg_reads \in Nat
      BY CountType DEF LinkTyped
    <3>2. m.type = "READCOMP" => Count(d2h, ReadAnswers) > 0
      BY <2>2 DEF ReadAnswers
    <3>3. QED
      BY <3>1, <3>2 DEF ReadsCounted, One
  <2>4. QED
    BY <2>1, <2>2, <2>3, SwitchesStay
<1>7. QED
  BY <1>1, <1>2, <1>3, <1>4, <1>5, <1>6 DEF LinkNext, AdapterNext, HostNext, HostCall,
     PollActions
-----------------------------------------------------------------------------
(* Time *)

NotAhead == in_timestamp <= host_time + LinkLatency
Announced ==
  \A i \in 1..Len(h2d) : in_timestamp <= h2d[i].ts /\ h2d[i].ts <= host_time + LinkLatency
Sorted == \A i, j \in 1..Len(h2d) : i <= j => h2d[i].ts <= h2d[j].ts
InOrder == NotAhead /\ Announced /\ Sorted

ExitsAfterPoll == exiting => pc \in {"adapters", "finished"}
RunsWhileAwake ==
  synchronized /\ ~exiting /\ pc = "adapters" =>
    simbricks_time < in_timestamp /\ ~pseudo_synchronized
EdgeAtMost ==
  synchronized /\ pc \in {"sync_poll", "poll_h2d"} =>
    simbricks_time < in_timestamp + ClockPeriod
JumpsForward ==
  synchronized /\ pseudo_synchronized /\ pc = "sync_poll" => simbricks_time <= in_timestamp
OnTime == ExitsAfterPoll /\ RunsWhileAwake /\ EdgeAtMost /\ JumpsForward

LEMMA TimesAreNumbers ==
  ASSUME LinkTyped
  PROVE  /\ simbricks_time \in Nat /\ in_timestamp \in Nat /\ host_time \in Nat
         /\ ClockPeriod \in Nat /\ ClockPeriod > 0 /\ LinkLatency \in Nat
         /\ \A i \in 1..Len(h2d) : h2d[i].ts \in Nat
<1>1. \A i \in 1..Len(h2d) : h2d[i] \in ToDevice
  BY DEF LinkTyped
<1>2. QED
  BY <1>1, LinkConstants, MessageFields DEF LinkTyped

LEMMA TimeInit ==
  ASSUME LinkInit
  PROVE  InOrder /\ OnTime
BY LinkConstants DEF LinkInit, InOrder, NotAhead, Announced, Sorted, OnTime, ExitsAfterPoll,
   RunsWhileAwake, EdgeAtMost, JumpsForward

(* The timestamps of the queue and the last one that was read. *)
LEMMA InOrderNext ==
  ASSUME LinkTyped, InOrder, LinkNext
  PROVE  InOrder'
<1>1. /\ in_timestamp \in Nat /\ host_time \in Nat /\ LinkLatency \in Nat
      /\ \A i \in 1..Len(h2d) : h2d[i].ts \in Nat
      /\ h2d \in Seq(ToDevice)
  BY TimesAreNumbers DEF LinkTyped
<1>2. ASSUME h2d' = h2d, in_timestamp' = in_timestamp,
             host_time' = host_time \/ host_time' = host_time + 1
      PROVE  InOrder'
  BY <1>1, <1>2 DEF InOrder, NotAhead, Announced, Sorted
<1>3. CASE PollActions
  <2>1. host_time' = host_time
    BY <1>3, PollHandles DEF hostVars
  <2>2. CASE h2d' = h2d
    <3>1. \/ in_timestamp' = in_timestamp
          \/ h2d # <<>> /\ in_timestamp' = Head(h2d).ts
      BY <1>3, <2>2 DEF PollActions, PollNothing, PollThrows, H2DRead, H2DWrite, H2DReadcomp,
         H2DWritecomp, H2DSync, H2DTerminate, Arrived
    <3>2. CASE h2d # <<>> /\ in_timestamp' = Head(h2d).ts
      <4>1. 1 \in 1..Len(h2d) /\ in_timestamp' = h2d[1].ts /\ \A i \in 1..Len(h2d) : 1 <= i
        BY <1>1, <3>2
      <4>2. /\ in_timestamp' <= host_time + LinkLatency
            /\ \A i \in 1..Len(h2d) : in_timestamp' <= h2d[i].ts
        BY <4>1 DEF InOrder, Announced, Sorted
      <4>3. QED
        BY <2>1, <2>2, <4>2 DEF InOrder, NotAhead, Announced, Sorted
    <3>3. QED
      BY <1>2, <2>1, <2>2, <3>1, <3>2
  <2>3. CASE h2d' # h2d
    <3>1. h2d # <<>> /\ h2d' = Tail(h2d) /\ in_timestamp' = Head(h2d).ts
      BY <1>3, <2>3, PollHandles DEF PollIdles, Polled
    <3>2. /\ 1 \in 1..Len(h2d) /\ h2d[1] = Head(h2d)
          /\ \A i \in 1..Len(h2d') : i \in Nat /\ i + 1 \in 1..Len(h2d) /\ h2d'[i] = h2d[i + 1]
      BY <1>1, <3>1, TakenOff
    <3>3. NotAhead'
      BY <2>1, <3>1, <3>2 DEF InOrder, Announced, NotAhead
    <3>4. Announced'
      <4> SUFFICES ASSUME NEW i \in 1..Len(h2d')
                   PROVE  in_timestamp' <= h2d'[i].ts /\ h2d'[i].ts <= host_time' + LinkLatency
        BY DEF Announced
      <4>1. 1 <= i + 1 /\ i + 1 \in 1..Len(h2d) /\ h2d'[i] = h2d[i + 1]
        BY <3>2
      <4>2. QED
        BY <2>1, <3>1, <3>2, <4>1 DEF InOrder, Announced, Sorted
    <3>5. Sorted'
      <4> SUFFICES ASSUME NEW i \in 1..Len(h2d'), NEW j \in 1..Len(h2d'), i <= j
                   PROVE  h2d'[i].ts <= h2d'[j].ts
        BY DEF Sorted
      <4>1. i + 1 <= j + 1
        BY <3>2
      <4>2. QED
        BY <3>2, <4>1 DEF InOrder, Sorted
    <3>6. QED
      BY <3>3, <3>4, <3>5 DEF InOrder
  <2>4. QED
    BY <2>2, <2>3
<1>4. CASE SyncPoll \/ AxiAdapterStep \/ AxilAdapterStep \/ AcceleratorNext
  <2>1. UNCHANGED <<h2d, in_timestamp, host_time>>
    BY <1>4 DEF SyncPoll, AxiAdapterStep, AxilAdapterStep, Tick, AcceleratorNext, StartDecode,
       PushCompletion, adapterVars, hostVars
  <2>2. QED
    BY <1>2, <2>1
<1>5. CASE HostReceive \/ HostAdvance
  <2>1. /\ UNCHANGED <<h2d, in_timestamp>>
        /\ host_time' = host_time \/ host_time' = host_time + 1
    BY <1>5 DEF HostReceive, HostAdvance, adapterVars
  <2>2. QED
    BY <1>2, <2>1
<1>6. CASE HostCall
  <2>1. PICK m \in ToDevice : HostSent(m)
    BY <1>6, HostSends
  <2>2. /\ h2d' = h2d \o <<m>> /\ m.ts = host_time + LinkLatency
        /\ in_timestamp' = in_timestamp /\ host_time' = host_time
    BY <2>1 DEF HostSent, adapterVars
  <2>3. /\ \A i \in 1..Len(h2d') :
             \/ i \in 1..Len(h2d) /\ h2d'[i] = h2d[i]
             \/ i = Len(h2d) + 1 /\ h2d'[i] = m
        /\ Len(h2d') = Len(h2d) + 1 /\ Len(h2d) \in Nat
    BY <1>1, <2>2, PutBehind
  <2>4. NotAhead'
    BY <2>2 DEF InOrder, NotAhead
  <2>5. Announced'
    <3> SUFFICES ASSUME NEW i \in 1..Len(h2d')
                 PROVE  in_timestamp <= h2d'[i].ts /\ h2d'[i].ts <= host_time + LinkLatency
      BY <2>2 DEF Announced
    <3>1. QED
      BY <1>1, <2>2, <2>3 DEF InOrder, NotAhead, Announced
  <2>6. Sorted'
    <3> SUFFICES ASSUME NEW i \in 1..Len(h2d'), NEW j \in 1..Len(h2d'), i <= j
                 PROVE  h2d'[i].ts <= h2d'[j].ts
      BY DEF Sorted
    <3>1. CASE j \in 1..Len(h2d) /\ h2d'[j] = h2d[j]
      <4>1. i \in 1..Len(h2d) /\ h2d'[i] = h2d[i]
        BY <2>3, <3>1
      <4>2. QED
        BY <3>1, <4>1 DEF InOrder, Sorted
    <3>2. CASE j = Len(h2d) + 1 /\ h2d'[j] = m
      BY <1>1, <2>2, <2>3, <3>2 DEF InOrder, Announced
    <3>3. QED
      BY <2>3, <3>1, <3>2
  <2>7. QED
    BY <2>4, <2>5, <2>6 DEF InOrder
<1>7. QED
  BY <1>3, <1>4, <1>5, <1>6 DEF LinkNext, AdapterNext, HostNext, HostCall, PollActions

(* The loop of simbricks_sync_poll ends where the clock may go on. *)
LEMMA OnTimeNext ==
  ASSUME LinkTyped, InOrder, OnTime, LinkNext
  PROVE  OnTime'
<1>1. /\ in_timestamp \in Nat /\ simbricks_time \in Nat /\ ClockPeriod \in Nat
      /\ ClockPeriod > 0
      /\ \A i \in 1..Len(h2d) : h2d[i].ts \in Nat
      /\ h2d \in Seq(ToDevice)
  BY TimesAreNumbers DEF LinkTyped
<1>2. /\ synchronized \in BOOLEAN /\ pseudo_synchronized \in BOOLEAN /\ exiting \in BOOLEAN
  BY DEF LinkTyped
<1>3. CASE PollActions
  <2>1. pc = "poll_h2d" /\ ~exiting
    BY <1>3 DEF PollActions, PollNothing, PollThrows, H2DRead, H2DWrite, H2DReadcomp,
       H2DWritecomp, H2DSync, H2DTerminate, Arrived, OnTime, ExitsAfterPoll
  <2>2. UNCHANGED <<simbricks_time, synchronized>>
    BY <1>3, PollHandles
  <2>3. /\ in_timestamp' \in Nat /\ in_timestamp <= in_timestamp'
    <3>1. \/ in_timestamp' = in_timestamp
          \/ h2d # <<>> /\ in_timestamp' = Head(h2d).ts
      BY <1>3 DEF PollActions, PollNothing, PollThrows, H2DRead, H2DWrite, H2DReadcomp,
         H2DWritecomp, H2DSync, H2DTerminate, Arrived
    <3>2. h2d # <<>> => 1 \in 1..Len(h2d) /\ h2d[1] = Head(h2d)
      BY <1>1
    <3>3. QED
      BY <1>1, <3>1, <3>2 DEF InOrder, Announced
  <2>4. CASE PollThrows
    BY <2>1, <2>4 DEF PollThrows, OnTime, ExitsAfterPoll, RunsWhileAwake, EdgeAtMost,
       JumpsForward
  <2>5. CASE ~PollThrows
    <3>1. pc' = IF exiting' THEN "adapters"
                ELSE IF synchronized /\ in_timestamp' <= simbricks_time THEN "poll_h2d"
                ELSE IF synchronized /\ pseudo_synchronized' THEN "sync_poll"
                ELSE "adapters"
      BY <1>3, <2>5 DEF PollActions, PollNothing, H2DRead, H2DWrite, H2DReadcomp,
         H2DWritecomp, H2DSync, H2DTerminate, PollEnds, MessagesDue, FastForwards
    <3>2. ExitsAfterPoll'
      BY <3>1 DEF ExitsAfterPoll
    <3>3. RunsWhileAwake'
      BY <1>1, <2>2, <2>3, <3>1 DEF RunsWhileAwake
    <3>4. EdgeAtMost'
      BY <1>1, <2>1, <2>2, <2>3 DEF OnTime, EdgeAtMost
    <3>5. JumpsForward'
      BY <1>1, <2>2, <2>3, <3>1 DEF JumpsForward
    <3>6. QED
      BY <3>2, <3>3, <3>4, <3>5 DEF OnTime
  <2>6. QED
    BY <2>4, <2>5
<1>4. CASE SyncPoll
  <2>1. /\ pc = "sync_poll" /\ pc' = "poll_h2d"
        /\ UNCHANGED <<in_timestamp, synchronized, pseudo_synchronized, exiting>>
        /\ simbricks_time' = IF synchronized /\ pseudo_synchronized THEN in_timestamp
                             ELSE simbricks_time
    BY <1>4 DEF SyncPoll
  <2>2. ExitsAfterPoll' /\ RunsWhileAwake' /\ JumpsForward'
    BY <2>1 DEF OnTime, ExitsAfterPoll, RunsWhileAwake, JumpsForward
  <2>3. EdgeAtMost'
    BY <1>1, <2>1 DEF OnTime, EdgeAtMost
  <2>4. QED
    BY <2>2, <2>3 DEF OnTime
<1>5. CASE AxiAdapterStep \/ AxilAdapterStep
  <2>1. PICK adapter \in {"axi", "axil"} : Tick(adapter)
    BY <1>5 DEF AxiAdapterStep, AxilAdapterStep
  <2>2. /\ pc = "adapters"
        /\ UNCHANGED <<in_timestamp, synchronized, pseudo_synchronized, exiting>>
        /\ simbricks_time' = IF synchronized /\ Ticked = 0 THEN simbricks_time + ClockPeriod
                             ELSE simbricks_time
        /\ pc' = IF Ticked > 0 THEN "adapters" ELSE IF exiting THEN "finished" ELSE "sync_poll"
    BY <2>1 DEF Tick, TimeAdvances
  <2>3. Ticked \in {0, 1}
    BY DEF LinkTyped, StepsPaired, Ticked
  <2>4. ExitsAfterPoll' /\ RunsWhileAwake' /\ JumpsForward'
    BY <1>1, <1>2, <2>2, <2>3 DEF OnTime, ExitsAfterPoll, RunsWhileAwake, JumpsForward
  <2>5. EdgeAtMost'
    BY <1>1, <1>2, <2>2, <2>3 DEF OnTime, RunsWhileAwake, EdgeAtMost
  <2>6. QED
    BY <2>4, <2>5 DEF OnTime
<1>6. CASE AcceleratorNext \/ HostNext
  <2>1. UNCHANGED <<in_timestamp, simbricks_time, synchronized, pseudo_synchronized, exiting, pc>>
    <3>1. UNCHANGED adapterVars
      BY <1>6, HostSends, HostReceives DEF AcceleratorNext, StartDecode, PushCompletion, HostNext,
         HostCall, HostSent, HostAdvance
    <3>2. QED
      BY <3>1 DEF adapterVars
  <2>2. QED
    BY <2>1 DEF OnTime, ExitsAfterPoll, RunsWhileAwake, EdgeAtMost, JumpsForward
<1>7. QED
  BY <1>3, <1>4, <1>5, <1>6 DEF LinkNext, AdapterNext, PollActions
-----------------------------------------------------------------------------
(* The invariant of the link *)

LinkInv ==
  LinkTyped /\ ReadsCounted /\ DmaCounted /\ ImagesCounted /\ SwitchesInOrder /\ InOrder /\ OnTime

LEMMA LinkInvNext ==
  ASSUME LinkInv, LinkNext
  PROVE  LinkInv'
<1>1. LinkTyped /\ ReadsCounted /\ DmaCounted /\ ImagesCounted /\ SwitchesInOrder /\ InOrder /\ OnTime
  BY DEF LinkInv
<1>2. LinkTyped' /\ ReadsCounted' /\ DmaCounted' /\ ImagesCounted'
  BY <1>1, LinkTypedNext, ReadsCountedNext, DmaCountedNext, ImagesCountedNext
<1>3. SwitchesInOrder' /\ InOrder' /\ OnTime'
  BY <1>1, SwitchesInOrderNext, InOrderNext, OnTimeNext
<1>4. QED
  BY <1>2, <1>3 DEF LinkInv

LEMMA LinkInvStays ==
  ASSUME LinkInv, UNCHANGED linkVars
  PROVE  LinkInv'
<1>1. /\ UNCHANGED <<h2d, d2h, simbricks_time, in_timestamp, synchronized, pseudo_synchronized,
                     exiting, pc, stepped, num_adapters_ticked, reg_reads, reg_writes,
                     dma_reads, dma_writes>>
      /\ UNCHANGED <<to_commit, to_read, to_write, completed>>
      /\ UNCHANGED <<host_time, driver, submitted, fetched, host_dma>>
  BY DEF linkVars, adapterVars, acceleratorVars, hostVars
<1>2. LinkTyped'
  BY <1>1 DEF LinkInv, LinkTyped, StepsPaired
<1>3. ReadsCounted'
  BY <1>1 DEF LinkInv, ReadsCounted
<1>4. DmaCounted'
  BY <1>1 DEF LinkInv, DmaCounted, DmaPlaced, Pending
<1>5. ImagesCounted'
  BY <1>1 DEF LinkInv, ImagesCounted
<1>6. SwitchesInOrder'
  BY <1>1, SwitchesStay DEF LinkInv, SwitchesInOrder, LateAnswerFirst
<1>7. InOrder'
  BY <1>1 DEF LinkInv, InOrder, NotAhead, Announced, Sorted
<1>8. OnTime'
  BY <1>1 DEF LinkInv, OnTime, ExitsAfterPoll, RunsWhileAwake, EdgeAtMost, JumpsForward
<1>9. QED
  BY <1>2, <1>3, <1>4, <1>5, <1>6, <1>7, <1>8 DEF LinkInv

LEMMA LinkInvHolds == HostLinkSpec => []LinkInv
<1>1. HostLinkInit => LinkInv
  BY LinkTypedInit, ReadsCountedInit, DmaCountedInit, ImagesCountedInit, SwitchesInOrderInit,
     TimeInit DEF HostLinkInit, LinkInv
<1>2. LinkInv /\ [HostLinkNext]_HostLinkVars => LinkInv'
  BY LinkInvNext, LinkInvStays DEF HostLinkNext, Linked, HostLinkVars
<1>3. QED
  BY <1>1, <1>2, PTL DEF HostLinkSpec

(* The values of the link are of their types, at most one edge's second     *)
(* adapter is waited for, and never more completions are read and held than *)
(* images submitted (simbricks_tick, JpegGetResult).                        *)
THEOREM LinkIsTyped == HostLinkSpec => []LinkTypeOK
<1>1. LinkInv => LinkTypeOK
  BY LinkTypedMeans DEF LinkInv
<1>2. QED
  BY <1>1, LinkInvHolds, PTL

(* A register read of the driver is in one place until it is answered       *)
(* (h2d_read, read_done).                                                   *)
THEOREM ReadsAreNeitherLostNorDoubled == HostLinkSpec => []OneReadInFlight
<1>1. LinkInv => OneReadInFlight
  BY ReadsCountedMeans DEF LinkInv
<1>2. QED
  BY <1>1, LinkInvHolds, PTL

(* So is a DMA request, for every number of identifiers (do_read, do_write, *)
(* h2d_readcomp, h2d_writecomp).                                            *)
THEOREM DmaIsAnsweredOnce == HostLinkSpec => []DmaAnsweredOnce
<1>1. LinkInv => DmaAnsweredOnce
  BY DmaCountedMeans DEF LinkInv
<1>2. QED
  BY <1>1, LinkInvHolds, PTL

(* Only the late answer to a DMA request ends the simulator, never a        *)
(* register access that arrives while the clock is stopped (poll_h2d).      *)
THEOREM OnlyLateDmaAborts == HostLinkSpec => []AbortedByLateDma
<1>1. LinkInv => AbortedByLateDma
  BY DEF LinkInv, SwitchesInOrder, LateAnswerFirst, AbortedByLateDma
<1>2. QED
  BY <1>1, LinkInvHolds, PTL

(* A message is handled in the clock edge its time falls into               *)
(* (simbricks_sync_poll).                                                   *)
THEOREM MessagesAreOnTime == HostLinkSpec => HandledOnTime
<1> DEFINE Edge == synchronized /\ h2d # <<>> /\ h2d' = Tail(h2d) =>
                     /\ Head(h2d).ts <= simbricks_time
                     /\ simbricks_time < Head(h2d).ts + ClockPeriod
<1>1. LinkInv /\ [HostLinkNext]_HostLinkVars => [Edge]_HostLinkVars
  <2> SUFFICES ASSUME LinkInv, HostLinkNext, synchronized, h2d # <<>>, h2d' = Tail(h2d)
               PROVE  /\ Head(h2d).ts <= simbricks_time
                      /\ simbricks_time < Head(h2d).ts + ClockPeriod
    OBVIOUS
  <2>1. /\ h2d \in Seq(ToDevice) /\ Len(h2d') = Len(h2d) - 1 /\ Len(h2d) \in Nat
        /\ 1 \in 1..Len(h2d) /\ h2d[1] = Head(h2d)
    BY TakenOff DEF LinkInv, LinkTyped
  <2>2. h2d' # h2d
    <3> SUFFICES ASSUME h2d' = h2d
                 PROVE  FALSE
      OBVIOUS
    <3>1. PICK n \in Nat : n = Len(h2d) /\ n = n - 1
      BY <2>1
    <3>2. QED
      BY <3>1
  <2>3. LinkNext
    BY <2>2 DEF HostLinkNext, Linked, linkVars
  <2>4. PollActions
    <3>1. ASSUME HostCall
          PROVE  FALSE
      <4>1. PICK m \in ToDevice : h2d' = h2d \o <<m>>
        BY <3>1, HostSends DEF HostSent, LinkInv
      <4>2. QED
        BY <2>1, <4>1, PutBehind
    <3>2. ~SyncPoll
      BY <2>2 DEF SyncPoll
    <3>3. ~AxiAdapterStep /\ ~AxilAdapterStep
      BY <2>2 DEF AxiAdapterStep, AxilAdapterStep, Tick
    <3>4. ~AcceleratorNext /\ ~HostReceive /\ ~HostAdvance
      BY <2>2 DEF AcceleratorNext, StartDecode, PushCompletion, HostReceive, HostAdvance
    <3>5. QED
      BY <2>3, <3>1, <3>2, <3>3, <3>4 DEF LinkNext, AdapterNext, HostNext, HostCall, PollActions
  <2>5. Polled
    BY <2>2, <2>4, PollHandles DEF LinkInv, PollIdles
  <2>6. pc = "poll_h2d"
    BY <2>4 DEF PollActions, PollNothing, PollThrows, H2DRead, H2DWrite, H2DReadcomp,
       H2DWritecomp, H2DSync, H2DTerminate, Arrived
  <2>7. simbricks_time < in_timestamp + ClockPeriod /\ in_timestamp <= Head(h2d).ts
    BY <2>1, <2>6 DEF LinkInv, OnTime, EdgeAtMost, InOrder, Announced
  <2>8. QED
    BY <2>1, <2>5, <2>7, TimesAreNumbers DEF LinkInv, Polled
<1>2. QED
  BY <1>1, LinkInvHolds, PTL DEF HostLinkSpec, HandledOnTime

(* What a step does to the time and to the adapters that stepped. *)
LEMMA ClockSteps ==
  ASSUME LinkInv, [HostLinkNext]_HostLinkVars
  PROVE  \/ UNCHANGED <<simbricks_time, stepped>>
         \/ SyncPoll
         \/ \E adapter \in {"axi", "axil"} : Tick(adapter)
<1>1. UNCHANGED linkVars \/ LinkNext
  BY DEF HostLinkNext, Linked, HostLinkVars
<1>2. CASE UNCHANGED linkVars
  BY <1>2 DEF linkVars, adapterVars
<1>3. CASE PollActions
  BY <1>3 DEF PollActions, PollNothing, PollThrows, H2DRead, H2DWrite, H2DReadcomp,
     H2DWritecomp, H2DSync, H2DTerminate, PollEnds
<1>4. CASE AxiAdapterStep \/ AxilAdapterStep
  BY <1>4 DEF AxiAdapterStep, AxilAdapterStep
<1>5. CASE AcceleratorNext \/ HostNext
  <2>1. UNCHANGED adapterVars
    BY <1>5, HostSends, HostReceives DEF LinkInv, AcceleratorNext, StartDecode,
       PushCompletion, HostNext, HostCall, HostSent, HostAdvance
  <2>2. QED
    BY <2>1 DEF adapterVars
<1>6. QED
  BY <1>1, <1>2, <1>3, <1>4, <1>5 DEF LinkNext, AdapterNext, PollActions

(* The adapter's time never goes back, not even in a fast-forward           *)
(* (simbricks_sync_poll, simbricks_tick).                                   *)
THEOREM TimeNeverGoesBack == HostLinkSpec => TimeMonotone
<1>1. LinkInv /\ [HostLinkNext]_HostLinkVars => [simbricks_time' >= simbricks_time]_HostLinkVars
  <2> SUFFICES ASSUME LinkInv, [HostLinkNext]_HostLinkVars
               PROVE  simbricks_time' >= simbricks_time
    OBVIOUS
  <2>1. /\ simbricks_time \in Nat /\ in_timestamp \in Nat
        /\ ClockPeriod \in Nat /\ ClockPeriod > 0
    BY TimesAreNumbers DEF LinkInv
  <2>2. CASE SyncPoll
    BY <2>1, <2>2 DEF SyncPoll, LinkInv, OnTime, JumpsForward
  <2>3. ASSUME NEW adapter \in {"axi", "axil"}, Tick(adapter)
        PROVE  simbricks_time' >= simbricks_time
    BY <2>1, <2>3 DEF Tick
  <2>4. QED
    BY <2>1, <2>2, <2>3, ClockSteps
<1>2. QED
  BY <1>1, LinkInvHolds, PTL DEF HostLinkSpec, TimeMonotone

(* The accelerator has no clock edge while the simulation is switched off   *)
(* (simbricks_sync_poll does not return).                                   *)
THEOREM ClockStandsStill == HostLinkSpec => FrozenWhileQuiet
<1> DEFINE Frozen == stepped' # stepped => ~(synchronized /\ pseudo_synchronized) \/ exiting
<1>1. LinkInv /\ [HostLinkNext]_HostLinkVars => [Frozen]_HostLinkVars
  <2> SUFFICES ASSUME LinkInv, [HostLinkNext]_HostLinkVars, stepped' # stepped
               PROVE  ~(synchronized /\ pseudo_synchronized) \/ exiting
    OBVIOUS
  <2>1. ~SyncPoll
    BY DEF SyncPoll
  <2>2. pc = "adapters"
    BY <2>1, ClockSteps DEF Tick
  <2>3. QED
    BY <2>2 DEF LinkInv, OnTime, RunsWhileAwake
<1>2. QED
  BY <1>1, LinkInvHolds, PTL DEF HostLinkSpec, FrozenWhileQuiet
===============================================================================
