------------------------------- MODULE Startup -------------------------------
(***************************************************************************)
(* How jpeg_driver starts: main up to the creation of its threads, with    *)
(* vfio.cc, jpeg_dma.cc and the pool initialisation of jpeg_dma.hh.  Every *)
(* system call may fail; the steps of the main thread follow each other    *)
(* and each failure ends the process through the clean-up of its function. *)
(***************************************************************************)
EXTENDS Integers, Sequences, FiniteSets

CONSTANTS
  Slots,        \* kNumSlots of each pool
  SrcSize,      \* kSlotSizeBytes of SrcBufferPool
  DstSize,      \* kSlotSizeBytes of DstBufferPool
  Alignment,    \* kAlignmentBytes
  RegionSizes,  \* what udmabuf0/size may say
  PhysBases,    \* what udmabuf0/phys_addr may say
  Cores         \* what hardware_concurrency may return

ASSUME StartupAssumption ==
  /\ {Slots, SrcSize, DstSize, Alignment} \subseteq Nat \ {0}
  /\ RegionSizes \subseteq Nat /\ PhysBases \subseteq Nat /\ Cores \subseteq Nat

VARIABLES
  backend,      \* "vfio", "devmem" or "sw"
  step,         \* the next step of main, "started" or "failed"
  fds,          \* open file descriptors
  bus_master,   \* the device may access memory
  bars,         \* the BARs mapped into the process
  region,       \* [size, base] of the DMA buffer, or NoRegion
  dma_buf_off,  \* g_dma_buf_off
  slots,        \* the buffers of the source pool, then of the destination pool
  cpu_workers   \* CPU worker threads created

startupVars == <<backend, step, fds, bus_master, bars, region, dma_buf_off, slots, cpu_workers>>

NoRegion == [size |-> 0, base |-> 0]

StartupInit ==
  /\ backend \in {"vfio", "devmem", "sw"}
  /\ step = IF backend = "vfio" THEN "open_container"
            ELSE IF backend = "devmem" THEN "open_devmem" ELSE "init_pools"
  /\ fds = {}
  /\ bus_master = FALSE
  /\ bars = {}
  /\ region = NoRegion
  /\ dma_buf_off = 0
  /\ slots = <<>>
  /\ cpu_workers = 0

-----------------------------------------------------------------------------
(* A system call that succeeds opens and closes descriptors and leads to    *)
(* the next step; one that fails closes descriptors and ends the process.   *)
Call(name, next, opens, closes) ==
  /\ step = name
  /\ step' = next
  /\ fds' = (fds \union opens) \ closes

CallFails(name, closes) ==
  /\ step = name
  /\ step' = "failed"
  /\ fds' = fds \ closes

(* The labels of vfio_init; each falls through to the ones below it.        *)
ErrorCont == {"container"}

(* Mutant of ErrorGroup: does not fall through. *)
ErrorGroupOnly == {"group"}

ErrorGroup == ErrorCont \union {"group"}
ErrorDev == ErrorGroup \union {"device"}

VfioInitStep ==
  \/ Call("open_container", "check_api", {"container"}, {})
  \/ Call("check_api", "check_noiommu", {}, {})
  \/ Call("check_noiommu", "open_group", {}, {})
  \/ Call("open_group", "group_status", {"group"}, {})
  \/ Call("group_status", "set_container", {}, {})
  \/ Call("set_container", "set_iommu", {}, {})
  \/ Call("set_iommu", "get_device_fd", {}, {})
  \/ Call("get_device_fd", "device_info", {"device"}, {})
  \/ Call("device_info", "busmaster_enable", {}, {"group", "container"})

VfioInitFails ==
  \/ CallFails("open_container", {})
  \/ \E s \in {"check_api", "check_noiommu", "open_group"} : CallFails(s, ErrorCont)
  \/ \E s \in {"group_status", "set_container", "set_iommu", "get_device_fd"} :
        CallFails(s, ErrorGroup)
  \/ CallFails("device_info", ErrorDev)

VfioInit ==
  /\ VfioInitStep \/ VfioInitFails
  /\ UNCHANGED <<backend, bus_master, bars, region, dma_buf_off, slots, cpu_workers>>

(* init_vfio does not close the device when a later step fails.             *)
BusmasterEnable ==
  /\ \/ Call("busmaster_enable", "map_region_0", {}, {}) /\ bus_master' = TRUE
     \/ CallFails("busmaster_enable", {}) /\ UNCHANGED bus_master
  /\ UNCHANGED <<backend, bars, region, dma_buf_off, slots, cpu_workers>>

MapRegion ==
  /\ \/ Call("map_region_0", "map_region_1", {}, {}) /\ bars' = bars \union {0}
     \/ Call("map_region_1", "get_size", {}, {}) /\ bars' = bars \union {1}
     \/ (\E s \in {"map_region_0", "map_region_1"} : CallFails(s, {})) /\ UNCHANGED bars
  /\ UNCHANGED <<backend, bus_master, region, dma_buf_off, slots, cpu_workers>>

(* The registers of the simulation do not exist here: BAR 1 is a dummy.     *)
InitDevmem ==
  /\ \/ Call("open_devmem", "mmap_devmem", {"devmem"}, {}) /\ UNCHANGED bars
     \/ Call("mmap_devmem", "get_size", {}, {"devmem"}) /\ bars' = {0, 1}
     \/ CallFails("open_devmem", {}) /\ UNCHANGED bars
     \/ CallFails("mmap_devmem", {"devmem"}) /\ UNCHANGED bars
  /\ UNCHANGED <<backend, bus_master, region, dma_buf_off, slots, cpu_workers>>

(* The three attribute files, each opened, read and closed, then the buffer *)
(* itself.                                                                  *)
DmaBufInit ==
  /\ \/ \E size \in RegionSizes : /\ Call("get_size", "get_phys_addr", {}, {})
                                  /\ region' = [region EXCEPT !.size = size]
     \/ \E base \in PhysBases : /\ Call("get_phys_addr", "get_coherent", {}, {})
                                /\ region' = [region EXCEPT !.base = base]
     \/ /\ \/ Call("get_coherent", "open_udmabuf", {}, {})
           \/ Call("open_udmabuf", "get_sync", {"udmabuf"}, {})
           \/ Call("get_sync", "set_sync", {}, {})
           \/ Call("set_sync", "mmap_udmabuf", {}, {})
           \/ Call("mmap_udmabuf", "init_pools", {}, {"udmabuf"})
           \/ \E s \in {"get_size", "get_phys_addr", "get_coherent", "open_udmabuf"} :
                 CallFails(s, {})
           \/ \E s \in {"get_sync", "set_sync", "mmap_udmabuf"} : CallFails(s, {"udmabuf"})
        /\ UNCHANGED region
  /\ UNCHANGED <<backend, bus_master, bars, dma_buf_off, slots, cpu_workers>>

-----------------------------------------------------------------------------
(* Mutant of AlignUp: rounds down. *)
AlignDown(value, alignment) == (value \div alignment) * alignment

AlignUp(value, alignment) == ((value + alignment - 1) \div alignment) * alignment

NextSize == IF Len(slots) < Slots THEN SrcSize ELSE DstSize

(* Mutant of PoolsComplete: forgets the last slot. *)
PoolsNearlyComplete == Len(slots) >= 2 * Slots - 1

PoolsComplete == Len(slots) = 2 * Slots

(* DmaBufAllocAligned for the next slot of InitDmaBufferPool: refuse a base *)
(* that is not aligned or a region that is used up, else take the next      *)
(* aligned offset.                                                          *)
DmaBufAllocAligned ==
  LET aligned_off == AlignUp(dma_buf_off, Alignment)
  IN /\ step = "init_pools" /\ backend # "sw" /\ ~PoolsComplete
     /\ IF region.base % Alignment # 0 \/ aligned_off + NextSize > region.size
        THEN step' = "failed" /\ UNCHANGED <<slots, dma_buf_off>>
        ELSE /\ slots' = Append(slots, [off |-> aligned_off, size |-> NextSize])
             /\ dma_buf_off' = aligned_off + NextSize
             /\ UNCHANGED step
     /\ UNCHANGED <<backend, fds, bus_master, bars, region, cpu_workers>>

(* InitMallocBufferPool: posix_memalign returns memory of its own, or fails. *)
MallocSlot ==
  /\ step = "init_pools" /\ backend = "sw" /\ ~PoolsComplete
  /\ \/ /\ slots' = Append(slots, [off |-> AlignUp(dma_buf_off, Alignment), size |-> NextSize])
        /\ dma_buf_off' = AlignUp(dma_buf_off, Alignment) + NextSize
        /\ UNCHANGED step
     \/ step' = "failed" /\ UNCHANGED <<slots, dma_buf_off>>
  /\ UNCHANGED <<backend, fds, bus_master, bars, region, cpu_workers>>

(* Task identifiers have 16 bits: more images are refused.                  *)
CheckImages ==
  /\ step = "init_pools" /\ PoolsComplete
  /\ step' \in {"start_threads", "failed"}
  /\ UNCHANGED <<backend, fds, bus_master, bars, region, dma_buf_off, slots, cpu_workers>>

(* One CPU worker per core; the hardware manager takes one of the cores.    *)
StartThreads ==
  /\ step = "start_threads"
  /\ \E cores \in Cores :
       LET known == IF cores = 0 THEN 1 ELSE cores
       IN cpu_workers' = IF backend # "sw" /\ known > 1 THEN known - 1 ELSE known
  /\ step' = "started"
  /\ UNCHANGED <<backend, fds, bus_master, bars, region, dma_buf_off, slots>>

StartupNext ==
  \/ VfioInit \/ BusmasterEnable \/ MapRegion \/ InitDevmem \/ DmaBufInit
  \/ DmaBufAllocAligned \/ MallocSlot \/ CheckImages \/ StartThreads

=============================================================================
