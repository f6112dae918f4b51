------------------------- MODULE SimbricksProperties -------------------------
(***************************************************************************)
(* The driver process on a simulated host: it starts, and with the VFIO    *)
(* backend then drives the accelerator behind the SimBricks link.  Until   *)
(* the driver runs, the adapter only follows the time of the host, so the  *)
(* link is modelled from the moment the driver's threads start.            *)
(***************************************************************************)
EXTENDS Startup, Simbricks

Linked(A) == step = "started" /\ backend = "vfio" /\ A /\ UNCHANGED startupVars

HostLinkVars == <<startupVars, linkVars>>

HostLinkNext ==
  \/ StartupNext /\ UNCHANGED linkVars
  \/ Linked(LinkNext)

HostLinkInit == StartupInit /\ LinkInit

HostLinkSpec == HostLinkInit /\ [][HostLinkNext]_HostLinkVars

(* The two simulators are processes that keep running; nothing makes the    *)
(* driver or the accelerator act.                                           *)
HostLinkFairSpec ==
  /\ HostLinkSpec
  /\ WF_HostLinkVars(Linked(AdapterNext))
  /\ WF_HostLinkVars(Linked(HostSync))
  /\ WF_HostLinkVars(Linked(HostReceive))
  /\ WF_HostLinkVars(Linked(HostAdvance))

-----------------------------------------------------------------------------
(* The buffers of the two pools lie inside the DMA region, at multiples of  *)
(* 128 bytes, and no two of them share a byte: the accelerator writes an    *)
(* image into the buffer of its descriptor and nowhere else                 *)
(* (DmaBufAllocAligned, InitDmaBufferPool).                                 *)
SlotsDisjoint ==
  \A i \in 1..Len(slots) :
    /\ slots[i].off % Alignment = 0
    /\ backend # "sw" => slots[i].off + slots[i].size <= region.size
    /\ \A j \in 1..Len(slots) :
         i < j => slots[i].off + slots[i].size <= slots[j].off

(* When the threads start, every slot both pools count has a buffer of its  *)
(* size, the registers are mapped, the device may master the bus if VFIO    *)
(* hands it over, and there is a worker to take jobs: no failed call is     *)
(* passed over (the early returns of main, init_vfio and init_devmem).      *)
StartedReady ==
  step = "started" =>
    /\ Len(slots) = 2 * Slots
    /\ \A i \in 1..(2 * Slots) : slots[i].size = (IF i <= Slots THEN SrcSize ELSE DstSize)
    /\ backend # "sw" => bars = {0, 1} /\ region.base % Alignment = 0
    /\ backend = "vfio" => bus_master
    /\ cpu_workers >= 1

(* However start-up ends, the only descriptor left open is that of the VFIO *)
(* device, whose mappings are in use: the labels of vfio_init and the       *)
(* early returns of DmaBufInit close the others.                            *)
NoDescriptorLeft ==
  step \in {"started", "failed"} =>
    /\ fds \subseteq {"device"}
    /\ backend # "vfio" => fds = {}

-----------------------------------------------------------------------------
(* Type invariant of the link. *)
LinkTypeOK ==
  /\ pc \in {"sync_poll", "poll_h2d", "adapters", "finished", "aborted"}
  /\ num_adapters_ticked = Cardinality(stepped) /\ stepped \subseteq {"axi", "axil"}
  /\ Len(h2d) <= QueueLen /\ Len(d2h) <= QueueLen
  /\ dma_reads \union dma_writes \subseteq 1..MaxPending
  /\ driver \in {"off", "running", "reading", "done", "terminated"}
  /\ fetched + completed <= submitted
  /\ host_time \in 0..EndOfTime

CountOf(queue, type) == Cardinality({i \in 1..Len(queue) : queue[i].type = type})
CountOfDma(queue, type, id) ==
  Cardinality({i \in 1..Len(queue) : queue[i].type = type /\ queue[i].val = id})

(* While the driver waits for a register, its read is in one place: on its  *)
(* way, at the register bus, or on its way back.  Otherwise there is none:  *)
(* a completion is popped once for each entry the driver sees (h2d_read,    *)
(* JpegAXILManager::read_done).                                             *)
OneReadInFlight ==
  CountOf(h2d, "READ") + reg_reads + CountOf(d2h, "READCOMP")
    = (IF driver = "reading" THEN 1 ELSE 0)

(* Every DMA request the adapter counts as pending is in one place, and no  *)
(* answer is on its way that it does not wait for (do_read, do_write,       *)
(* h2d_readcomp, h2d_writecomp).                                            *)
Answer(kind) == IF kind = "READ" THEN "READCOMP" ELSE "WRITECOMP"
Pending(kind) == IF kind = "READ" THEN dma_reads ELSE dma_writes

DmaAnsweredOnce ==
  \A id \in 1..MaxPending, kind \in {"READ", "WRITE"} :
    CountOfDma(d2h, kind, id)
      + (IF [type |-> kind, id |-> id] \in host_dma THEN 1 ELSE 0)
      + CountOfDma(h2d, Answer(kind), id)
    = (IF id \in Pending(kind) THEN 1 ELSE 0)

(* The exception for traffic during pseudo-synchronization is never thrown  *)
(* on a register access: the driver's accesses lie between its two writes   *)
(* of simulation_enabled, and the link keeps that order.  Only the answer   *)
(* to a DMA request that outlived them can be its cause.                    *)
AbortedByLateDma ==
  pc = "aborted" => Head(h2d).type \in {"READCOMP", "WRITECOMP"}

(* A message is handled in the clock edge its time falls into: neither      *)
(* ahead of its time nor an edge late (simbricks_sync_poll).                *)
HandledOnTime ==
  [][synchronized /\ h2d # <<>> /\ h2d' = Tail(h2d) =>
       /\ Head(h2d).ts <= simbricks_time
       /\ simbricks_time < Head(h2d).ts + ClockPeriod]_HostLinkVars

(* The time of the adapter never goes back, though each fast-forward sets   *)
(* it to the timestamp of a message.                                        *)
TimeMonotone == [][simbricks_time' >= simbricks_time]_HostLinkVars

(* The accelerator has no clock edge while its clock is stopped.            *)
FrozenWhileQuiet ==
  [][stepped' # stepped => ~(synchronized /\ pseudo_synchronized) \/ exiting]_HostLinkVars

(* Neither side waits for the other for ever: the host reaches the end of   *)
(* its time unless it stops, and then the simulator of the accelerator      *)
(* stops as well (TERMINATE, simbricks_is_exit).                            *)
TimeGoesOn ==
  synchronized /\ step = "started" /\ backend = "vfio"
    ~> (host_time = EndOfTime \/ pc \in {"finished", "aborted"})

(* Switching the simulation off behind the last image does not stop the     *)
(* simulator: "This feature is meant to speed up simulation while the       *)
(* software doesn't touch the accelerator" (verilator_adapter.cc:450).      *)
QuietAfterLastImage == pc = "aborted" => fetched < Jobs
=============================================================================
