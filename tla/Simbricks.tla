------------------------------ MODULE Simbricks ------------------------------
(***************************************************************************)
(* src_simbricks: the Verilated accelerator as a PCIe device of a          *)
(* simulated host.  Two in-order queues of timestamped messages join them; *)
(* each side may run ahead only as far as the other's messages reach.      *)
(*                                                                         *)
(* Time is synchronised while the accelerator is used.  With               *)
(* "pseudo-synchronization" the clock of the accelerator stands still and  *)
(* the adapter jumps from one host message to the next; the driver turns   *)
(* it off and on through BAR 1 (simulation_enabled).                       *)
(*                                                                         *)
(* The SimBricks library and the host simulator are not part of the        *)
(* repository: their side is modelled from the calls the adapter makes.    *)
(***************************************************************************)
EXTENDS Integers, Sequences, FiniteSets

CONSTANTS
  ClockPeriod,    \* clock_period
  LinkLatency,    \* if_params.link_latency
  SyncInterval,   \* if_params.sync_interval
  QueueLen,       \* messages a queue holds
  MaxPending,     \* DMA requests of each kind in flight; 16 in the adapter
  Jobs,           \* images the driver submits
  ReadsPerJob,    \* DMA reads of an image, the last ones behind its end
  EndOfTime       \* the host stops its simulation at this time, or before

ASSUME SimbricksAssumption ==
  /\ {ClockPeriod, LinkLatency, SyncInterval, QueueLen, MaxPending, EndOfTime} \subseteq Nat \ {0}
  /\ SyncInterval <= LinkLatency
  /\ {Jobs, ReadsPerJob} \subseteq Nat

VARIABLES
  h2d, d2h,             \* the two queues
  simbricks_time,       \* hardware_time is only printed and is left out
  in_timestamp,         \* SimbricksPcieIfH2DInTimestamp
  d2h_sent,             \* when the adapter last sent a message
  synchronized, pseudo_synchronized, exiting,
  pc,                   \* where the adapter is in a clock edge
  stepped,              \* adapters that stepped in this clock edge
  num_adapters_ticked,
  reg_reads, reg_writes, \* AXI-Lite operations not done yet
  dma_reads, dma_writes  \* DMA requests without an answer

adapterVars == <<simbricks_time, in_timestamp, d2h_sent, synchronized,
                 pseudo_synchronized, exiting, pc, stepped, num_adapters_ticked,
                 reg_reads, reg_writes, dma_reads, dma_writes>>

VARIABLES
  to_commit,  \* descriptors the accelerator holds
  to_read,    \* DMA reads the running job has still to issue
  to_write,   \* "none", "todo", "sent": the DMA write of its image
  completed   \* completions in the FIFO of the accelerator

acceleratorVars == <<to_commit, to_read, to_write, completed>>

VARIABLES
  host_time, host_horizon, h2d_sent,
  driver,     \* where the driver is: see the section on the host
  submitted, fetched,   \* images submitted, completions read
  host_dma    \* DMA requests the host has not answered

hostVars == <<host_time, host_horizon, h2d_sent, driver, submitted, fetched, host_dma>>
linkVars == <<h2d, d2h, adapterVars, acceleratorVars, hostVars>>

LinkInit ==
  /\ h2d = <<>> /\ d2h = <<>>
  /\ simbricks_time = 0 /\ in_timestamp = 0 /\ d2h_sent = -SyncInterval
  /\ synchronized \in BOOLEAN
  /\ pseudo_synchronized = TRUE
  /\ exiting = FALSE
  /\ pc = "sync_poll" /\ stepped = {} /\ num_adapters_ticked = 0
  /\ reg_reads = 0 /\ reg_writes = <<>>
  /\ dma_reads = {} /\ dma_writes = {}
  /\ to_commit = 0 /\ to_read = 0 /\ to_write = "none" /\ completed = 0
  /\ host_time = 0 /\ host_horizon = 0 /\ h2d_sent = -SyncInterval
  /\ driver = "off" /\ submitted = 0 /\ fetched = 0
  /\ host_dma = {}

-----------------------------------------------------------------------------
(* The library: a message sent at time t arrives at t + LinkLatency; a      *)
(* message waits while the queue is full (d2h_alloc spins).                 *)
Message(type, val, t) == [type |-> type, val |-> val, ts |-> t + LinkLatency]

D2HOutSend(messages) ==
  /\ Len(d2h) + Len(messages) <= QueueLen
  /\ d2h' = d2h \o messages
  /\ d2h_sent' = IF messages = <<>> THEN d2h_sent ELSE simbricks_time

(* SimbricksPcieIfD2HOutSync sends when SyncInterval has passed; its mutant  *)
(* never does.                                                              *)
SyncNeverDue(now) == FALSE
SyncDue(now) == synchronized /\ now - d2h_sent >= SyncInterval

(* The top of the loop of simbricks_sync_poll: fast-forward to the next     *)
(* message of the host, and send a SYNC when one is due.                    *)
SyncPoll ==
  LET now == IF synchronized /\ pseudo_synchronized THEN in_timestamp ELSE simbricks_time
  IN /\ pc = "sync_poll"
     /\ simbricks_time' = now
     /\ IF SyncDue(now)
        THEN /\ Len(d2h) < QueueLen
             /\ d2h' = Append(d2h, Message("SYNC", 0, now))
             /\ d2h_sent' = now
        ELSE UNCHANGED <<d2h, d2h_sent>>
     /\ pc' = "poll_h2d"
     /\ UNCHANGED <<h2d, in_timestamp, synchronized, pseudo_synchronized,
                    exiting, stepped, num_adapters_ticked, reg_reads, reg_writes,
                    dma_reads, dma_writes, acceleratorVars, hostVars>>

(* The conditions of the inner and the outer loop of simbricks_sync_poll    *)
(* after a poll, and a mutant that does not loop.                           *)
LoopsOnce == FALSE
MessagesDue == synchronized /\ in_timestamp' <= simbricks_time
FastForwards == synchronized /\ pseudo_synchronized'

PollEnds ==
  /\ pc' = IF exiting' THEN "adapters"
           ELSE IF MessagesDue THEN "poll_h2d"
           ELSE IF FastForwards THEN "sync_poll"
           ELSE "adapters"
  /\ UNCHANGED <<simbricks_time, synchronized, stepped,
                 num_adapters_ticked, acceleratorVars, hostVars>>

(* SimbricksPcieIfH2DInPoll finds nothing to handle yet. *)
PollNothing ==
  /\ pc = "poll_h2d"
  /\ h2d # <<>> => synchronized /\ Head(h2d).ts > simbricks_time
  /\ in_timestamp' = IF h2d = <<>> THEN in_timestamp ELSE Head(h2d).ts
  /\ UNCHANGED <<h2d, d2h, d2h_sent, pseudo_synchronized, exiting, reg_reads, reg_writes,
                 dma_reads, dma_writes>>
  /\ PollEnds

(* A message the adapter throws on: the accelerator stands still, so it can *)
(* take neither a register access nor the answer to a DMA request.          *)
Throws(m) ==
  /\ synchronized /\ pseudo_synchronized
  /\ \/ m.type \in {"READ", "READCOMP", "WRITECOMP"}
     \/ m.type = "WRITE" /\ m.val.bar = 0

(* poll_h2d up to its switch: take a message of this type off the queue.    *)
Arrived(type) ==
  /\ pc = "poll_h2d"
  /\ h2d # <<>>
  /\ Head(h2d).type = type
  /\ synchronized => Head(h2d).ts <= simbricks_time
  /\ ~Throws(Head(h2d))
  /\ in_timestamp' = Head(h2d).ts
  /\ h2d' = Tail(h2d)

(* The exception passes through the DPI function and ends the simulator.    *)
PollThrows ==
  /\ pc = "poll_h2d"
  /\ h2d # <<>>
  /\ synchronized => Head(h2d).ts <= simbricks_time
  /\ Throws(Head(h2d))
  /\ pc' = "aborted"
  /\ UNCHANGED <<h2d, d2h, simbricks_time, in_timestamp, d2h_sent,
                 synchronized, pseudo_synchronized, exiting, stepped, num_adapters_ticked,
                 reg_reads, reg_writes, dma_reads, dma_writes, acceleratorVars, hostVars>>

(* Mutant of H2DRead: the read is not issued. *)
H2DReadIgnored ==
  /\ Arrived("READ")
  /\ UNCHANGED <<d2h, d2h_sent, pseudo_synchronized, exiting, reg_reads, reg_writes, dma_reads,
                 dma_writes>>
  /\ PollEnds

H2DRead ==
  /\ Arrived("READ")
  /\ reg_reads' = reg_reads + 1
  /\ UNCHANGED <<d2h, d2h_sent, pseudo_synchronized, exiting, reg_writes, dma_reads,
                 dma_writes>>
  /\ PollEnds

(* BAR 0 goes to the accelerator, BAR 1 switches pseudo-synchronization.    *)
(* A non-posted write is answered at once, whether or not it is done.  The  *)
(* driver writes no other BAR, and of BAR 1 only the word at offset 0: the  *)
(* throw for other places of BAR 1 (:292) and the error for other BARs,     *)
(* which leaves the message in the queue (:264, :320), are not met.         *)
H2DWrite ==
  LET w == Head(h2d).val
  IN /\ Arrived("WRITE")
     /\ reg_writes' = IF w.bar = 0 THEN Append(reg_writes, w) ELSE reg_writes
     /\ pseudo_synchronized' = IF w.bar = 1 THEN w.data = 0 ELSE pseudo_synchronized
     /\ D2HOutSend(IF w.posted THEN <<>> ELSE <<Message("WRITECOMP", 0, simbricks_time)>>)
     /\ UNCHANGED <<exiting, reg_reads, dma_reads, dma_writes>>
     /\ PollEnds

H2DReadcomp ==
  /\ Arrived("READCOMP")
  /\ dma_reads' = dma_reads \ {Head(h2d).val}
  /\ UNCHANGED <<d2h, d2h_sent, pseudo_synchronized, exiting, reg_reads, reg_writes,
                 dma_writes>>
  /\ PollEnds

H2DWritecomp ==
  /\ Arrived("WRITECOMP")
  /\ dma_writes' = dma_writes \ {Head(h2d).val}
  /\ UNCHANGED <<d2h, d2h_sent, pseudo_synchronized, exiting, reg_reads, reg_writes,
                 dma_reads>>
  /\ PollEnds

H2DSync ==
  /\ Arrived("SYNC")
  /\ UNCHANGED <<d2h, d2h_sent, pseudo_synchronized, exiting, reg_reads, reg_writes,
                 dma_reads, dma_writes>>
  /\ PollEnds

H2DTerminate ==
  /\ Arrived("TERMINATE")
  /\ exiting' = TRUE
  /\ UNCHANGED <<d2h, d2h_sent, pseudo_synchronized, reg_reads, reg_writes, dma_reads,
                 dma_writes>>
  /\ PollEnds

-----------------------------------------------------------------------------
(* simbricks_tick: the last adapter of a clock edge advances the clock.     *)
(* Nobody reads the time of a link that is not synchronised: it stays 0.    *)
(* Mutants: the counter is not reset, every adapter advances the clock.     *)
TickedNoReset == num_adapters_ticked + 1
Ticked == (num_adapters_ticked + 1) % 2
TimeAlwaysAdvances == synchronized
TimeAdvances == synchronized /\ Ticked = 0

Tick(adapter) ==
  /\ pc = "adapters"
  /\ adapter \notin stepped
  /\ num_adapters_ticked' = Ticked
  /\ simbricks_time' = IF TimeAdvances THEN simbricks_time + ClockPeriod ELSE simbricks_time
  /\ stepped' = IF stepped = {} THEN {adapter} ELSE {}
  /\ pc' = IF Ticked > 0 THEN "adapters"
           ELSE IF exiting THEN "finished" ELSE "sync_poll"
  /\ UNCHANGED <<h2d, in_timestamp, synchronized, pseudo_synchronized, exiting>>

(* The requests the accelerator may put on the AXI bus in this clock.       *)
MayRead == to_read > 0 /\ Cardinality(dma_reads) < MaxPending
MayWrite == to_write = "todo" /\ Cardinality(dma_writes) < MaxPending

(* Mutant of FreeId: one identifier for all requests. *)
FreeIdSame(pending) == 1

FreeId(pending) == CHOOSE id \in 1..MaxPending : id \notin pending

(* s_axi_adapter_step: hand new requests of the accelerator to the host.    *)
AxiAdapterStep ==
  \E read, write \in BOOLEAN :
    /\ read => MayRead
    /\ write => MayWrite
    /\ D2HOutSend((IF read THEN <<Message("READ", FreeId(dma_reads), simbricks_time)>> ELSE <<>>)
                  \o (IF write THEN <<Message("WRITE", FreeId(dma_writes), simbricks_time)>>
                      ELSE <<>>))
    /\ dma_reads' = IF read THEN dma_reads \union {FreeId(dma_reads)} ELSE dma_reads
    /\ dma_writes' = IF write THEN dma_writes \union {FreeId(dma_writes)} ELSE dma_writes
    /\ to_read' = IF read THEN to_read - 1 ELSE to_read
    /\ to_write' = IF write THEN "sent" ELSE to_write
    /\ Tick("axi")
    /\ UNCHANGED <<reg_reads, reg_writes, to_commit, completed, hostVars>>

(* m_axil_adapter_step: operations done on the register bus are answered;   *)
(* reads and writes have channels of their own.                             *)
AxilAdapterStep ==
  \E read, write \in BOOLEAN :
    /\ read => reg_reads > 0
    /\ write => reg_writes # <<>>
    /\ D2HOutSend((IF read THEN <<Message("READCOMP", completed > 0, simbricks_time)>> ELSE <<>>)
                  \o (IF write /\ ~Head(reg_writes).posted
                      THEN <<Message("WRITECOMP", 0, simbricks_time)>> ELSE <<>>))
    /\ reg_reads' = IF read THEN reg_reads - 1 ELSE reg_reads
    /\ completed' = IF read /\ completed > 0 THEN completed - 1 ELSE completed
    /\ reg_writes' = IF write THEN Tail(reg_writes) ELSE reg_writes
    /\ to_commit' = IF write THEN to_commit + 1 ELSE to_commit
    /\ Tick("axil")
    /\ UNCHANGED <<dma_reads, dma_writes, to_read, to_write, hostVars>>

(* The accelerator between two steps of its adapters: a decoder takes the   *)
(* next descriptor once the last one has been read to its end ...  The DMA  *)
(* of one of jpeg_top's decoder slots is modelled; what several slots do to *)
(* each other is in JpegTop.                                                *)
StartDecode ==
  /\ pc = "adapters"
  /\ to_commit > 0
  /\ to_read = 0 /\ to_write = "none" /\ dma_reads = {}
  /\ to_commit' = to_commit - 1
  /\ to_read' = ReadsPerJob
  /\ to_write' = "todo"
  /\ UNCHANGED <<h2d, d2h, adapterVars, completed, hostVars>>

(* ... and the status of the last write pushes the completion, even when    *)
(* bytes of the file behind the image are still being read.                 *)
PushCompletion ==
  /\ pc = "adapters"
  /\ to_write = "sent" /\ dma_writes = {}
  /\ to_write' = "none"
  /\ completed' = completed + 1
  /\ UNCHANGED <<h2d, d2h, adapterVars, to_commit, to_read, hostVars>>

-----------------------------------------------------------------------------
(* The host: the driver's hardware manager, the memory that answers DMA     *)
(* requests, and the simulator that runs them.  The driver is "off",        *)
(* "running", "reading" (waits for a register), "done" or "terminated".     *)
HostSend(messages) ==
  /\ driver # "terminated"
  /\ Len(h2d) < QueueLen
  /\ h2d' = h2d \o messages
  /\ h2d_sent' = host_time
  /\ UNCHANGED <<d2h, adapterVars, acceleratorVars, host_time, host_horizon>>

RegisterWrite(bar, data, posted) ==
  <<Message("WRITE", [bar |-> bar, data |-> data, posted |-> posted], host_time)>>

(* Mutant of EnableSimulation: the driver does not touch BAR 1. *)
EnableNothing ==
  /\ driver = "off"
  /\ driver' = "running"
  /\ UNCHANGED <<h2d, d2h, adapterVars, acceleratorVars, host_time, host_horizon, h2d_sent,
                 submitted, fetched, host_dma>>

EnableSimulation ==
  /\ driver = "off"
  /\ \E posted \in BOOLEAN : HostSend(RegisterWrite(1, 1, posted))
  /\ driver' = "running"
  /\ UNCHANGED <<submitted, fetched, host_dma>>

(* The five descriptor registers, as their commit. *)
SubmitDescriptor ==
  /\ driver = "running"
  /\ submitted < Jobs
  /\ \E posted \in BOOLEAN : HostSend(RegisterWrite(0, 1, posted))
  /\ submitted' = submitted + 1
  /\ UNCHANGED <<driver, fetched, host_dma>>

ReadCompletion ==
  /\ driver = "running"
  /\ fetched < Jobs
  /\ HostSend(<<Message("READ", 0, host_time)>>)
  /\ driver' = "reading"
  /\ UNCHANGED <<submitted, fetched, host_dma>>

(* All images are decoded, or the driver failed. *)
DisableSimulation ==
  /\ driver = "running"
  /\ \E posted \in BOOLEAN : HostSend(RegisterWrite(1, 0, posted))
  /\ driver' = "done"
  /\ UNCHANGED <<submitted, fetched, host_dma>>

AnswerDma ==
  \E r \in host_dma :
    /\ HostSend(<<Message(IF r.type = "READ" THEN "READCOMP" ELSE "WRITECOMP", r.id, host_time)>>)
    /\ host_dma' = host_dma \ {r}
    /\ UNCHANGED <<driver, submitted, fetched>>

(* A side that is synchronised sends at least every SyncInterval.           *)
HostSync ==
  /\ synchronized
  /\ host_time - h2d_sent >= SyncInterval
  /\ HostSend(<<Message("SYNC", 0, host_time)>>)
  /\ UNCHANGED <<driver, submitted, fetched, host_dma>>

HostTerminate ==
  /\ driver # "reading"
  /\ HostSend(<<Message("TERMINATE", 0, host_time)>>)
  /\ driver' = "terminated"
  /\ UNCHANGED <<submitted, fetched, host_dma>>

(* An assumption on the host: after TERMINATE it goes on taking messages.   *)
(* The adapter waits for room in the queue (:89) and for its SYNC (:458)    *)
(* without looking at exiting, and would not end otherwise; TimeGoesOn      *)
(* rests on this.                                                           *)
HostReceive ==
  /\ d2h # <<>>
  /\ synchronized /\ driver # "terminated" => Head(d2h).ts <= host_time
  /\ d2h' = Tail(d2h)
  /\ host_horizon' = Head(d2h).ts
  /\ LET m == Head(d2h)
     IN /\ host_dma' = IF m.type \in {"READ", "WRITE"}
                       THEN host_dma \union {[type |-> m.type, id |-> m.val]} ELSE host_dma
        /\ driver' = IF m.type = "READCOMP" THEN "running" ELSE driver
        /\ fetched' = IF m.type = "READCOMP" /\ m.val THEN fetched + 1 ELSE fetched
  /\ UNCHANGED <<h2d, adapterVars, acceleratorVars, host_time, h2d_sent, submitted>>

(* The host runs ahead to the next message that is announced, no further.   *)
HostAdvance ==
  /\ synchronized
  /\ driver # "terminated"
  /\ host_time < EndOfTime
  /\ host_time - h2d_sent < SyncInterval
  /\ host_time < (IF d2h = <<>> THEN host_horizon ELSE Head(d2h).ts)
  /\ host_time' = host_time + 1
  /\ UNCHANGED <<h2d, d2h, adapterVars, acceleratorVars, host_horizon, h2d_sent, driver,
                 submitted, fetched, host_dma>>

-----------------------------------------------------------------------------
AdapterNext ==
  \/ SyncPoll \/ PollNothing \/ PollThrows
  \/ H2DRead \/ H2DWrite \/ H2DReadcomp \/ H2DWritecomp \/ H2DSync \/ H2DTerminate
  \/ AxiAdapterStep \/ AxilAdapterStep

AcceleratorNext == StartDecode \/ PushCompletion

HostNext ==
  \/ EnableSimulation \/ SubmitDescriptor \/ ReadCompletion \/ DisableSimulation
  \/ AnswerDma \/ HostSync \/ HostTerminate \/ HostReceive \/ HostAdvance

LinkNext == AdapterNext \/ AcceleratorNext \/ HostNext

=============================================================================
