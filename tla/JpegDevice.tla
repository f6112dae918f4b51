------------------------------ MODULE JpegDevice ------------------------------
(***************************************************************************)
(* What the accelerator of src_v/jpeg_top.sv promises the driver, clock    *)
(* cycles left out: descriptor registers, a descriptor FIFO, a slot per    *)
(* decoder core, and a completion FIFO of the same depth as the descriptor *)
(* FIFO.  Each action is one MMIO access or one event of a slot.           *)
(*                                                                         *)
(* The completion FIFO has no back pressure: a slot that finishes while it *)
(* is full loses its completion.                                           *)
(***************************************************************************)
EXTENDS Integers, Sequences, FiniteSets

CONSTANTS
  Decoders,       \* 0..JPEG_NUM_DECODERS-1
  DescFifoDepth,  \* 2^DESC_FIFO_DEPTH_LOG2, the depth of both FIFOs
  Descriptors,    \* the values a descriptor can take: [id, src, dst]
  NoDesc          \* no descriptor: a register or slot never written

ASSUME DeviceAssumption ==
  /\ DescFifoDepth \in Nat \ {0}
  /\ NoDesc \notin Descriptors

(* SLOT_DRAIN is SLOT_RUN with every pixel written and source bytes still   *)
(* to be read; SLOT_RESET is SLOT_RESET_PULSE and SLOT_RESET_HOLD.          *)
(* SLOT_STUCK is SLOT_RUN over the zeroed descriptor of a reset: nothing is *)
(* read, no dimensions come, and only another reset ends it.                *)
SlotStates == {"SLOT_IDLE", "SLOT_RUN", "SLOT_DRAIN", "SLOT_RESET", "SLOT_STUCK"}

VARIABLES
  mmio_desc,   \* the four mmio_desc_*_reg registers
  desc_fifo,
  cpl_fifo,    \* the descriptors whose completions are queued
  slot_state,
  slot_task    \* task_id, task_src_addr, task_dst_addr of each slot

deviceVars == <<mmio_desc, desc_fifo, cpl_fifo, slot_state, slot_task>>

DeviceInit ==
  /\ mmio_desc = NoDesc
  /\ desc_fifo = <<>>
  /\ cpl_fifo = <<>>
  /\ slot_state = [d \in Decoders |-> "SLOT_IDLE"]
  /\ slot_task = [d \in Decoders |-> NoDesc]

(* The state of a device that has run before: anything a program may have   *)
(* left in the FIFOs and the slots when it exited.                          *)
DeviceLeftOver(stale) ==
  /\ mmio_desc = stale
  /\ desc_fifo \in {<<>>, <<stale>>}
  /\ cpl_fifo \in {<<>>, <<stale>>}
  /\ slot_state \in [Decoders -> SlotStates]
  /\ \A d, e \in Decoders :
       slot_state[d] = "SLOT_STUCK" /\ slot_state[e] = "SLOT_STUCK" => d = e
  /\ slot_task = [d \in Decoders |-> stale]

(* Writes of RegDescRscAddr, RegDescSrcLen, RegDescDstAddr and RegDescId.   *)
WriteDescriptor(d) ==
  /\ mmio_desc' = d
  /\ UNCHANGED <<desc_fifo, cpl_fifo, slot_state, slot_task>>

DescNumFree == DescFifoDepth - Len(desc_fifo)

(* Mutant of DescCommit: takes the last free entry for none. *)
DescCommitOffByOne ==
  /\ desc_fifo' = IF DescNumFree > 1 THEN Append(desc_fifo, mmio_desc) ELSE desc_fifo
  /\ UNCHANGED <<mmio_desc, cpl_fifo, slot_state, slot_task>>

(* A write of RegDescCommit; a full FIFO drops the descriptor. *)
DescCommit ==
  /\ desc_fifo' = IF DescNumFree > 0 THEN Append(desc_fifo, mmio_desc) ELSE desc_fifo
  /\ UNCHANGED <<mmio_desc, cpl_fifo, slot_state, slot_task>>

(* A read of RegCplStatus pops the entry it returns; an empty FIFO reads 0. *)
PopCompletion ==
  /\ cpl_fifo # <<>>
  /\ cpl_fifo' = Tail(cpl_fifo)
  /\ UNCHANGED <<mmio_desc, desc_fifo, slot_state, slot_task>>

(* A nonzero write of RegReset: everything but the registers starts afresh. *)
(* desc_assign has no reset: an idle slot that was being given a descriptor *)
(* then starts on nothing.  jpeg_top chooses the lowest idle slot; any idle *)
(* one may be it here.                                                      *)
MmioReset ==
  /\ desc_fifo' = <<>>
  /\ cpl_fifo' = <<>>
  /\ slot_task' = [d \in Decoders |-> NoDesc]
  /\ \/ slot_state' = [d \in Decoders |-> "SLOT_IDLE"]
     \/ /\ desc_fifo # <<>>
        /\ \E d \in Decoders :
             /\ slot_state[d] = "SLOT_IDLE"
             /\ slot_state' = [e \in Decoders |-> IF e = d THEN "SLOT_STUCK" ELSE "SLOT_IDLE"]
  /\ UNCHANGED mmio_desc

-----------------------------------------------------------------------------
(* Mutant of StartDecode: the descriptor stays in the FIFO. *)
StartDecodeKeepsDescriptor(d) ==
  /\ slot_state[d] = "SLOT_IDLE"
  /\ desc_fifo # <<>>
  /\ slot_task' = [slot_task EXCEPT ![d] = Head(desc_fifo)]
  /\ slot_state' = [slot_state EXCEPT ![d] = "SLOT_RUN"]
  /\ UNCHANGED <<mmio_desc, desc_fifo, cpl_fifo>>

(* An idle slot takes the descriptor at the head of the FIFO. *)
StartDecode(d) ==
  /\ slot_state[d] = "SLOT_IDLE"
  /\ desc_fifo # <<>>
  /\ slot_task' = [slot_task EXCEPT ![d] = Head(desc_fifo)]
  /\ slot_state' = [slot_state EXCEPT ![d] = "SLOT_RUN"]
  /\ desc_fifo' = Tail(desc_fifo)
  /\ UNCHANGED <<mmio_desc, cpl_fifo>>

(* The last write status of the image arrives: push the completion, unless  *)
(* the FIFO is full.  The slot winds down at once, or first reads what is   *)
(* left of its source: bytes of the file after the end of the image.        *)
FinishDecode(d) ==
  /\ slot_state[d] = "SLOT_RUN"
  /\ cpl_fifo' = IF Len(cpl_fifo) < DescFifoDepth THEN Append(cpl_fifo, slot_task[d])
                 ELSE cpl_fifo
  /\ \E next \in {"SLOT_DRAIN", "SLOT_RESET"} :
        slot_state' = [slot_state EXCEPT ![d] = next]
  /\ UNCHANGED <<mmio_desc, desc_fifo, slot_task>>

(* The rest of the source has been read. *)
DrainSource(d) ==
  /\ slot_state[d] = "SLOT_DRAIN"
  /\ slot_state' = [slot_state EXCEPT ![d] = "SLOT_RESET"]
  /\ UNCHANGED <<mmio_desc, desc_fifo, cpl_fifo, slot_task>>

(* The core has been reset; the slot can take another descriptor. *)
ReleaseSlot(d) ==
  /\ slot_state[d] = "SLOT_RESET"
  /\ slot_state' = [slot_state EXCEPT ![d] = "SLOT_IDLE"]
  /\ UNCHANGED <<mmio_desc, desc_fifo, cpl_fifo, slot_task>>

-----------------------------------------------------------------------------
Running == {d \in Decoders : slot_state[d] = "SLOT_RUN"}

DeviceTypeOK ==
  /\ mmio_desc \in Descriptors \union {NoDesc}
  /\ desc_fifo \in Seq(Descriptors \union {NoDesc})
  /\ cpl_fifo \in Seq(Descriptors \union {NoDesc})
  /\ slot_state \in [Decoders -> SlotStates]
  /\ slot_task \in [Decoders -> Descriptors \union {NoDesc}]

(* The host accesses registers in any order; the slots run on their own.    *)
HostStep ==
  \/ \E d \in Descriptors : WriteDescriptor(d)
  \/ DescCommit
  \/ PopCompletion
  \/ MmioReset

SlotStep(d) ==
  \/ StartDecode(d)
  \/ FinishDecode(d)
  \/ DrainSource(d)
  \/ ReleaseSlot(d)

DeviceNext == HostStep \/ \E d \in Decoders : SlotStep(d)

DeviceSpec == DeviceInit /\ [][DeviceNext]_deviceVars
=============================================================================
