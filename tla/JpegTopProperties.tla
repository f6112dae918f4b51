---------------------------- MODULE JpegTopProperties ----------------------------
(***************************************************************************)
(* What jpeg_top guarantees, cycle by cycle.  AssignmentHolds is violated. *)
(* TopTypeOK, TransfersAccounted, SourceInOrder and ImageComplete are      *)
(* violated too where a stream FIFO holds more than one beat, unless the   *)
(* lengths the arbiters chose survive: see LengthsSurvive and the findings.*)
(* The other properties hold of every behaviour.                           *)
(***************************************************************************)
EXTENDS JpegTop

(* The arbiters reload their registers in the very cycle in which the       *)
(* engine accepts what is in them (jpeg_top.sv:624, :649 and :685).  In the *)
(* steps that keep this, what a slot will be charged is what the engine was *)
(* given; with FIFOs of one beat every step does, with deeper ones the code *)
(* does not see to it.                                                      *)
LengthsSurvive ==
  /\ ~read_engine.busy /\ read_engine'.busy => dma_read_desc'.len = dma_read_desc.len
  /\ ~write_engine.busy /\ write_engine'.busy => dma_write_desc'.len = dma_write_desc.len

(* The behaviours of jpeg_top in which no accepted length is overwritten.   *)
SteadySpec == TopInit /\ [][TopNext /\ LengthsSurvive]_topVars

Address == [image : Images \union {NoImage}, pos : Nat]
Transfer == [valid : BOOLEAN, decoder : Decoders, len : Nat, addr : Address]

(* Every register stays in its range.  The counters of a slot never exceed  *)
(* what its descriptor and its image called for, so no subtraction has      *)
(* wrapped around.  So it is where LengthsSurvive; where an arbiter reloads *)
(* an accepted length, task_src_len and write_bytes_remaining can wrap.     *)
TopTypeOK ==
  /\ slot_state \in [Decoders -> SlotStates]
  /\ task_id \in [Decoders -> Images \union {NoImage}]
  /\ dma_read_desc \in Transfer /\ dma_write_desc \in Transfer
  /\ desc_assign \in Decoders \union {NoDecoder}
  /\ Len(desc_fifo) <= DescFifoDepth /\ Len(cpl_fifo) <= DescFifoDepth
  /\ \A d \in Decoders :
       /\ task_src_len[d] <= Beats(SourceLen, task_id[d])
       /\ write_bytes_remaining[d] <= Beats(PixelLen, task_id[d])
       /\ input_fifo_occupied_len[d] \in 0..InputFifoDepth
       /\ output_fifo_occupied_len[d] \in 0..OutputFifoDepth

(* The assignment of the last cycle is still right when it is carried out:  *)
(* the slot is idle and there is a fresh descriptor to take.                *)
AssignmentHolds ==
  desc_assign # NoDecoder => desc_fifo # <<>> /\ slot_state[desc_assign] = "SLOT_IDLE"

(* So it is as long as the reset register is not used. *)
AssignmentHoldsBetweenResets == host.resets = 0 => AssignmentHolds

(* The occupancy counters, which jpeg_top keeps itself because status_depth *)
(* of axis_fifo is not accurate, agree with the FIFOs while a slot runs; a  *)
(* slot that is free has nothing of its last image left in it.              *)
FifosAccounted ==
  \A d \in Decoders :
    /\ slot_state[d] = "SLOT_RUN" => /\ input_fifo_occupied_len[d] = Len(input_fifo[d])
                                     /\ output_fifo_occupied_len[d] = Len(output_fifo[d])
    /\ slot_state[d] = "SLOT_IDLE" => /\ input_fifo[d] = <<>> /\ output_fifo[d] = <<>>
                                      /\ core[d] = FreshCore

(* While a transfer is under way, the register the slot will be charged by  *)
(* holds the length the engine was given, and the engine works at the       *)
(* addresses of that slot.  The code does not see to it: with stream FIFOs  *)
(* of more than one beat the arbiter can reload the register in the cycle   *)
(* in which the engine accepts it (jpeg_top.sv:624).  This says that        *)
(* nothing else breaks it: it holds where LengthsSurvive.                   *)
TransfersAccounted ==
  /\ read_engine.busy =>
       LET d == read_service_decoder
       IN  /\ read_service_active
           /\ read_engine.addr.image = task_id[d]
           /\ read_engine.addr.pos + read_engine.left =
                task_src_addr[d] + dma_read_desc.len
  /\ write_engine.busy =>
       LET d == write_service_decoder
       IN  /\ write_service_active
           /\ write_engine.addr.image = task_id[d]
           /\ write_engine.addr.pos + write_engine.left =
                task_dst_addr[d] + dma_write_desc.len

(* A core is given the bytes of its own image, all of them, in order, as    *)
(* long as LengthsSurvive: the slot goes on reading where it believes the   *)
(* last transfer ended.                                                     *)
SourceInOrder == \A d \in Decoders : core[d].in_order

(* When the host can see the completion of an image, all of its pixels are  *)
(* at their places, and nothing else has been written there.  Where an      *)
(* accepted length is overwritten this fails: see LengthsSurvive and the    *)
(* finding about jpeg_top.sv:624.                                           *)
Announced == Range(cpl_fifo) \union Range(host.returned)

ImageComplete ==
  \A i \in Announced :
    {f \in frame : f.at.image = i} =
      {[at |-> At(i, n), pixels |-> At(i, n)] : n \in 0..(PixelLen[i] - 1)}

(* An image the host committed while it knew of a free descriptor is in     *)
(* exactly one place until the host has read its completion: the registers, *)
(* the descriptor FIFO, a slot that has pixels to write, the completion     *)
(* FIFO, or the answer to a read.  The places are counted; a completion     *)
(* dropped by a full FIFO is a place of its own.  A reset forgets images.   *)
Occurrences(queue, i) == Cardinality({k \in DOMAIN queue : queue[k] = i})

Decodes(d) ==
  slot_state[d] = "SLOT_RUN" /\ (~have_dimensions[d] \/ write_bytes_remaining[d] > 0)

Places(i) ==
  Flag(desc_fifo_push /\ mmio_desc = i)
  + Occurrences(desc_fifo, i)
  + Cardinality({d \in Decoders : Decodes(d) /\ task_id[d] = i})
  + Occurrences(IF cpl_fifo_pop /\ cpl_fifo # <<>> THEN Tail(cpl_fifo) ELSE cpl_fifo, i)
  + Flag(held_read.cpl = i)
  + Occurrences(host.returned, i)
  + Flag(i \in host.lost)

TasksConserved ==
  host.resets = 0 => \A i \in Images : Places(i) = Flag(i < host.next)

(* jpeg_top in terms of the service it is to be.                            *)
Decoding == INSTANCE DecodeService WITH
  Images <- Images, NoImage <- NoImage, Decoders <- Decoders, Depth <- DescFifoDepth,
  queue <- desc_fifo,
  work <- [d \in Decoders |-> IF Decodes(d) THEN task_id[d] ELSE NoImage],
  finished <- cpl_fifo,
  answer <- IF host.returned = <<>> THEN NoImage ELSE host.returned[Len(host.returned)]

(* The registers, the assignment a cycle ahead, the DMA transfers and the   *)
(* counters that end an image make up a decode service, resets included:    *)
(* images are taken in order, each by a slot that has none, their           *)
(* completions come when their slots end them, once, and reach the host in  *)
(* that order unless the FIFO was full.                                     *)
ImplementsDecodeService == Decoding!Spec

(* Every image the host commits is decoded and its completion read by the   *)
(* host, or dropped by a full completion FIFO: no slot starves in the       *)
(* arbitration and none is stuck after its image.                           *)
EveryImageReturned ==
  \A i \in Images : i < host.next ~> i \in Range(host.returned) \union host.lost
=============================================================================
