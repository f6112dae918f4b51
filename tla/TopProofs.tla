------------------------------- MODULE TopProofs -------------------------------
(***************************************************************************)
(* jpeg_top, cycle by cycle, for any number of decoders and images and any *)
(* depth of the FIFOs: its registers and queues agree, no image is lost or *)
(* doubled, and its behaviours are those of DecodeService.                 *)
(***************************************************************************)
EXTENDS JpegTopProperties, QueueLemmas, SequenceTheorems

-----------------------------------------------------------------------------
(* The ranges of the registers. *)
Ids == Images \union {NoImage}
Word == 0..(WordSize - 1)
Engine == [busy : BOOLEAN, addr : Address, left : Nat, last : BOOLEAN]
Core == [popped : Nat, in_order : BOOLEAN, dims : BOOLEAN, made : Nat]

MmioRange ==
  /\ axil_wr_state \in {"WR_IDLE", "WR_RESP"} /\ axil_rd_state \in {"RD_IDLE", "RD_RESP"}
  /\ held_write \in {"none"} \union Writes
  /\ held_read \in [free : Nat, cpl : Ids]
  /\ mmio_desc \in Ids
  /\ mmio_reset_pulse \in BOOLEAN /\ desc_fifo_push \in BOOLEAN /\ cpl_fifo_pop \in BOOLEAN

QueueRange ==
  /\ desc_fifo \in Seq(Ids) /\ Len(desc_fifo) <= DescFifoDepth
  /\ cpl_fifo \in Seq(Ids) /\ Len(cpl_fifo) <= DescFifoDepth

ServiceRange ==
  /\ desc_assign \in Decoders \union {NoDecoder}
  /\ dma_read_desc \in Transfer
  /\ dma_write_desc \in Transfer /\ dma_write_desc.len \in Word
  /\ read_service_active \in BOOLEAN /\ write_service_active \in BOOLEAN
  /\ read_service_decoder \in Decoders /\ write_service_decoder \in Decoders
  /\ read_rr_ptr \in Decoders /\ write_rr_ptr \in Decoders
  /\ write_chunk_data_done \in BOOLEAN /\ write_chunk_bytes_sent \in Nat

SlotRange ==
  /\ slot_state \in [Decoders -> SlotStates]
  /\ task_id \in [Decoders -> Ids]
  /\ have_dimensions \in [Decoders -> BOOLEAN] /\ core_reset_pulse \in [Decoders -> BOOLEAN]
  /\ task_src_addr \in [Decoders -> Nat] /\ task_dst_addr \in [Decoders -> Nat]
  /\ task_src_len \in [Decoders -> Word] /\ write_bytes_remaining \in [Decoders -> Word]
  /\ input_fifo_occupied_len \in [Decoders -> 0..InputFifoDepth]
  /\ output_fifo_occupied_len \in [Decoders -> 0..OutputFifoDepth]

ExternalRange ==
  /\ read_engine \in Engine /\ write_engine \in Engine
  /\ input_fifo \in [Decoders -> Seq(Address)] /\ output_fifo \in [Decoders -> Seq(Address)]
  /\ \A d \in Decoders : /\ Len(input_fifo[d]) <= InputFifoDepth
                         /\ Len(output_fifo[d]) <= OutputFifoDepth
  /\ core \in [Decoders -> Core]
  /\ host \in [next : Nat \ {0}, credit : BOOLEAN, returned : Seq(Images),
               lost : SUBSET Ids, resets : Nat]

TopRange == MmioRange /\ QueueRange /\ ServiceRange /\ SlotRange /\ ExternalRange

-----------------------------------------------------------------------------
(* The host makes one access at a time: while a read is answered no write   *)
(* is under way, and a commit is carried out with the descriptor it was     *)
(* meant for and room in the FIFO.                                          *)
OneAccess ==
  /\ axil_wr_state = "WR_RESP" => held_write # "none"
  /\ axil_rd_state = "RD_RESP" => axil_wr_state = "WR_IDLE" /\ held_write = "none"
  /\ axil_rd_state = "RD_IDLE" => held_read = NoAnswer /\ ~cpl_fifo_pop
  /\ desc_fifo_push => /\ axil_wr_state = "WR_RESP" /\ held_write = "RegDescCommit"
                       /\ Len(desc_fifo) < DescFifoDepth /\ ~host.credit
  /\ mmio_reset_pulse => /\ axil_wr_state = "WR_RESP" /\ held_write = "RegReset"
                         /\ host.resets > 0
  /\ cpl_fifo_pop => cpl_fifo # <<>> /\ held_read.cpl = Head(cpl_fifo)
  /\ ~cpl_fifo_pop => held_read.cpl = NoImage
  /\ host.credit \/ held_read.free > 0 => Len(desc_fifo) < DescFifoDepth
  /\ Executes("RegDesc") => host.next \in Images
  /\ Executes("RegDescCommit") => /\ host.credit /\ mmio_desc = host.next
                                  /\ host.next \in Images

(* The slot an assignment was made for waits for it. *)
AssignmentWaits ==
  desc_assign # NoDecoder => /\ slot_state[desc_assign] = "SLOT_IDLE"
                             /\ host.resets = 0 => desc_fifo # <<>>

(* A transfer that is offered or under way belongs to a slot that runs and  *)
(* has not got what the transfer is for.                                    *)
CanRead(d) == slot_state[d] = "SLOT_RUN" /\ task_src_len[d] > 0
CanWrite(d) == slot_state[d] = "SLOT_RUN" /\ have_dimensions[d] /\ write_bytes_remaining[d] > 0

TransfersServed ==
  /\ read_service_active = read_engine.busy
  /\ write_service_active = write_engine.busy
  /\ dma_read_desc.valid => CanRead(dma_read_desc.decoder) /\ dma_read_desc.len > 0
  /\ dma_write_desc.valid => CanWrite(dma_write_desc.decoder) /\ dma_write_desc.len > 0
  /\ read_service_active => CanRead(read_service_decoder) /\ read_engine.left > 0
  /\ write_service_active => CanWrite(write_service_decoder)

(* A free slot is clean; another knows what is in its FIFOs. *)
Clean(d) == input_fifo[d] = <<>> /\ output_fifo[d] = <<>> /\ core[d] = FreshCore

SlotsKept ==
  \A d \in Decoders :
    /\ slot_state[d] = "SLOT_IDLE" => Clean(d)
    /\ slot_state[d] # "SLOT_IDLE" => /\ input_fifo_occupied_len[d] = Len(input_fifo[d])
                                      /\ output_fifo_occupied_len[d] = Len(output_fifo[d])
    /\ core_reset_pulse[d] <=> slot_state[d] = "SLOT_RESET_HOLD"
    /\ slot_state[d] = "SLOT_RUN" => have_dimensions[d] = core[d].dims

(* No image is in two places, and without a reset none is nowhere. *)
NoneTwice ==
  \A i \in Images : /\ Places(i) <= Flag(i < host.next)
                    /\ host.resets = 0 => Places(i) = Flag(i < host.next)

TopSound ==
  TopRange /\ OneAccess /\ AssignmentWaits /\ TransfersServed /\ SlotsKept /\ NoneTwice

-----------------------------------------------------------------------------
(* What the inputs of a cycle can be. *)
LEMMA InputFacts ==
  ASSUME NEW in \in Inputs
  PROVE  /\ in.access \in {"none"} \union Reads \union Writes /\ HostMayPresent(in.access)
         /\ in.read_ready \in BOOLEAN /\ in.read_beat \in BOOLEAN
         /\ in.write_ready \in BOOLEAN /\ in.write_beat \in BOOLEAN /\ in.status \in BOOLEAN
         /\ in.read_ready => dma_read_desc.valid /\ ~read_engine.busy
         /\ in.read_beat => /\ read_service_active /\ read_engine.busy
                            /\ Len(input_fifo[read_service_decoder]) < InputFifoDepth
         /\ in.write_ready => dma_write_desc.valid /\ ~write_engine.busy
         /\ in.write_beat => /\ write_service_active /\ write_engine.busy
                             /\ ~write_chunk_data_done
                             /\ output_fifo[write_service_decoder] # <<>>
         /\ in.status => write_engine.busy /\ write_engine.last
         /\ \A d \in in.pop : d \in Decoders /\ ~CoreReset(d) /\ input_fifo[d] # <<>>
         /\ \A d \in in.push : d \in Decoders /\ ~CoreReset(d) /\ CoreCanEmit(d)
         /\ \A d \in in.dims : /\ d \in Decoders /\ ~CoreReset(d)
                               /\ core[d].popped > 0 /\ ~core[d].dims
<1>1. \A c : Maybe(c) \subseteq BOOLEAN
  BY DEF Maybe
<1>2. QED
  BY <1>1 DEF Inputs, Maybe

-----------------------------------------------------------------------------
(* The lifecycle block does one of two things. *)
LEMMA DecoderFacts ==
  /\ NumDecoders \in Nat /\ NumDecoders > 1
  /\ Decoders = 0..(NumDecoders - 1) /\ Decoders \subseteq Nat
  /\ NoDecoder \notin Decoders /\ 0 \in Decoders
  /\ WordSize \in Nat /\ 0 \in Word
  /\ 0 \notin Images /\ Images \subseteq Nat /\ 0 \in Ids
BY TopAssumption DEF Decoders, NoDecoder, NoImage, Ids, Word


LEMMA OccurrencesCounted ==
  ASSUME NEW T, NEW q \in Seq(T), NEW i
  PROVE  Occurrences(q, i) = Count(q, {i}) /\ Occurrences(q, i) \in Nat
<1>1. {k \in DOMAIN q : q[k] = i} = Positions(q, {i})
  BY DEF Positions
<1>2. QED
  BY <1>1, CountType DEF Occurrences, Count

LEMMA InitSound ==
  ASSUME TopInit
  PROVE  TopSound
<1>1. TopRange
  <2>1. MmioRange
    BY DecoderFacts DEF TopInit, MmioRange, NoAnswer, Ids
  <2>2. QueueRange
    BY TopAssumption DEF TopInit, QueueRange
  <2>3. ServiceRange
    <3>1. NoTransfer \in Transfer /\ NoTransfer.len = 0
      BY DecoderFacts DEF NoTransfer, Transfer, Address, At
    <3>2. QED
      BY <3>1, DecoderFacts DEF TopInit, ServiceRange
  <2>4. SlotRange
    <3>1. 0 \in 0..InputFifoDepth /\ 0 \in 0..OutputFifoDepth
      BY TopAssumption
    <3>2. QED
      BY <3>1, DecoderFacts DEF TopInit, SlotRange, AllSlots, SlotStates, NoImage
  <2>5. ExternalRange
    BY DecoderFacts, TopAssumption
    DEF TopInit, ExternalRange, AllSlots, IdleEngine, Engine, Address, At, Ids, FreshCore, Core
  <2>6. QED
    BY <2>1, <2>2, <2>3, <2>4, <2>5 DEF TopRange
<1>2. OneAccess
  BY DEF TopInit, OneAccess, NoAnswer, Executes
<1>3. AssignmentWaits /\ TransfersServed
  BY DEF TopInit, AssignmentWaits, TransfersServed, NoTransfer, IdleEngine
<1>4. SlotsKept
  BY DEF TopInit, SlotsKept, AllSlots, Clean
<1>5. NoneTwice
  <2>1. \A i : Occurrences(<<>>, i) = 0
    <3>1. \A i : {k \in DOMAIN <<>> : <<>>[k] = i} = {}
      OBVIOUS
    <3>2. QED
      BY <3>1, FS_EmptySet DEF Occurrences
  <2>2. \A i : {d \in Decoders : Decodes(d) /\ task_id[d] = i} = {}
    BY DEF TopInit, Decodes, AllSlots
  <2>3. /\ ~desc_fifo_push /\ desc_fifo = <<>> /\ cpl_fifo = <<>> /\ held_read.cpl = 0
        /\ host.returned = <<>> /\ host.lost = {} /\ host.next = 1
    BY DEF TopInit, NoAnswer, NoImage
  <2>4. \A i \in Images : i \in Nat /\ i # 0
    BY DecoderFacts
  <2>5. ASSUME NEW i \in Images
        PROVE  Places(i) = 0
    <3>1. Cardinality({d \in Decoders : Decodes(d) /\ task_id[d] = i}) = 0
      BY <2>2, FS_EmptySet
    <3>2. /\ Flag(desc_fifo_push /\ mmio_desc = i) = 0 /\ Flag(held_read.cpl = i) = 0
          /\ Flag(i \in host.lost) = 0
      BY <2>3, <2>4 DEF Flag
    <3>3. /\ Occurrences(desc_fifo, i) = 0 /\ Occurrences(host.returned, i) = 0
          /\ Occurrences(IF cpl_fifo_pop /\ cpl_fifo # <<>> THEN Tail(cpl_fifo)
                                                           ELSE cpl_fifo, i) = 0
      BY <2>1, <2>3
    <3>4. QED
      BY <3>1, <3>2, <3>3 DEF Places
  <2>6. \A i \in Images : Flag(i < host.next) = 0
    BY <2>3, <2>4 DEF Flag
  <2>7. QED
    BY <2>5, <2>6 DEF NoneTwice
<1>6. QED
  BY <1>1, <1>2, <1>3, <1>4, <1>5 DEF TopSound

-----------------------------------------------------------------------------
(* What the arbiters pick is eligible. *)
LEMMA FirstIdle ==
  ASSUME NEW idle \in SUBSET Decoders, idle # {}
  PROVE  (CHOOSE d \in idle : \A e \in idle : d <= e) \in idle
BY DecoderFacts, Smallest

LEMMA PickEligible ==
  ASSUME NEW rr_ptr \in Decoders, NEW eligible \in SUBSET Decoders, eligible # {}
  PROVE  Pick(rr_ptr, eligible) \in eligible
<1> DEFINE turn(d) == (d - rr_ptr) % NumDecoders
<1>1. \A d \in Decoders : turn(d) \in Nat
  BY DecoderFacts
<1>2. PICK m \in {turn(d) : d \in eligible} : \A n \in {turn(d) : d \in eligible} : m <= n
  <2>1. {turn(d) : d \in eligible} \in SUBSET Nat /\ {turn(d) : d \in eligible} # {}
    BY <1>1
  <2>2. QED
    BY <2>1, Smallest
<1>3. \E d \in eligible : \A e \in eligible : turn(d) <= turn(e)
  BY <1>2
<1>4. QED
  BY <1>3 DEF Pick

(* Push and pop of a FIFO. *)
LEMMA QueueKept ==
  ASSUME NEW fifo \in Seq(Ids), Len(fifo) <= DescFifoDepth,
         NEW push, NEW pop, NEW item \in Ids
  PROVE  /\ Queue(fifo, push, item, pop) \in Seq(Ids)
         /\ Len(Queue(fifo, push, item, pop)) <= DescFifoDepth
BY TopAssumption DEF Queue

LEMMA MmioRangeStep ==
  ASSUME TopSound, NEW in \in Inputs, Cycle(in)
  PROVE  MmioRange'
<1>1. /\ MmioRange /\ OneAccess /\ QueueRange
      /\ MmioWrite(in.access) /\ MmioRead(in.access)
  BY DEF TopSound, TopRange, Cycle
<1>2. in.access \in {"none"} \union Reads \union Writes
  BY InputFacts
<1>3. /\ axil_wr_state' \in {"WR_IDLE", "WR_RESP"}
      /\ held_write' \in {"none"} \union Writes
  BY <1>1, <1>2 DEF MmioWrite, MmioRange, Writes
<1>4. mmio_desc' \in Ids /\ desc_fifo_push' \in BOOLEAN /\ mmio_reset_pulse' \in BOOLEAN
  BY <1>1 DEF MmioWrite, MmioRange, OneAccess, Ids, Executes
<1>5. cpl_fifo_pop' \in BOOLEAN /\ axil_rd_state' \in {"RD_IDLE", "RD_RESP"}
  BY <1>1 DEF MmioRead
<1>6. held_read' \in [free : Nat, cpl : Ids]
  <2>1. NoAnswer \in [free : Nat, cpl : Ids]
    BY DecoderFacts DEF NoAnswer, NoImage
  <2>2. DescFifoDepth - Len(desc_fifo) \in Nat
    BY <1>1, TopAssumption DEF QueueRange
  <2>3. cpl_fifo # <<>> => Head(cpl_fifo) \in Ids
    BY <1>1 DEF QueueRange
  <2>4. /\ [NoAnswer EXCEPT !.free = DescFifoDepth - Len(desc_fifo)] \in [free : Nat, cpl : Ids]
        /\ cpl_fifo # <<>> =>
             [NoAnswer EXCEPT !.cpl = Head(cpl_fifo)] \in [free : Nat, cpl : Ids]
    BY <2>1, <2>2, <2>3
  <2>5. QED
    BY <1>1, <2>1, <2>4 DEF MmioRead
<1>7. QED
  BY <1>3, <1>4, <1>5, <1>6 DEF MmioRange

LEMMA QueueRangeStep ==
  ASSUME TopSound, NEW in \in Inputs, Cycle(in)
  PROVE  QueueRange'
<1>1. /\ MmioRange /\ QueueRange /\ ServiceRange /\ SlotRange /\ MmioFifos(in.status)
  BY DEF TopSound, TopRange, Cycle
<1>2. mmio_desc \in Ids /\ task_id[write_service_decoder] \in Ids
  BY <1>1 DEF MmioRange, ServiceRange, SlotRange
<1>3. <<>> \in Seq(Ids) /\ Len(<<>>) <= DescFifoDepth
  BY TopAssumption
<1>4. QED
  BY <1>1, <1>2, <1>3, QueueKept DEF QueueRange, MmioFifos

LEMMA ServiceRangeStep ==
  ASSUME TopSound, NEW in \in Inputs, Cycle(in)
  PROVE  ServiceRange'
<1>1. /\ ServiceRange /\ SlotRange
      /\ AssignDescriptor /\ ReadArbiter /\ WriteArbiter /\ Lifecycle(in)
  BY DEF TopSound, TopRange, Cycle
<1>2. NoTransfer \in Transfer /\ NoTransfer.len = 0
  BY DecoderFacts DEF NoTransfer, Transfer, Address, At
<1>3. desc_assign' \in Decoders \union {NoDecoder}
  <2>1. {d \in Decoders : slot_state[d] = "SLOT_IDLE"} \in SUBSET Decoders
    OBVIOUS
  <2>2. QED
    BY <1>1, <2>1, FirstIdle DEF AssignDescriptor
<1>4. dma_read_desc' \in Transfer
  <2>1. [dma_read_desc EXCEPT !.valid = FALSE] \in Transfer
    BY <1>1 DEF ServiceRange, Transfer
  <2>2. ASSUME ReadEligible # {}, NEW d, d = Pick(read_rr_ptr, ReadEligible)
        PROVE  [valid |-> TRUE, decoder |-> d,
                len |-> Lower(task_src_len[d], InputFree(d)), addr |-> SourceAddress(d)]
                  \in Transfer
    <3>1. d \in ReadEligible
      BY <1>1, <2>2, PickEligible DEF ReadEligible, ServiceRange
    <3>2. /\ d \in Decoders /\ task_src_len[d] \in Nat /\ InputFree(d) \in Nat
      <4>1. d \in Decoders /\ InputFree(d) > 0
        BY <3>1 DEF ReadEligible
      <4>2. task_src_len[d] \in Word /\ input_fifo_occupied_len[d] \in 0..InputFifoDepth
        BY <1>1, <4>1 DEF SlotRange
      <4>3. QED
        BY <4>1, <4>2, TopAssumption, DecoderFacts DEF InputFree, Word
    <3>3. SourceAddress(d) \in Address
      BY <1>1, <3>2 DEF SourceAddress, At, Address, SlotRange, Ids
    <3>4. QED
      BY <3>2, <3>3 DEF Transfer, Lower
  <2>3. QED
    BY <1>1, <1>2, <2>1, <2>2 DEF ReadArbiter
<1>5. dma_write_desc' \in Transfer /\ dma_write_desc'.len \in Word
  <2>1. /\ [dma_write_desc EXCEPT !.valid = FALSE] \in Transfer
        /\ [dma_write_desc EXCEPT !.valid = FALSE].len \in Word
    BY <1>1 DEF ServiceRange, Transfer
  <2>2. ASSUME WriteEligible # {}, NEW d, d = Pick(write_rr_ptr, WriteEligible)
        PROVE  /\ [valid |-> TRUE, decoder |-> d,
                   len |-> Lower(write_bytes_remaining[d], output_fifo_occupied_len[d]),
                   addr |-> At(task_id[d], task_dst_addr[d])] \in Transfer
               /\ Lower(write_bytes_remaining[d], output_fifo_occupied_len[d]) \in Word
    <3>1. d \in WriteEligible
      BY <1>1, <2>2, PickEligible DEF WriteEligible, ServiceRange
    <3>2. /\ d \in Decoders /\ write_bytes_remaining[d] \in Word
          /\ output_fifo_occupied_len[d] \in Nat
      BY <1>1, <3>1, TopAssumption DEF WriteEligible, SlotRange
    <3>3. At(task_id[d], task_dst_addr[d]) \in Address
      BY <1>1, <3>2 DEF At, Address, SlotRange, Ids
    <3>4. Lower(write_bytes_remaining[d], output_fifo_occupied_len[d]) \in Word
      BY <3>2, DecoderFacts DEF Lower, Word
    <3>5. QED
      BY <3>2, <3>3, <3>4, DecoderFacts DEF Transfer, Word
  <2>3. QED
    BY <1>1, <1>2, <2>1, <2>2, DecoderFacts DEF WriteArbiter
<1>6. /\ dma_read_desc.decoder \in Decoders /\ dma_write_desc.decoder \in Decoders
      /\ \A d \in Decoders : Next_rr(d) \in Decoders
  BY <1>1, DecoderFacts DEF ServiceRange, Transfer, Next_rr
<1>7. /\ read_service_decoder' \in Decoders /\ write_service_decoder' \in Decoders
      /\ read_rr_ptr' \in Decoders /\ write_rr_ptr' \in Decoders
  BY <1>1, <1>6, DecoderFacts
  DEF Lifecycle, ResetSlots, ReadService, WriteService, ServiceRange
<1>8. /\ read_service_active' \in BOOLEAN /\ write_service_active' \in BOOLEAN
      /\ write_chunk_data_done' \in BOOLEAN
  <2>1. CASE mmio_reset_pulse /\ ResetSlots
    BY <2>1 DEF ResetSlots
  <2>2. CASE ReadService(in) /\ WriteService(in)
    BY <2>2, Zenon DEF ReadService, WriteService
  <2>3. QED
    BY <1>1, <2>1, <2>2 DEF Lifecycle
<1>9. write_chunk_bytes_sent' \in Nat
  <2>1. \A c : write_chunk_bytes_sent + Flag(c) \in Nat
    BY <1>1 DEF ServiceRange, Flag
  <2>2. write_chunk_bytes_sent' = 0 \/ write_chunk_bytes_sent' = write_chunk_bytes_sent + Flag(in.write_beat)
    BY <1>1 DEF Lifecycle, ResetSlots, WriteService
  <2>3. QED
    BY <2>1, <2>2
<1>10. QED
  BY <1>3, <1>4, <1>5, <1>7, <1>8, <1>9 DEF ServiceRange

(* The memories of the FIFOs. *)
LEMMA InputFifoStep ==
  ASSUME TopSound, NEW in \in Inputs, Cycle(in), NEW d \in Decoders
  PROVE  /\ input_fifo'[d] \in Seq(Address)
         /\ Len(input_fifo'[d]) <= InputFifoDepth
         /\ Len(input_fifo'[d]) = IF CoreReset(d) THEN 0
              ELSE Len(input_fifo[d]) + Flag(Read(in, d)) - Flag(d \in in.pop)
<1>1. /\ input_fifo[d] \in Seq(Address) /\ Len(input_fifo[d]) <= InputFifoDepth
      /\ read_engine.addr \in Address /\ read_service_decoder \in Decoders
      /\ Cores(in)
  BY DEF TopSound, TopRange, ExternalRange, ServiceRange, Engine, Cycle
<1>2. /\ d \in in.pop => input_fifo[d] # <<>>
      /\ Read(in, d) => Len(input_fifo[d]) < InputFifoDepth
  BY InputFacts DEF Read
<1>3. CASE CoreReset(d)
  BY <1>1, <1>3, TopAssumption DEF Cores
<1>4. CASE ~CoreReset(d)
  <2> DEFINE kept == IF d \in in.pop THEN Tail(input_fifo[d]) ELSE input_fifo[d]
             new == IF Read(in, d) THEN <<read_engine.addr>> ELSE <<>>
  <2>1. input_fifo'[d] = kept \o new
    BY <1>1, <1>4 DEF Cores
  <2>2. /\ kept \in Seq(Address) /\ Len(kept) = Len(input_fifo[d]) - Flag(d \in in.pop)
        /\ new \in Seq(Address) /\ Len(new) = Flag(Read(in, d))
    BY <1>1, <1>2 DEF Flag
  <2> HIDE DEF kept, new
  <2>3. kept \o new \in Seq(Address) /\ Len(kept \o new) = Len(kept) + Len(new)
    BY <2>2
  <2>4. Len(kept \o new) = Len(input_fifo[d]) + Flag(Read(in, d)) - Flag(d \in in.pop)
    BY <1>1, <2>2, <2>3 DEF Flag
  <2>5. Len(kept \o new) <= InputFifoDepth
    <3>1. /\ \/ Flag(Read(in, d)) = 0
             \/ Flag(Read(in, d)) = 1 /\ Len(input_fifo[d]) < InputFifoDepth
          /\ Flag(d \in in.pop) \in {0, 1}
      BY <1>2 DEF Flag
    <3>2. Len(input_fifo[d]) \in Nat /\ InputFifoDepth \in Nat
      BY <1>1, TopAssumption
    <3>3. QED
      BY <1>1, <2>4, <3>1, <3>2
  <2>6. QED
    BY <1>4, <2>1, <2>3, <2>4, <2>5
<1>5. QED
  BY <1>3, <1>4

LEMMA OutputFifoStep ==
  ASSUME TopSound, NEW in \in Inputs, Cycle(in), NEW d \in Decoders
  PROVE  /\ output_fifo'[d] \in Seq(Address)
         /\ Len(output_fifo'[d]) <= OutputFifoDepth
         /\ Len(output_fifo'[d]) = IF CoreReset(d) THEN 0
              ELSE Len(output_fifo[d]) + Flag(d \in in.push) - Flag(Written(in, d))
<1>1. /\ output_fifo[d] \in Seq(Address) /\ Len(output_fifo[d]) <= OutputFifoDepth
      /\ At(task_id[d], core[d].made) \in Address /\ write_service_decoder \in Decoders
      /\ Cores(in)
  BY DEF TopSound, TopRange, ExternalRange, ServiceRange, SlotRange, Core, Cycle, At, Address,
         Ids
<1>2. /\ Written(in, d) => output_fifo[d] # <<>>
      /\ d \in in.push => Len(output_fifo[d]) < OutputFifoDepth
  BY InputFacts DEF Written, CoreCanEmit
<1>3. CASE CoreReset(d)
  BY <1>1, <1>3, TopAssumption DEF Cores
<1>4. CASE ~CoreReset(d)
  <2> DEFINE kept == IF Written(in, d) THEN Tail(output_fifo[d]) ELSE output_fifo[d]
             new == IF d \in in.push THEN <<At(task_id[d], core[d].made)>> ELSE <<>>
  <2>1. output_fifo'[d] = kept \o new
    BY <1>1, <1>4 DEF Cores
  <2>2. /\ kept \in Seq(Address) /\ Len(kept) = Len(output_fifo[d]) - Flag(Written(in, d))
        /\ new \in Seq(Address) /\ Len(new) = Flag(d \in in.push)
    BY <1>1, <1>2 DEF Flag
  <2> HIDE DEF kept, new
  <2>3. kept \o new \in Seq(Address) /\ Len(kept \o new) = Len(kept) + Len(new)
    BY <2>2
  <2>4. Len(kept \o new) = Len(output_fifo[d]) + Flag(d \in in.push) - Flag(Written(in, d))
    BY <1>1, <2>2, <2>3 DEF Flag
  <2>5. Len(kept \o new) <= OutputFifoDepth
    <3>1. /\ \/ Flag(d \in in.push) = 0
             \/ Flag(d \in in.push) = 1 /\ Len(output_fifo[d]) < OutputFifoDepth
          /\ Flag(Written(in, d)) \in {0, 1}
      BY <1>2 DEF Flag
    <3>2. Len(output_fifo[d]) \in Nat /\ OutputFifoDepth \in Nat
      BY <1>1, TopAssumption
    <3>3. QED
      BY <1>1, <2>4, <3>1, <3>2
  <2>6. QED
    BY <1>4, <2>1, <2>3, <2>4, <2>5
<1>5. QED
  BY <1>3, <1>4

(* An engine that has moved a beat. *)
LEMMA EngineMoves ==
  ASSUME NEW e \in Engine, NEW k \in Nat, NEW n \in Nat, NEW b \in BOOLEAN
  PROVE  LET moved == [e EXCEPT !.addr = Onward(@, k), !.left = n]
             ended == [e EXCEPT !.addr = Onward(@, k), !.left = n, !.last = b]
         IN  /\ moved \in Engine /\ moved.busy = e.busy /\ moved.addr = Onward(e.addr, k)
             /\ moved.left = n /\ moved.last = e.last
             /\ ended \in Engine /\ ended.busy = e.busy /\ ended.addr = Onward(e.addr, k)
             /\ ended.left = n /\ ended.last = b
<1>1. Onward(e.addr, k) \in Address
  BY DEF Engine, Address, Onward, At
<1>2. QED
  BY <1>1 DEF Engine

LEMMA ExternalRangeStep ==
  ASSUME TopSound, NEW in \in Inputs, Cycle(in)
  PROVE  ExternalRange'
<1>1. /\ MmioRange /\ ServiceRange /\ SlotRange /\ ExternalRange /\ TransfersServed
      /\ ReadEngine(in) /\ WriteEngine(in) /\ Cores(in) /\ Host(in)
  BY DEF TopSound, TopRange, Cycle
<1>2. IdleEngine \in Engine
  BY DecoderFacts DEF IdleEngine, Engine, Address, At, NoImage
<1>3. dma_read_desc \in Transfer /\ dma_write_desc \in Transfer
  BY <1>1 DEF ServiceRange
<1>4. \A a \in Address, n \in Nat :
        [busy |-> TRUE, addr |-> a, left |-> n, last |-> FALSE] \in Engine
  BY DEF Engine
<1>5. read_engine' \in Engine
  <2>1. in.read_beat => read_engine.left > 0
    BY <1>1, InputFacts DEF TransfersServed
  <2>2. ASSUME in.read_beat
        PROVE  [read_engine EXCEPT !.addr = Onward(@, 1), !.left = @ - 1] \in Engine
    <3>1. read_engine \in Engine
      BY <1>1 DEF ExternalRange
    <3>2. read_engine.left - 1 \in Nat
      BY <3>1, <2>1, <2>2 DEF Engine
    <3>3. QED
      BY <3>1, <3>2, EngineMoves
  <2>3. QED
    BY <1>1, <1>2, <1>3, <1>4, <2>2 DEF ReadEngine, Transfer, ExternalRange
<1>6. write_engine' \in Engine
  <2>1. Flag(write_engine.left > 0) \in Nat /\ write_engine.left - Flag(write_engine.left > 0) \in Nat
    BY <1>1 DEF ExternalRange, Engine, Flag
  <2>2. write_data_tlast \in BOOLEAN
    BY DEF write_data_tlast
  <2>3. [write_engine EXCEPT !.addr = Onward(@, Flag(write_engine.left > 0)),
                             !.left = @ - Flag(write_engine.left > 0),
                             !.last = write_data_tlast] \in Engine
    <3>1. write_engine \in Engine
      BY <1>1 DEF ExternalRange
    <3>2. QED
      BY <3>1, <2>1, <2>2, EngineMoves
  <2>4. QED
    BY <1>1, <1>2, <1>3, <1>4, <2>3 DEF WriteEngine, Transfer, ExternalRange
<1>7. /\ input_fifo' \in [Decoders -> Seq(Address)]
      /\ output_fifo' \in [Decoders -> Seq(Address)]
      /\ \A d \in Decoders : /\ Len(input_fifo'[d]) <= InputFifoDepth
                             /\ Len(output_fifo'[d]) <= OutputFifoDepth
  <2>1. \A d \in Decoders : /\ input_fifo'[d] \in Seq(Address)
                            /\ output_fifo'[d] \in Seq(Address)
                            /\ Len(input_fifo'[d]) <= InputFifoDepth
                            /\ Len(output_fifo'[d]) <= OutputFifoDepth
    BY InputFifoStep, OutputFifoStep
  <2>2. /\ input_fifo' = [d \in Decoders |-> input_fifo'[d]]
        /\ output_fifo' = [d \in Decoders |-> output_fifo'[d]]
    BY <1>1 DEF Cores
  <2>3. QED
    BY <2>1, <2>2
<1>8. core' \in [Decoders -> Core]
  <2>1. FreshCore \in Core
    BY DEF FreshCore, Core
  <2>2. ASSUME NEW d \in Decoders
        PROVE  core'[d] \in Core
    <3>1. core[d] \in Core
      BY <1>1 DEF ExternalRange
    <3>2. [popped |-> core[d].popped + Flag(d \in in.pop),
           in_order |-> /\ core[d].in_order
                        /\ d \in in.pop =>
                             Head(input_fifo[d]) = At(task_id[d], core[d].popped),
           dims |-> core[d].dims \/ d \in in.dims,
           made |-> core[d].made + Flag(d \in in.push)] \in Core
      BY <3>1 DEF Core, Flag
    <3>3. QED
      BY <1>1, <2>1, <3>2 DEF Cores
  <2>3. core' = [d \in Decoders |-> core'[d]]
    BY <1>1 DEF Cores
  <2>4. QED
    BY <2>2, <2>3
<1>9. host' \in [next : Nat \ {0}, credit : BOOLEAN, returned : Seq(Images),
                 lost : SUBSET Ids, resets : Nat]
  <2>1. host \in [next : Nat \ {0}, credit : BOOLEAN, returned : Seq(Images),
                  lost : SUBSET Ids, resets : Nat]
    BY <1>1 DEF ExternalRange
  <2>2. held_read.cpl # NoImage => held_read.cpl \in Images
    BY <1>1 DEF MmioRange, Ids
  <2>3. task_id[write_service_decoder] \in Ids
    BY <1>1 DEF SlotRange, ServiceRange
  <2>4. host.returned \o (IF held_read.cpl = NoImage THEN <<>> ELSE <<held_read.cpl>>)
          \in Seq(Images)
    BY <2>1, <2>2
  <2>5. \A c : host.next + Flag(c) \in Nat \ {0} /\ host.resets + Flag(c) \in Nat
    BY <2>1 DEF Flag
  <2>6. (~Executes("RegDescCommit") /\ ~Executes("RegReset") /\
            (host.credit \/ held_read.free > 0)) \in BOOLEAN
    OBVIOUS
  <2>7. host.lost \union (IF write_status_is_final(in.status) /\ cpl_fifo_full
                          THEN {task_id[write_service_decoder]} ELSE {}) \in SUBSET Ids
    BY <2>1, <2>3
  <2>8. QED
    BY <1>1, <2>4, <2>5, <2>6, <2>7 DEF Host
<1>10. QED
  BY <1>5, <1>6, <1>7, <1>8, <1>9 DEF ExternalRange

-----------------------------------------------------------------------------
(* The life of a slot. *)

(* The engines and the core leave a slot alone that does not run. *)
LEMMA QuietSlot ==
  ASSUME TopSound, NEW in \in Inputs, NEW d \in Decoders, slot_state[d] # "SLOT_RUN"
  PROVE  /\ ~Read(in, d) /\ ~Written(in, d)
         /\ slot_state[d] = "SLOT_IDLE" => d \notin in.pop /\ d \notin in.push /\ d \notin in.dims
         /\ slot_state[d] = "SLOT_RESET_HOLD" =>
              CoreReset(d) /\ d \notin in.pop /\ d \notin in.push /\ d \notin in.dims
<1>1. ~Read(in, d) /\ ~Written(in, d)
  BY InputFacts DEF TopSound, TransfersServed, CanRead, CanWrite, Read, Written
<1>2. CASE slot_state[d] = "SLOT_IDLE"
  <2>1. input_fifo[d] = <<>> /\ ~core[d].dims /\ core[d].popped = 0
    BY <1>2 DEF TopSound, SlotsKept, Clean, FreshCore
  <2>2. d \notin in.pop /\ d \notin in.push /\ d \notin in.dims
    BY <2>1, InputFacts DEF CoreCanEmit
  <2>3. QED
    BY <1>1, <1>2, <2>2
<1>3. CASE slot_state[d] = "SLOT_RESET_HOLD"
  <2>1. CoreReset(d)
    BY <1>3 DEF TopSound, SlotsKept, CoreReset
  <2>2. QED
    BY <1>1, <1>3, <2>1, InputFacts
<1>4. QED
  BY <1>1, <1>2, <1>3

(* A step between two states of a slot. *)
LEMMA SlotSteps ==
  ASSUME TopSound, NEW in \in Inputs, Cycle(in), NEW d \in Decoders, ~mmio_reset_pulse
  PROVE  /\ slot_state'[d] = SlotState(d)
         /\ core_reset_pulse'[d] = (slot_state[d] = "SLOT_RESET_PULSE")
         /\ task_id'[d] = IF desc_assign = d THEN Front ELSE task_id[d]
         /\ have_dimensions'[d] = (desc_assign # d /\ (d \in in.dims \/ have_dimensions[d]))
         /\ input_fifo_occupied_len'[d] = InputOccupied(in, d)
         /\ output_fifo_occupied_len'[d] = OutputOccupied(in, d)
         /\ desc_assign = d => slot_state[d] = "SLOT_IDLE"
<1>1. Slots(in)
  BY DEF Cycle, Lifecycle
<1>2. desc_assign = d => slot_state[d] = "SLOT_IDLE"
  BY DecoderFacts DEF TopSound, AssignmentWaits
<1>3. QED
  BY <1>1, <1>2 DEF Slots

LEMMA CleanAfterReset ==
  ASSUME NEW in \in Inputs, Cycle(in), NEW d \in Decoders, CoreReset(d)
  PROVE  Clean(d)'
BY DEF Cycle, Cores, Clean

LEMMA CleanStays ==
  ASSUME TopSound, NEW in \in Inputs, Cycle(in), NEW d \in Decoders,
         slot_state[d] = "SLOT_IDLE"
  PROVE  Clean(d)'
<1>1. CASE CoreReset(d)
  BY <1>1, CleanAfterReset
<1>2. CASE ~CoreReset(d)
  <2>1. /\ ~Read(in, d) /\ ~Written(in, d)
        /\ d \notin in.pop /\ d \notin in.push /\ d \notin in.dims
    BY QuietSlot
  <2>2. input_fifo[d] = <<>> /\ output_fifo[d] = <<>> /\ core[d] = FreshCore
    BY DEF TopSound, SlotsKept, Clean
  <2>3. <<>> \o <<>> = <<>>
    OBVIOUS
  <2>4. input_fifo'[d] = <<>> /\ output_fifo'[d] = <<>>
    BY <1>2, <2>1, <2>2, <2>3 DEF Cycle, Cores
  <2>5. core'[d] = [popped |-> 0, in_order |-> TRUE, dims |-> FALSE, made |-> 0]
    <3>1. /\ core[d].popped + Flag(d \in in.pop) = 0 /\ core[d].made + Flag(d \in in.push) = 0
          /\ (core[d].in_order /\ (d \in in.pop =>
                Head(input_fifo[d]) = At(task_id[d], core[d].popped))) = TRUE
          /\ (core[d].dims \/ d \in in.dims) = FALSE
      BY <2>1, <2>2 DEF Flag, FreshCore
    <3>2. QED
      BY <1>2, <3>1 DEF Cycle, Cores
  <2>6. QED
    BY <2>4, <2>5 DEF Clean, FreshCore
<1>3. QED
  BY <1>1, <1>2

LEMMA SlotsKeptStep ==
  ASSUME TopSound, NEW in \in Inputs, Cycle(in)
  PROVE  SlotsKept'
<1> SUFFICES ASSUME NEW d \in Decoders
             PROVE  /\ slot_state'[d] = "SLOT_IDLE" => Clean(d)'
                    /\ slot_state'[d] # "SLOT_IDLE" =>
                         /\ input_fifo_occupied_len'[d] = Len(input_fifo'[d])
                         /\ output_fifo_occupied_len'[d] = Len(output_fifo'[d])
                    /\ core_reset_pulse'[d] <=> slot_state'[d] = "SLOT_RESET_HOLD"
                    /\ slot_state'[d] = "SLOT_RUN" => have_dimensions'[d] = core'[d].dims
  BY DEF SlotsKept, Clean
<1>1. slot_state[d] \in SlotStates
  BY DEF TopSound, TopRange, SlotRange
<1>2. CASE mmio_reset_pulse
  <2>1. slot_state'[d] = "SLOT_IDLE" /\ core_reset_pulse'[d] = FALSE
    BY <1>2 DEF Cycle, Lifecycle, ResetSlots, AllSlots
  <2>2. Clean(d)'
    BY <1>2, CleanAfterReset DEF CoreReset
  <2>3. QED
    BY <2>1, <2>2
<1>3. CASE ~mmio_reset_pulse /\ slot_state[d] = "SLOT_IDLE"
  <2>1. Clean(d)'
    BY <1>3, CleanStays
  <2>2. /\ slot_state'[d] = IF desc_assign = d THEN "SLOT_RUN" ELSE "SLOT_IDLE"
        /\ core_reset_pulse'[d] = FALSE
        /\ desc_assign = d => /\ have_dimensions'[d] = FALSE
                              /\ input_fifo_occupied_len'[d] = 0
                              /\ output_fifo_occupied_len'[d] = 0
    BY <1>3, SlotSteps DEF SlotState, InputOccupied, OutputOccupied
  <2>3. /\ Len(input_fifo'[d]) = 0 /\ Len(output_fifo'[d]) = 0 /\ core'[d].dims = FALSE
    BY <2>1 DEF Clean, FreshCore
  <2>4. QED
    BY <2>1, <2>2, <2>3
<1>4. CASE ~mmio_reset_pulse /\ slot_state[d] \in {"SLOT_RUN", "SLOT_RESET_PULSE"}
  <2>1. desc_assign # d /\ ~CoreReset(d)
    BY <1>4, SlotSteps DEF TopSound, SlotsKept, CoreReset
  <2>2. /\ slot_state'[d] \in {"SLOT_RUN", "SLOT_RESET_PULSE", "SLOT_RESET_HOLD"}
        /\ slot_state'[d] = "SLOT_RESET_HOLD" <=> slot_state[d] = "SLOT_RESET_PULSE"
        /\ slot_state'[d] = "SLOT_RUN" => slot_state[d] = "SLOT_RUN"
    BY <1>4, <2>1, SlotSteps DEF SlotState
  <2>3. /\ input_fifo_occupied_len[d] = Len(input_fifo[d])
        /\ output_fifo_occupied_len[d] = Len(output_fifo[d])
        /\ slot_state[d] = "SLOT_RUN" => have_dimensions[d] = core[d].dims
    BY <1>4 DEF TopSound, SlotsKept
  <2>4. /\ input_fifo_occupied_len'[d] = Len(input_fifo'[d])
        /\ output_fifo_occupied_len'[d] = Len(output_fifo'[d])
    BY <1>4, <2>1, <2>3, SlotSteps, InputFifoStep, OutputFifoStep
    DEF InputOccupied, OutputOccupied
  <2>5. core'[d].dims = (core[d].dims \/ d \in in.dims)
    BY <2>1 DEF Cycle, Cores
  <2>6. have_dimensions'[d] = (d \in in.dims \/ have_dimensions[d])
    BY <1>4, <2>1, SlotSteps
  <2>7. /\ core_reset_pulse'[d] <=> slot_state'[d] = "SLOT_RESET_HOLD"
    BY <1>4, <2>2, SlotSteps
  <2>8. QED
    BY <2>2, <2>3, <2>4, <2>5, <2>6, <2>7
<1>5. CASE ~mmio_reset_pulse /\ slot_state[d] = "SLOT_RESET_HOLD"
  <2>1. slot_state'[d] = "SLOT_IDLE" /\ core_reset_pulse'[d] = FALSE
    BY <1>5, SlotSteps DEF SlotState
  <2>2. Clean(d)'
    BY <1>5, QuietSlot, CleanAfterReset
  <2>3. QED
    BY <2>1, <2>2
<1>6. QED
  BY <1>1, <1>2, <1>3, <1>4, <1>5 DEF SlotStates

LEMMA SlotRangeStep ==
  ASSUME TopSound, NEW in \in Inputs, Cycle(in)
  PROVE  SlotRange'
<1>1. /\ SlotRange /\ QueueRange /\ ServiceRange /\ Lifecycle(in)
  BY DEF TopSound, TopRange, Cycle
<1>2. CASE mmio_reset_pulse
  <2>1. ResetSlots /\ 0 \in 0..InputFifoDepth /\ 0 \in 0..OutputFifoDepth
    BY <1>1, <1>2, TopAssumption DEF Lifecycle
  <2>2. QED
    BY <2>1, DecoderFacts DEF ResetSlots, SlotRange, AllSlots, SlotStates, NoImage
<1>3. CASE ~mmio_reset_pulse
  <2>1. Slots(in) /\ Accounting(in)
    BY <1>1, <1>3 DEF Lifecycle
  <2>2. Front \in Ids /\ Beats(SourceLen, Front) \in Word
    <3>1. Front \in Ids
      BY <1>1, DecoderFacts DEF Front, QueueRange, NoImage
    <3>2. Front # NoImage => SourceLen[Front] \in 1..(WordSize - 1)
      BY <3>1, TopAssumption DEF Ids
    <3>3. QED
      BY <3>1, <3>2, DecoderFacts DEF Beats, Word
  <2>3. \A d \in Decoders : Beats(PixelLen, task_id[d]) \in Word
    <3>1. \A i \in Ids : i # NoImage => PixelLen[i] \in 1..(WordSize - 1)
      BY TopAssumption DEF Ids
    <3>2. \A i \in Ids : Beats(PixelLen, i) \in Word
      BY <3>1, DecoderFacts DEF Beats, Word
    <3>3. QED
      BY <1>1, <3>2 DEF SlotRange
  <2>4. dma_read_desc.len \in Nat /\ dma_write_desc.len \in Nat
    BY <1>1 DEF ServiceRange, Transfer
  <2>5. \A a \in Word, n \in Nat : Minus(a, n) \in Word
    BY TopAssumption DEF Minus, Word
  <2>6. ASSUME NEW d \in Decoders
        PROVE  /\ slot_state'[d] \in SlotStates /\ task_id'[d] \in Ids
               /\ have_dimensions'[d] \in BOOLEAN /\ core_reset_pulse'[d] \in BOOLEAN
    BY <1>1, <2>1, <2>2 DEF Slots, SlotRange, SlotState, SlotStates
  <2>7. ASSUME NEW d \in Decoders
        PROVE  /\ task_src_addr'[d] \in Nat /\ task_dst_addr'[d] \in Nat
               /\ task_src_len'[d] \in Word /\ write_bytes_remaining'[d] \in Word
    <3>1. /\ task_src_addr[d] \in Nat /\ task_dst_addr[d] \in Nat
          /\ task_src_len[d] \in Word /\ write_bytes_remaining[d] \in Word /\ 0 \in Word
      BY <1>1, DecoderFacts DEF SlotRange
    <3>2. /\ task_src_addr[d] + dma_read_desc.len \in Nat
          /\ task_dst_addr[d] + dma_write_desc.len \in Nat
      BY <2>4, <3>1
    <3>3. /\ Minus(task_src_len[d], dma_read_desc.len) \in Word
          /\ Minus(write_bytes_remaining[d], dma_write_desc.len) \in Word
      BY <2>4, <2>5, <3>1
    <3>4. QED
      BY <2>1, <2>2, <2>3, <3>1, <3>2, <3>3 DEF Accounting
  <2>8. ASSUME NEW d \in Decoders
        PROVE  /\ input_fifo_occupied_len'[d] \in 0..InputFifoDepth
               /\ output_fifo_occupied_len'[d] \in 0..OutputFifoDepth
    <3>1. CASE slot_state'[d] # "SLOT_IDLE"
      <4>1. /\ input_fifo_occupied_len'[d] = Len(input_fifo'[d])
            /\ output_fifo_occupied_len'[d] = Len(output_fifo'[d])
        BY <3>1, SlotsKeptStep DEF SlotsKept
      <4>2. /\ Len(input_fifo'[d]) \in Nat /\ Len(input_fifo'[d]) <= InputFifoDepth
            /\ Len(output_fifo'[d]) \in Nat /\ Len(output_fifo'[d]) <= OutputFifoDepth
        BY InputFifoStep, OutputFifoStep
      <4>3. QED
        BY <4>1, <4>2, TopAssumption
    <3>2. CASE slot_state'[d] = "SLOT_IDLE"
      <4>1. slot_state[d] \in {"SLOT_IDLE", "SLOT_RESET_HOLD"} /\ desc_assign # d
        BY <1>1, <1>3, <3>2, SlotSteps DEF SlotState, SlotRange, SlotStates
      <4>2. /\ ~Read(in, d) /\ ~Written(in, d) /\ d \notin in.pop /\ d \notin in.push
        BY <4>1, QuietSlot
      <4>3. /\ input_fifo_occupied_len[d] \in 0..InputFifoDepth
            /\ output_fifo_occupied_len[d] \in 0..OutputFifoDepth
        BY <1>1 DEF SlotRange
      <4>4. /\ input_fifo_occupied_len'[d] = input_fifo_occupied_len[d]
            /\ output_fifo_occupied_len'[d] = output_fifo_occupied_len[d]
        BY <1>3, <4>1, <4>2, <4>3, SlotSteps, TopAssumption DEF InputOccupied, OutputOccupied, Flag
      <4>5. QED
        BY <4>3, <4>4
    <3>3. QED
      BY <3>1, <3>2
  <2>9. QED
    BY <2>1, <2>6, <2>7, <2>8 DEF SlotRange, Slots, Accounting
<1>4. QED
  BY <1>2, <1>3

LEMMA TopRangeStep ==
  ASSUME TopSound, NEW in \in Inputs, Cycle(in)
  PROVE  TopRange'
BY MmioRangeStep, QueueRangeStep, ServiceRangeStep, SlotRangeStep, ExternalRangeStep
DEF TopRange

-----------------------------------------------------------------------------
(* Transfers *)

LEMMA RunsOn ==
  ASSUME TopSound, NEW in \in Inputs, Cycle(in), ~mmio_reset_pulse,
         NEW d \in Decoders, slot_state[d] = "SLOT_RUN", ~Finished(d)
  PROVE  slot_state'[d] = "SLOT_RUN" /\ desc_assign # d
BY SlotSteps DEF SlotState

(* What a slot has still to read changes only at the end of its transfer,   *)
(* what it has still to write only at the status of one.                    *)
LEMMA CanReadStays ==
  ASSUME TopSound, NEW in \in Inputs, Cycle(in), ~mmio_reset_pulse,
         NEW d \in Decoders, CanRead(d), ~(read_data_last(in) /\ read_service_decoder = d)
  PROVE  CanRead(d)' /\ task_src_len'[d] = task_src_len[d] /\ task_src_addr'[d] = task_src_addr[d]
<1>1. task_src_len[d] \in Nat
  BY DecoderFacts DEF TopSound, TopRange, SlotRange, Word
<1>2. ~Finished(d)
  BY <1>1 DEF CanRead, Finished
<1>3. slot_state'[d] = "SLOT_RUN" /\ desc_assign # d
  BY <1>2, RunsOn DEF CanRead
<1>4. /\ Accounting(in)
  BY DEF Cycle, Lifecycle
<1>5. task_src_len'[d] = task_src_len[d] /\ task_src_addr'[d] = task_src_addr[d]
  BY <1>3, <1>4 DEF Accounting, Read
<1>6. QED
  BY <1>3, <1>5 DEF CanRead

LEMMA CanWriteStays ==
  ASSUME TopSound, NEW in \in Inputs, Cycle(in), ~mmio_reset_pulse,
         NEW d \in Decoders, CanWrite(d), ~(in.status /\ write_service_decoder = d)
  PROVE  /\ CanWrite(d)' /\ write_bytes_remaining'[d] = write_bytes_remaining[d]
         /\ task_dst_addr'[d] = task_dst_addr[d]
<1>1. write_bytes_remaining[d] \in Nat /\ have_dimensions[d]
  BY DecoderFacts DEF TopSound, TopRange, SlotRange, Word, CanWrite
<1>2. ~Finished(d)
  BY <1>1 DEF CanWrite, Finished
<1>3. slot_state'[d] = "SLOT_RUN" /\ desc_assign # d
  BY <1>2, RunsOn DEF CanWrite
<1>4. core[d].dims /\ d \notin in.dims
  BY <1>1, InputFacts DEF CanWrite, TopSound, SlotsKept
<1>5. Slots(in) /\ Accounting(in)
  BY DEF Cycle, Lifecycle
<1>6. /\ write_bytes_remaining'[d] = write_bytes_remaining[d]
      /\ task_dst_addr'[d] = task_dst_addr[d]
  BY <1>3, <1>4, <1>5 DEF Accounting
<1>7. have_dimensions'[d]
  BY <1>1, <1>3, <1>5 DEF Slots
<1>8. QED
  BY <1>3, <1>6, <1>7 DEF CanWrite

(* In a cycle without a reset the read half ends a transfer, takes one,     *)
(* delivers a beat or waits.                                                *)
ReadEnds ==
  /\ read_engine.busy /\ read_engine.left = 1
  /\ read_engine' = IdleEngine /\ ~read_service_active'
  /\ read_service_decoder' = read_service_decoder
ReadStarts ==
  /\ dma_read_desc.valid /\ ~read_engine.busy
  /\ read_engine'.busy /\ read_engine'.addr = dma_read_desc.addr
  /\ read_engine'.left = dma_read_desc.len
  /\ read_service_active' /\ read_service_decoder' = dma_read_desc.decoder
ReadMoves ==
  /\ read_engine.busy /\ read_engine.left > 1
  /\ read_engine'.busy /\ read_engine'.addr = Onward(read_engine.addr, 1)
  /\ read_engine'.left = read_engine.left - 1
  /\ read_service_active' /\ read_service_decoder' = read_service_decoder
ReadWaits ==
  /\ read_engine' = read_engine
  /\ (read_service_active' <=> read_service_active)
  /\ read_service_decoder' = read_service_decoder

LEMMA ReadSteps ==
  ASSUME TopSound, NEW in \in Inputs, Cycle(in), ~mmio_reset_pulse
  PROVE  \/ read_data_last(in) /\ in.read_beat /\ ReadEnds
         \/ ~in.read_beat /\ ReadStarts
         \/ ~read_data_last(in) /\ in.read_beat /\ ReadMoves
         \/ ~in.read_beat /\ ReadWaits
<1>1. /\ read_engine \in Engine /\ (read_service_active <=> read_engine.busy)
      /\ (read_service_active => read_engine.left > 0)
      /\ ReadEngine(in) /\ ReadService(in)
  <2>1. TransfersServed /\ ExternalRange /\ ServiceRange
    BY DEF TopSound, TopRange
  <2>2. ReadEngine(in) /\ ReadService(in)
    BY DEF Cycle, Lifecycle
  <2>3. QED
    BY <2>1, <2>2 DEF TransfersServed, ExternalRange
<1>2. /\ in.read_ready => dma_read_desc.valid /\ ~read_engine.busy
      /\ in.read_beat => read_engine.busy /\ read_service_active
      /\ in.read_ready \in BOOLEAN /\ in.read_beat \in BOOLEAN
  BY InputFacts
<1>3. CASE in.read_beat /\ read_engine.left = 1
  <2>1. read_data_last(in) /\ ~read_desc_fire(in)
    BY <1>2, <1>3 DEF read_data_last, read_desc_fire
  <2>2. read_engine' = IdleEngine
    BY <1>1, <2>1 DEF ReadEngine
  <2>3. ~read_service_active' /\ read_service_decoder' = read_service_decoder
    BY <1>1, <2>1, Zenon DEF ReadService
  <2>4. QED
    BY <1>2, <1>3, <2>1, <2>2, <2>3 DEF ReadEnds
<1>4. CASE in.read_beat /\ read_engine.left # 1
  <2>1. ~read_data_last(in) /\ ~read_desc_fire(in)
    BY <1>2, <1>4 DEF read_data_last, read_desc_fire
  <2>3. read_engine.left > 1 /\ read_engine.left - 1 \in Nat
    BY <1>1, <1>2, <1>4 DEF Engine
  <2>2. PICK e, n : /\ e = read_engine /\ n = e.left - 1
                    /\ read_engine' = [e EXCEPT !.addr = Onward(@, 1), !.left = n]
    BY <1>1, <1>4, <2>1 DEF ReadEngine
  <2>4. /\ read_engine'.busy = read_engine.busy /\ read_engine'.addr = Onward(read_engine.addr, 1)
        /\ read_engine'.left = read_engine.left - 1
    <3>1. e \in Engine /\ n \in Nat /\ 1 \in Nat /\ TRUE \in BOOLEAN
      BY <1>1, <2>2, <2>3
    <3>2. LET moved == [e EXCEPT !.addr = Onward(@, 1), !.left = n]
          IN  moved.busy = e.busy /\ moved.addr = Onward(e.addr, 1) /\ moved.left = n
      BY <3>1 DEF Engine
    <3>3. QED
      BY <2>2, <3>2
  <2>5. read_service_active' /\ read_service_decoder' = read_service_decoder
    BY <1>1, <1>2, <1>4, <2>1, Zenon DEF ReadService
  <2>6. QED
    BY <1>2, <1>4, <2>1, <2>3, <2>4, <2>5 DEF ReadMoves
<1>5. CASE ~in.read_beat /\ read_desc_fire(in)
  <2>1. ~read_data_last(in) /\ dma_read_desc.valid /\ ~read_engine.busy
    BY <1>2, <1>5 DEF read_data_last, read_desc_fire
  <2>2. read_engine' = [busy |-> TRUE, addr |-> dma_read_desc.addr,
                        left |-> dma_read_desc.len, last |-> FALSE]
    BY <1>1, <1>5, <2>1 DEF ReadEngine
  <2>3. read_service_active' /\ read_service_decoder' = dma_read_desc.decoder
    BY <1>1, <1>5, <2>1, Zenon DEF ReadService
  <2>4. QED
    BY <1>5, <2>1, <2>2, <2>3 DEF ReadStarts
<1>6. CASE ~in.read_beat /\ ~read_desc_fire(in)
  <2>1. ~read_data_last(in)
    BY <1>6 DEF read_data_last
  <2>2. read_engine' = read_engine
    BY <1>1, <1>6, <2>1 DEF ReadEngine
  <2>3. (read_service_active' <=> read_service_active) /\ read_service_decoder' = read_service_decoder
    BY <1>1, <1>6, <2>1, Zenon DEF ReadService
  <2>4. QED
    BY <1>6, <2>2, <2>3 DEF ReadWaits
<1>7. QED
  BY <1>3, <1>4, <1>5, <1>6

(* The write half answers with a status, takes a transfer, takes a beat,    *)
(* which it drops if it is one too many, or waits.                          *)
WriteEnds ==
  /\ write_engine.busy /\ write_engine.last
  /\ write_engine' = IdleEngine /\ ~write_service_active'
  /\ write_service_decoder' = write_service_decoder
  /\ write_chunk_bytes_sent' = 0 /\ ~write_chunk_data_done'
WriteStarts ==
  /\ dma_write_desc.valid /\ ~write_engine.busy
  /\ write_engine'.busy /\ write_engine'.addr = dma_write_desc.addr
  /\ write_engine'.left = dma_write_desc.len /\ ~write_engine'.last
  /\ write_service_active' /\ write_service_decoder' = dma_write_desc.decoder
  /\ write_chunk_bytes_sent' = write_chunk_bytes_sent
  /\ (write_chunk_data_done' <=> write_chunk_data_done)
WriteMoves ==
  LET kept == Flag(write_engine.left > 0)
  IN  /\ write_engine.busy
      /\ write_engine'.busy /\ write_engine'.addr = Onward(write_engine.addr, kept)
      /\ write_engine'.left = write_engine.left - kept
      /\ (write_engine'.last <=> write_data_tlast)
      /\ write_service_active' /\ write_service_decoder' = write_service_decoder
      /\ write_chunk_bytes_sent' = write_chunk_bytes_sent + 1
      /\ (write_chunk_data_done' <=> write_data_tlast \/ write_chunk_data_done)
WriteWaits ==
  /\ write_engine' = write_engine
  /\ (write_service_active' <=> write_service_active)
  /\ write_service_decoder' = write_service_decoder
  /\ write_chunk_bytes_sent' = write_chunk_bytes_sent
  /\ (write_chunk_data_done' <=> write_chunk_data_done)

LEMMA WriteSteps ==
  ASSUME TopSound, NEW in \in Inputs, Cycle(in), ~mmio_reset_pulse
  PROVE  \/ in.status /\ WriteEnds
         \/ ~in.status /\ ~in.write_beat /\ WriteStarts
         \/ ~in.status /\ in.write_beat /\ WriteMoves
         \/ ~in.status /\ ~in.write_beat /\ WriteWaits
<1>1. /\ write_engine \in Engine /\ (write_service_active <=> write_engine.busy)
      /\ write_chunk_bytes_sent \in Nat
      /\ WriteEngine(in) /\ WriteService(in)
  <2>1. TransfersServed /\ ExternalRange /\ ServiceRange
    BY DEF TopSound, TopRange
  <2>2. WriteEngine(in) /\ WriteService(in)
    BY DEF Cycle, Lifecycle
  <2>3. QED
    BY <2>1, <2>2 DEF TransfersServed, ExternalRange, ServiceRange
<1>2. /\ in.write_ready => dma_write_desc.valid /\ ~write_engine.busy
      /\ in.write_beat => write_engine.busy /\ write_service_active
      /\ in.status => write_engine.busy /\ write_engine.last
      /\ in.status \in BOOLEAN /\ in.write_ready \in BOOLEAN /\ in.write_beat \in BOOLEAN
  BY InputFacts
<1>3. CASE in.status
  <2>1. ~write_desc_fire(in)
    BY <1>2, <1>3 DEF write_desc_fire
  <2>2. write_engine' = IdleEngine
    BY <1>1, <1>3 DEF WriteEngine
  <2>3. /\ ~write_service_active' /\ write_service_decoder' = write_service_decoder
        /\ write_chunk_bytes_sent' = 0 /\ ~write_chunk_data_done'
    BY <1>1, <1>3, <2>1, Zenon DEF WriteService
  <2>4. QED
    BY <1>2, <1>3, <2>2, <2>3 DEF WriteEnds
<1>4. CASE ~in.status /\ in.write_beat
  <2>1. ~write_desc_fire(in)
    BY <1>2, <1>4 DEF write_desc_fire
  <2>2. PICK kept, n, b :
          /\ kept = Flag(write_engine.left > 0) /\ n = write_engine.left - kept
          /\ b = write_data_tlast
          /\ write_engine' = [write_engine EXCEPT !.addr = Onward(@, kept), !.left = n,
                                                  !.last = b]
    BY <1>1, <1>4, <2>1 DEF WriteEngine
  <2>3. kept \in Nat /\ n \in Nat /\ b \in BOOLEAN
    BY <1>1, <2>2 DEF Engine, Flag, write_data_tlast
  <2>4. /\ write_engine'.busy = write_engine.busy
        /\ write_engine'.addr = Onward(write_engine.addr, kept)
        /\ write_engine'.left = n /\ write_engine'.last = b
    <3>1. write_engine \in Engine /\ n \in Nat /\ kept \in Nat /\ b \in BOOLEAN
      BY <1>1, <2>2, <2>3
    <3>2. LET ended == [write_engine EXCEPT !.addr = Onward(@, kept), !.left = n, !.last = b]
          IN  /\ ended.busy = write_engine.busy /\ ended.addr = Onward(write_engine.addr, kept)
              /\ ended.left = n /\ ended.last = b
      BY <3>1 DEF Engine
    <3>3. QED
      BY <2>2, <3>2
  <2>5. /\ write_service_active' /\ write_service_decoder' = write_service_decoder
        /\ (write_chunk_data_done' <=> write_data_tlast \/ write_chunk_data_done)
    BY <1>1, <1>2, <1>4, <2>1, Zenon DEF WriteService
  <2>6. write_chunk_bytes_sent' = write_chunk_bytes_sent + 1
    BY <1>1, <1>4 DEF WriteService, Flag
  <2>7. QED
    BY <1>2, <1>4, <2>2, <2>4, <2>5, <2>6 DEF WriteMoves
<1>5. CASE ~in.status /\ ~in.write_beat /\ write_desc_fire(in)
  <2>1. dma_write_desc.valid /\ ~write_engine.busy
    BY <1>2, <1>5 DEF write_desc_fire
  <2>2. write_engine' = [busy |-> TRUE, addr |-> dma_write_desc.addr,
                         left |-> dma_write_desc.len, last |-> FALSE]
    BY <1>1, <1>5 DEF WriteEngine
  <2>3. /\ write_service_active' /\ write_service_decoder' = dma_write_desc.decoder
        /\ (write_chunk_data_done' <=> write_chunk_data_done)
    BY <1>1, <1>5, Zenon DEF WriteService
  <2>4. write_chunk_bytes_sent' = write_chunk_bytes_sent
    BY <1>1, <1>5 DEF WriteService, Flag
  <2>5. QED
    BY <1>5, <2>1, <2>2, <2>3, <2>4 DEF WriteStarts
<1>6. CASE ~in.status /\ ~in.write_beat /\ ~write_desc_fire(in)
  <2>1. write_engine' = write_engine
    BY <1>1, <1>6 DEF WriteEngine
  <2>2. /\ (write_service_active' <=> write_service_active)
        /\ write_service_decoder' = write_service_decoder
        /\ (write_chunk_data_done' <=> write_chunk_data_done)
    BY <1>1, <1>6, Zenon DEF WriteService
  <2>3. write_chunk_bytes_sent' = write_chunk_bytes_sent
    BY <1>1, <1>6 DEF WriteService, Flag
  <2>4. QED
    BY <1>6, <2>1, <2>2, <2>3 DEF WriteWaits
<1>7. QED
  BY <1>3, <1>4, <1>5, <1>6

LEMMA TransfersServedStep ==
  ASSUME TopSound, NEW in \in Inputs, Cycle(in)
  PROVE  TransfersServed'
<1>1. /\ TransfersServed /\ ServiceRange /\ SlotRange /\ ExternalRange
      /\ ReadArbiter /\ WriteArbiter /\ ReadEngine(in) /\ WriteEngine(in) /\ Lifecycle(in)
  BY DEF TopSound, TopRange, Cycle
<1>2. CASE mmio_reset_pulse
  <2>1. /\ read_service_active' = FALSE /\ write_service_active' = FALSE
        /\ read_engine' = IdleEngine /\ write_engine' = IdleEngine
        /\ dma_read_desc' = NoTransfer /\ dma_write_desc' = NoTransfer
    <3>1. read_service_active' = FALSE /\ write_service_active' = FALSE
      BY <1>1, <1>2, Zenon DEF Lifecycle, ResetSlots
    <3>2. read_engine' = IdleEngine /\ write_engine' = IdleEngine
      BY <1>1, <1>2 DEF ReadEngine, WriteEngine
    <3>3. dma_read_desc' = NoTransfer /\ dma_write_desc' = NoTransfer
      BY <1>1, <1>2 DEF ReadArbiter, WriteArbiter
    <3>4. QED
      BY <3>1, <3>2, <3>3
  <2>2. QED
    BY <2>1 DEF TransfersServed, IdleEngine, NoTransfer
<1>3. CASE ~mmio_reset_pulse
  <2>1. ReadService(in) /\ WriteService(in)
    BY <1>1, <1>3 DEF Lifecycle
  <2>2. /\ read_desc_fire(in) => ~read_engine.busy
        /\ read_data_last(in) => read_engine.busy /\ read_service_active
        /\ in.read_beat => read_engine.busy
        /\ write_desc_fire(in) => ~write_engine.busy
        /\ in.status => write_engine.busy
        /\ in.write_beat => write_engine.busy
    BY InputFacts DEF read_desc_fire, read_data_last, write_desc_fire
  <2>3. read_service_active' = read_engine'.busy
    <3>1. read_service_active' <=> read_engine'.busy
      BY <1>1, <1>3, ReadSteps
      DEF ReadEnds, ReadStarts, ReadMoves, ReadWaits, IdleEngine, TransfersServed
    <3>2. read_service_active' \in BOOLEAN /\ read_engine'.busy \in BOOLEAN
      BY ServiceRangeStep, ExternalRangeStep DEF ServiceRange, ExternalRange, Engine
    <3>3. QED
      BY <3>1, <3>2
  <2>4. write_service_active' = write_engine'.busy
    <3>1. write_service_active' <=> write_engine'.busy
      BY <1>1, <1>3, WriteSteps
      DEF WriteEnds, WriteStarts, WriteMoves, WriteWaits, IdleEngine, TransfersServed
    <3>2. write_service_active' \in BOOLEAN /\ write_engine'.busy \in BOOLEAN
      BY ServiceRangeStep, ExternalRangeStep DEF ServiceRange, ExternalRange, Engine
    <3>3. QED
      BY <3>1, <3>2
  <2>5. ASSUME dma_read_desc'.valid
        PROVE  CanRead(dma_read_desc.decoder)' /\ dma_read_desc'.len > 0
    <3>1. ~read_service_active /\ ReadEligible # {}
      BY <1>1, <1>3, <2>5 DEF ReadArbiter, ServiceRange, Transfer
    <3>2. PICK d : /\ d = Pick(read_rr_ptr, ReadEligible)
                   /\ dma_read_desc'.decoder = d
                   /\ dma_read_desc'.len = Lower(task_src_len[d], InputFree(d))
      BY <1>1, <1>3, <3>1 DEF ReadArbiter
    <3>3. d \in ReadEligible
      BY <1>1, <3>1, <3>2, PickEligible DEF ReadEligible, ServiceRange
    <3>4. d \in Decoders /\ CanRead(d) /\ dma_read_desc'.len > 0
      BY <3>2, <3>3 DEF ReadEligible, CanRead, Lower
    <3>5. CanRead(d)'
      BY <1>3, <2>2, <3>1, <3>4, CanReadStays
    <3>6. QED
      BY <3>2, <3>4, <3>5 DEF CanRead
  <2>6. ASSUME dma_write_desc'.valid
        PROVE  CanWrite(dma_write_desc.decoder)' /\ dma_write_desc'.len > 0
    <3>1. ~write_service_active /\ WriteEligible # {}
      BY <1>1, <1>3, <2>6 DEF WriteArbiter, ServiceRange, Transfer
    <3>2. PICK d : /\ d = Pick(write_rr_ptr, WriteEligible)
                   /\ dma_write_desc'.decoder = d
                   /\ dma_write_desc'.len =
                        Lower(write_bytes_remaining[d], output_fifo_occupied_len[d])
      BY <1>1, <1>3, <3>1 DEF WriteArbiter
    <3>3. d \in WriteEligible
      BY <1>1, <3>1, <3>2, PickEligible DEF WriteEligible, ServiceRange
    <3>4. d \in Decoders /\ CanWrite(d) /\ dma_write_desc'.len > 0
      BY <3>2, <3>3 DEF WriteEligible, CanWrite, Lower
    <3>5. ~in.status
      BY <1>1, <2>2, <3>1 DEF TransfersServed
    <3>6. CanWrite(d)'
      BY <1>3, <3>4, <3>5, CanWriteStays
    <3>7. QED
      BY <3>2, <3>4, <3>6 DEF CanWrite
  <2>7. ASSUME read_service_active'
        PROVE  CanRead(read_service_decoder)' /\ read_engine'.left > 0
    <3>1. \/ ~in.read_beat /\ ReadStarts
          \/ ~read_data_last(in) /\ ReadMoves
          \/ ~in.read_beat /\ ReadWaits /\ read_service_active
      BY <1>3, <2>7, ReadSteps DEF ReadEnds, ReadWaits
    <3>2. ~read_data_last(in)
      BY <3>1 DEF read_data_last
    <3>3. read_engine'.left > 0
      BY <1>1, <3>1 DEF ReadStarts, ReadMoves, ReadWaits, TransfersServed, ExternalRange, Engine
    <3>4. PICK d \in Decoders : d = read_service_decoder' /\ CanRead(d)
      BY <1>1, <3>1
      DEF ReadStarts, ReadMoves, ReadWaits, TransfersServed, ServiceRange, Transfer
    <3>5. slot_state'[d] = "SLOT_RUN" /\ task_src_len'[d] > 0
      BY <1>3, <3>2, <3>4, CanReadStays DEF CanRead
    <3>6. QED
      BY <3>3, <3>4, <3>5 DEF CanRead
  <2>8. ASSUME write_service_active'
        PROVE  CanWrite(write_service_decoder)'
    <3>1. ~in.status /\ (WriteStarts \/ WriteMoves \/ (WriteWaits /\ write_service_active))
      BY <1>3, <2>8, WriteSteps DEF WriteEnds, WriteWaits
    <3>2. PICK d \in Decoders : d = write_service_decoder' /\ CanWrite(d)
      BY <1>1, <3>1
      DEF WriteStarts, WriteMoves, WriteWaits, TransfersServed, ServiceRange, Transfer
    <3>3. slot_state'[d] = "SLOT_RUN" /\ have_dimensions'[d] /\ write_bytes_remaining'[d] > 0
      BY <1>3, <3>1, <3>2, CanWriteStays DEF CanWrite
    <3>4. QED
      BY <3>2, <3>3 DEF CanWrite
  <2>9. QED
    BY <2>3, <2>4, <2>5, <2>6, <2>7, <2>8 DEF TransfersServed
<1>4. QED
  BY <1>2, <1>3

-----------------------------------------------------------------------------
(* The host's accesses. *)

(* A queue that nothing is pushed into does not grow, one that nothing is   *)
(* popped from keeps its head.                                              *)
LEMMA QueueEnds ==
  ASSUME NEW fifo \in Seq(Ids), NEW push, NEW pop, NEW item \in Ids
  PROVE  /\ ~push => Len(Queue(fifo, push, item, pop)) <= Len(fifo)
         /\ ~pop /\ fifo # <<>> => /\ Queue(fifo, push, item, pop) # <<>>
                                   /\ Head(Queue(fifo, push, item, pop)) = Head(fifo)
BY DEF Queue

LEMMA AssignmentWaitsStep ==
  ASSUME TopSound, NEW in \in Inputs, Cycle(in)
  PROVE  AssignmentWaits'
<1> SUFFICES ASSUME desc_assign' # NoDecoder
             PROVE  /\ slot_state'[desc_assign'] = "SLOT_IDLE"
                    /\ host'.resets = 0 => desc_fifo' # <<>>
  BY DEF AssignmentWaits
<1>1. /\ MmioRange /\ QueueRange /\ SlotRange /\ ServiceRange /\ ExternalRange /\ OneAccess
      /\ AssignDescriptor /\ MmioFifos(in.status) /\ Host(in) /\ Lifecycle(in)
  BY DEF TopSound, TopRange, Cycle
<1> DEFINE idle == {d \in Decoders : slot_state[d] = "SLOT_IDLE"}
<1>2. /\ desc_assign = NoDecoder /\ desc_fifo # <<>> /\ idle # {}
      /\ desc_assign' = CHOOSE d \in idle : \A e \in idle : d <= e
  BY <1>1 DEF AssignDescriptor
<1>3. desc_assign' \in idle
  <2> HIDE DEF idle
  <2>1. idle \in SUBSET Decoders
    BY DEF idle
  <2>2. QED
    BY <1>2, <2>1, FirstIdle
<1>4. CASE mmio_reset_pulse
  <2>1. slot_state'[desc_assign'] = "SLOT_IDLE"
    BY <1>1, <1>3, <1>4 DEF Lifecycle, ResetSlots, AllSlots
  <2>2. host.resets \in Nat /\ host.resets > 0
    BY <1>1, <1>4 DEF OneAccess, ExternalRange
  <2>3. host'.resets > 0
    BY <1>1, <2>2 DEF Host, Flag
  <2>4. QED
    BY <2>1, <2>3
<1>5. CASE ~mmio_reset_pulse
  <2>1. slot_state'[desc_assign'] = "SLOT_IDLE"
    <3>1. ASSUME NEW d \in Decoders, d = desc_assign'
          PROVE  slot_state'[d] = "SLOT_IDLE"
      BY <1>2, <1>3, <1>5, <3>1, SlotSteps, DecoderFacts DEF SlotState
    <3>2. QED
      BY <1>3, <3>1
  <2>2. desc_fifo' # <<>>
    <3>1. mmio_desc \in Ids /\ desc_fifo \in Seq(Ids)
      BY <1>1 DEF MmioRange, QueueRange
    <3>2. QED
      BY <1>1, <1>2, <1>5, <3>1, QueueEnds DEF MmioFifos, desc_fifo_pop
  <2>3. QED
    BY <2>1, <2>2
<1>6. QED
  BY <1>4, <1>5

(* The next state of an access. *)
LEMMA MmioSteps ==
  ASSUME TopSound, NEW in \in Inputs, Cycle(in)
  PROVE  /\ axil_wr_state = "WR_RESP" => axil_wr_state' = "WR_IDLE" /\ held_write' = "none"
         /\ axil_wr_state = "WR_IDLE" /\ held_write # "none" =>
              axil_wr_state' = "WR_RESP" /\ held_write' = held_write
         /\ axil_wr_state = "WR_IDLE" /\ held_write = "none" =>
              /\ axil_wr_state' = "WR_IDLE"
              /\ held_write' = IF in.access \in Writes THEN in.access ELSE "none"
         /\ in.access # "none" => /\ axil_wr_state = "WR_IDLE" /\ axil_rd_state = "RD_IDLE"
                                  /\ held_write = "none" /\ HostMayPresent(in.access)
         /\ desc_fifo_push \/ mmio_reset_pulse => axil_wr_state = "WR_RESP"
         /\ axil_rd_state = "RD_RESP" => axil_wr_state = "WR_IDLE" /\ held_write = "none"
<1>1. MmioRange /\ OneAccess /\ MmioWrite(in.access)
  BY DEF TopSound, TopRange, Cycle
<1>2. in.access # "none" => /\ axil_wr_state = "WR_IDLE" /\ axil_rd_state = "RD_IDLE"
                            /\ held_write = "none" /\ HostMayPresent(in.access)
  BY InputFacts DEF HostMayPresent
<1>3. QED
  BY <1>1, <1>2 DEF MmioWrite, MmioRange, OneAccess

LEMMA OneAccessStep ==
  ASSUME TopSound, NEW in \in Inputs, Cycle(in)
  PROVE  OneAccess'
<1>1. /\ MmioRange /\ QueueRange /\ ServiceRange /\ SlotRange /\ ExternalRange /\ OneAccess
      /\ MmioWrite(in.access) /\ MmioRead(in.access) /\ MmioFifos(in.status) /\ Host(in)
  BY DEF TopSound, TopRange, Cycle
<1>2. /\ mmio_desc \in Ids /\ task_id[write_service_decoder] \in Ids
      /\ desc_fifo \in Seq(Ids) /\ cpl_fifo \in Seq(Ids)
      /\ axil_wr_state \in {"WR_IDLE", "WR_RESP"} /\ axil_rd_state \in {"RD_IDLE", "RD_RESP"}
      /\ host.resets \in Nat /\ host.next \in Nat \ {0}
  BY <1>1 DEF MmioRange, QueueRange, ServiceRange, SlotRange, ExternalRange
<1>3. /\ Len(desc_fifo) \in Nat /\ Len(desc_fifo') \in Nat
      /\ ~desc_fifo_push /\ ~mmio_reset_pulse => Len(desc_fifo') <= Len(desc_fifo)
      /\ mmio_reset_pulse => Len(desc_fifo') = 0
  <2>1. Len(desc_fifo') \in Nat
    BY QueueRangeStep DEF QueueRange
  <2>2. QED
    BY <1>1, <1>2, <2>1, QueueEnds DEF MmioFifos
<1>4. /\ axil_wr_state' = "WR_RESP" => held_write' # "none"
  BY <1>2, MmioSteps
<1>5. in.access \in Reads => in.access \notin Writes /\ in.access # "none"
  BY DEF Reads, Writes
<1>6. /\ axil_rd_state' = "RD_RESP" => axil_wr_state' = "WR_IDLE" /\ held_write' = "none"
      /\ axil_rd_state' = "RD_IDLE" => held_read' = NoAnswer /\ ~cpl_fifo_pop'
  <2>1. axil_rd_state' = "RD_RESP" => in.access \in Reads
    BY <1>1 DEF MmioRead
  <2>2. axil_rd_state' = "RD_IDLE" => held_read' = NoAnswer /\ ~cpl_fifo_pop'
    BY <1>1 DEF MmioRead
  <2>3. QED
    BY <1>5, <2>1, <2>2, MmioSteps
<1>7. desc_fifo_push' => /\ axil_wr_state' = "WR_RESP" /\ held_write' = "RegDescCommit"
                         /\ Len(desc_fifo') < DescFifoDepth /\ ~host'.credit
  <2> SUFFICES ASSUME desc_fifo_push'
               PROVE  /\ axil_wr_state' = "WR_RESP" /\ held_write' = "RegDescCommit"
                      /\ Len(desc_fifo') < DescFifoDepth /\ ~host'.credit
    OBVIOUS
  <2>1. Executes("RegDescCommit") /\ ~desc_fifo_full
    BY <1>1 DEF MmioWrite
  <2>2. axil_wr_state = "WR_IDLE" /\ held_write = "RegDescCommit"
    BY <2>1 DEF Executes
  <2>3. Len(desc_fifo) < DescFifoDepth
    BY <1>1, <1>2, <2>1, TopAssumption DEF QueueRange, desc_fifo_full
  <2>4. ~desc_fifo_push /\ ~mmio_reset_pulse
    BY <2>2, MmioSteps
  <2>5. ~host'.credit
    BY <1>1, <2>1 DEF Host
  <2>6. QED
    BY <1>3, <2>2, <2>3, <2>4, <2>5, MmioSteps, TopAssumption
<1>8. mmio_reset_pulse' => /\ axil_wr_state' = "WR_RESP" /\ held_write' = "RegReset"
                           /\ host'.resets > 0
  <2>1. mmio_reset_pulse' => Executes("RegReset")
    BY <1>1 DEF MmioWrite
  <2>2. Executes("RegReset") => host'.resets > 0
    BY <1>1, <1>2 DEF Host, Flag
  <2>3. Executes("RegReset") => axil_wr_state' = "WR_RESP" /\ held_write' = "RegReset"
    BY MmioSteps DEF Executes
  <2>4. QED
    BY <2>1, <2>2, <2>3
<1>9. /\ cpl_fifo_pop' => cpl_fifo' # <<>> /\ held_read'.cpl = Head(cpl_fifo')
      /\ ~cpl_fifo_pop' => held_read'.cpl = NoImage
  <2>1. ASSUME cpl_fifo_pop'
        PROVE  cpl_fifo' # <<>> /\ held_read'.cpl = Head(cpl_fifo')
    <3>1. /\ ~mmio_reset_pulse /\ axil_rd_state = "RD_IDLE" /\ cpl_fifo # <<>>
          /\ in.access = "RegCplStatus"
      BY <1>1, <2>1 DEF MmioRead
    <3>2. held_read' = [NoAnswer EXCEPT !.cpl = Head(cpl_fifo)]
      BY <1>1, <3>1 DEF MmioRead, Reads
    <3>3. held_read'.cpl = Head(cpl_fifo)
      BY <3>2 DEF NoAnswer
    <3>4. ~cpl_fifo_pop
      BY <1>1, <3>1 DEF OneAccess
    <3>5. QED
      BY <1>1, <1>2, <3>1, <3>3, <3>4, QueueEnds DEF MmioFifos
  <2>2. ASSUME ~cpl_fifo_pop'
        PROVE  held_read'.cpl = NoImage
    <3>1. NoAnswer.cpl = NoImage /\ \A n : [NoAnswer EXCEPT !.free = n].cpl = NoImage
      BY DEF NoAnswer
    <3>2. \/ held_read' = NoAnswer
          \/ held_read' = [NoAnswer EXCEPT !.free = DescFifoDepth - Len(desc_fifo)]
      BY <1>1, <2>2 DEF MmioRead
    <3>3. QED
      BY <3>1, <3>2
  <2>3. QED
    BY <2>1, <2>2
<1>10. host'.credit \/ held_read'.free > 0 => Len(desc_fifo') < DescFifoDepth
  <2>1. CASE mmio_reset_pulse
    BY <1>3, <2>1, TopAssumption
  <2>2. ASSUME ~mmio_reset_pulse, host'.credit
        PROVE  Len(desc_fifo') < DescFifoDepth
    <3>1. host.credit \/ held_read.free > 0
      BY <1>1, <2>2 DEF Host
    <3>2. Len(desc_fifo) < DescFifoDepth
      BY <1>1, <3>1 DEF OneAccess
    <3>3. ~desc_fifo_push
      <4>1. NoAnswer.free = 0
        BY DEF NoAnswer
      <4>2. QED
        BY <1>1, <1>2, <3>1, <4>1 DEF OneAccess
    <3>4. QED
      BY <1>3, <2>2, <3>2, <3>3, TopAssumption
  <2>3. ASSUME ~mmio_reset_pulse, held_read'.free > 0
        PROVE  Len(desc_fifo') < DescFifoDepth
    <3>2. /\ in.access \in Reads
          /\ held_read' = [NoAnswer EXCEPT !.free = DescFifoDepth - Len(desc_fifo)]
      <4>1. \/ held_read' = NoAnswer
            \/ held_read' = [NoAnswer EXCEPT !.cpl = Head(cpl_fifo)]
            \/ /\ in.access \in Reads
               /\ held_read' = [NoAnswer EXCEPT !.free = DescFifoDepth - Len(desc_fifo)]
        BY <1>1, <2>3 DEF MmioRead
      <4>2. /\ held_read' # NoAnswer
            /\ held_read' # [NoAnswer EXCEPT !.cpl = Head(cpl_fifo)]
        BY <2>3 DEF NoAnswer
      <4>3. QED
        BY <4>1, <4>2
    <3>3. DescFifoDepth - Len(desc_fifo) > 0
      BY <2>3, <3>2 DEF NoAnswer
    <3>4. ~desc_fifo_push
      BY <1>5, <3>2, MmioSteps
    <3>5. QED
      BY <1>3, <2>3, <3>3, <3>4, TopAssumption
  <2>4. QED
    BY <2>1, <2>2, <2>3
<1>11. ASSUME axil_wr_state' = "WR_IDLE", held_write' \in Writes
       PROVE  /\ in.access = held_write' /\ HostMayPresent(in.access)
              /\ axil_wr_state = "WR_IDLE" /\ held_write = "none"
              /\ host'.next = host.next /\ mmio_desc' = mmio_desc
  <2>1. /\ in.access = held_write' /\ HostMayPresent(in.access)
        /\ axil_wr_state = "WR_IDLE" /\ held_write = "none"
    BY <1>2, <1>11, MmioSteps DEF Writes
  <2>2. \A r : Executes(r) => r = "none"
    BY <2>1 DEF Executes
  <2>3. host'.next = host.next /\ mmio_desc' = mmio_desc
    BY <1>1, <1>2, <2>2 DEF Host, MmioWrite, Flag
  <2>4. QED
    BY <2>1, <2>3
<1>12. Executes("RegDesc")' => host'.next \in Images
  <2> SUFFICES ASSUME axil_wr_state' = "WR_IDLE", held_write' = "RegDesc"
               PROVE  host'.next \in Images
    BY DEF Executes
  <2>1. held_write' \in Writes
    BY DEF Writes
  <2>2. QED
    BY <1>11, <2>1 DEF HostMayPresent
<1>13. Executes("RegDescCommit")' => /\ host'.credit /\ mmio_desc' = host'.next
                                     /\ host'.next \in Images
  <2> SUFFICES ASSUME axil_wr_state' = "WR_IDLE", held_write' = "RegDescCommit"
               PROVE  host'.credit /\ mmio_desc' = host'.next /\ host'.next \in Images
    BY DEF Executes
  <2>1. held_write' \in Writes
    BY DEF Writes
  <2>2. /\ host.credit /\ mmio_desc = host.next /\ held_write = "none"
        /\ host'.next = host.next /\ mmio_desc' = mmio_desc
    BY <1>11, <2>1 DEF HostMayPresent
  <2>3. host'.credit
    BY <1>1, <2>2 DEF Host, Executes
  <2>4. host.next \in Images
    BY <1>2, <2>2 DEF Ids, NoImage
  <2>5. QED
    BY <2>2, <2>3, <2>4
<1>14. QED
  BY <1>4, <1>6, <1>7, <1>8, <1>9, <1>10, <1>12, <1>13 DEF OneAccess

-----------------------------------------------------------------------------
(* The places an image can be in. *)

(* The counters of a slot are words: a difference wraps around only below   *)
(* zero, and is zero only between equals.                                   *)
LEMMA MinusFacts ==
  ASSUME NEW a \in Word, NEW b \in Word
  PROVE  /\ Minus(a, b) \in Word
         /\ Minus(a, b) = IF b <= a THEN a - b ELSE a - b + WordSize
         /\ Minus(a, b) = 0 <=> a = b
<1>1. WordSize \in Nat \ {0} /\ a \in Nat /\ b \in Nat /\ a < WordSize /\ b < WordSize
  BY TopAssumption DEF Word
<1>2. \A n \in Nat : n < WordSize => n % WordSize = n
  BY <1>1
<1>3. \A n \in Int : 0 < n /\ n < WordSize => (-n) % WordSize = WordSize - n
  BY <1>1
<1>4. CASE b <= a
  <2>1. Minus(a, b) = a - b
    BY <1>1, <1>2, <1>4 DEF Minus
  <2>2. QED
    BY <1>1, <1>4, <2>1 DEF Word
<1>5. CASE a < b
  <2>1. Minus(a, b) = a - b + WordSize
    <3>1. PICK n \in Int : n = b - a
      BY <1>1
    <3>2. a - b = -n /\ 0 < n /\ n < WordSize /\ WordSize - n = a - b + WordSize
      BY <1>1, <1>5, <3>1
    <3>3. (-n) % WordSize = WordSize - n
      BY <1>3, <3>2
    <3>4. (a - b) % WordSize = WordSize - n
      BY <3>2, <3>3
    <3>5. QED
      BY <3>2, <3>4 DEF Minus
  <2>2. QED
    BY <1>1, <1>5, <2>1 DEF Word
<1>6. QED
  BY <1>1, <1>4, <1>5

Carried(i) == {d \in Decoders : Decodes(d) /\ task_id[d] = i}
Unread == IF cpl_fifo_pop /\ cpl_fifo # <<>> THEN Tail(cpl_fifo) ELSE cpl_fifo

Pushed(i) == desc_fifo_push /\ mmio_desc = i
Assigned(i) == desc_assign # NoDecoder /\ Front = i
Ended(in, i) == write_status_is_final(in.status) /\ task_id[write_service_decoder] = i
Room == Len(cpl_fifo) < DescFifoDepth

LEMMA PlaceTypes ==
  ASSUME TopSound, NEW i \in Images
  PROVE  /\ desc_fifo \in Seq(Ids) /\ Occurrences(desc_fifo, i) \in Nat
         /\ Unread \in Seq(Ids) /\ Occurrences(Unread, i) \in Nat
         /\ host.returned \in Seq(Ids) /\ Occurrences(host.returned, i) \in Nat
         /\ IsFiniteSet(Carried(i)) /\ Cardinality(Carried(i)) \in Nat
         /\ Places(i) = Flag(Pushed(i)) + Occurrences(desc_fifo, i) + Cardinality(Carried(i))
                        + Occurrences(Unread, i) + Flag(held_read.cpl = i)
                        + Occurrences(host.returned, i) + Flag(i \in host.lost)
         /\ i \in Nat \ {0}
<1>1. desc_fifo \in Seq(Ids) /\ cpl_fifo \in Seq(Ids)
  BY DEF TopSound, TopRange, QueueRange
<1>2. host.returned \in Seq(Ids)
  <2>1. host.returned \in Seq(Images)
    BY DEF TopSound, TopRange, ExternalRange
  <2>2. QED
    BY <2>1 DEF Ids
<1>3. Unread \in Seq(Ids)
  BY <1>1 DEF Unread
<1>4. IsFiniteSet(Carried(i)) /\ Cardinality(Carried(i)) \in Nat
  <2>1. IsFiniteSet(Decoders)
    BY DecoderFacts, FS_Interval
  <2>2. Carried(i) \in SUBSET Decoders
    BY DEF Carried
  <2>3. IsFiniteSet(Carried(i))
    BY <2>1, <2>2, FS_Subset
  <2>4. QED
    BY <2>3, FS_CardinalityType
<1>5. /\ Occurrences(desc_fifo, i) \in Nat /\ Occurrences(Unread, i) \in Nat
      /\ Occurrences(host.returned, i) \in Nat
  BY <1>1, <1>2, <1>3, OccurrencesCounted
<1>6. QED
  BY <1>1, <1>2, <1>3, <1>4, <1>5, DecoderFacts DEF Places, Pushed, Carried, Unread

(* A commit puts the next image into the registers. *)
LEMMA CommitPlaces ==
  ASSUME TopSound, NEW in \in Inputs, Cycle(in), NEW i \in Images
  PROVE  /\ Flag(i < host'.next) = Flag(i < host.next) + Flag(Pushed(i)')
         /\ mmio_reset_pulse => ~desc_fifo_push'
<1>1. /\ MmioWrite(in.access) /\ Host(in) /\ OneAccess /\ host.next \in Nat /\ i \in Nat
      /\ Len(desc_fifo) \in Nat
  BY PlaceTypes DEF TopSound, TopRange, ExternalRange, Cycle
<1>2. CASE Executes("RegDescCommit")
  <2>1. desc_fifo_push' /\ mmio_desc' = host.next
    <3>1. host.credit /\ mmio_desc = host.next /\ ~Executes("RegDesc")
      BY <1>1, <1>2 DEF OneAccess, Executes
    <3>2. ~desc_fifo_full
      BY <1>1, <3>1, TopAssumption DEF OneAccess, desc_fifo_full
    <3>3. desc_fifo_push'
      BY <1>1, <1>2, <3>2, Zenon DEF MmioWrite
    <3>4. mmio_desc' = mmio_desc
      BY <1>1, <3>1 DEF MmioWrite
    <3>5. QED
      BY <3>1, <3>3, <3>4
  <2>2. host'.next = host.next + 1
    BY <1>1, <1>2 DEF Host, Flag
  <2>3. ~mmio_reset_pulse
    BY <1>1, <1>2 DEF OneAccess, Executes
  <2>4. QED
    BY <1>1, <2>1, <2>2, <2>3 DEF Flag, Pushed
<1>3. CASE ~Executes("RegDescCommit")
  <2>1. ~desc_fifo_push'
    BY <1>1, <1>3, Zenon DEF MmioWrite
  <2>3. host'.next = host.next
    BY <1>1, <1>3 DEF Host, Flag
  <2>4. QED
    BY <1>1, <2>1, <2>3 DEF Flag, Pushed
<1>4. QED
  BY <1>2, <1>3

LEMMA FifoPlaces ==
  ASSUME TopSound, NEW in \in Inputs, Cycle(in), ~mmio_reset_pulse, NEW i \in Images
  PROVE  Occurrences(desc_fifo', i) =
           Occurrences(desc_fifo, i) + Flag(Pushed(i)) - Flag(Assigned(i))
<1>1. /\ desc_fifo \in Seq(Ids) /\ mmio_desc \in Ids /\ i # NoImage
      /\ desc_fifo_push => Len(desc_fifo) < DescFifoDepth
  BY PlaceTypes DEF TopSound, TopRange, MmioRange, OneAccess, NoImage
<1> DEFINE pop == desc_fifo_pop /\ desc_fifo # <<>>
           rest == IF pop THEN Tail(desc_fifo) ELSE desc_fifo
<1>2. desc_fifo' = IF desc_fifo_push THEN Append(rest, mmio_desc) ELSE rest
  BY <1>1 DEF Cycle, MmioFifos, Queue
<1>3. rest \in Seq(Ids)
  BY <1>1
<1>4. Assigned(i) <=> pop /\ Head(desc_fifo) = i
  BY <1>1 DEF Assigned, Front, desc_fifo_pop
<1>5. Count(rest, {i}) = Count(desc_fifo, {i}) - Flag(Assigned(i))
  <2>1. Count(desc_fifo, {i}) \in Nat
    BY <1>1, CountType
  <2>2. CASE pop
    BY <1>1, <1>4, <2>2, CountTail DEF One, Flag
  <2>3. CASE ~pop
    BY <1>4, <2>1, <2>3 DEF Flag
  <2>4. QED
    BY <2>2, <2>3
<1> HIDE DEF rest, pop
<1>6. Count(Append(rest, mmio_desc), {i}) = Count(rest, {i}) + One(mmio_desc \in {i})
  BY <1>1, <1>3, CountAppend
<1>7. Count(rest, {i}) \in Nat
  BY <1>3, CountType
<1>8. Count(desc_fifo', {i}) = Count(rest, {i}) + Flag(Pushed(i))
  BY <1>2, <1>6, <1>7 DEF Pushed, One, Flag
<1>9. desc_fifo' \in Seq(Ids)
  BY QueueRangeStep DEF QueueRange
<1>10. /\ Occurrences(desc_fifo', i) = Count(desc_fifo', {i})
       /\ Occurrences(desc_fifo, i) = Count(desc_fifo, {i})
       /\ Count(desc_fifo, {i}) \in Nat
  BY <1>1, <1>9, OccurrencesCounted
<1>11. QED
  BY <1>5, <1>8, <1>10 DEF Flag

(* A final status is about a slot that decodes. *)
LEMMA EndedCarried ==
  ASSUME TopSound, NEW in \in Inputs, NEW i \in Images, Ended(in, i)
  PROVE  /\ write_service_decoder \in Carried(i) /\ CanWrite(write_service_decoder)
         /\ in.status /\ write_bytes_remaining[write_service_decoder] = dma_write_desc.len
<1>1. in.status /\ write_bytes_remaining[write_service_decoder] = dma_write_desc.len
  BY DEF Ended, write_status_is_final
<1>2. write_service_active
  BY <1>1, InputFacts DEF TopSound, TransfersServed
<1>3. write_service_decoder \in Decoders /\ CanWrite(write_service_decoder)
  BY <1>2 DEF TopSound, TopRange, ServiceRange, TransfersServed
<1>4. QED
  BY <1>1, <1>3 DEF Carried, Decodes, CanWrite, Ended

LEMMA CompletionPlaces ==
  ASSUME TopSound, NEW in \in Inputs, Cycle(in), ~mmio_reset_pulse, NEW i \in Images
  PROVE  Occurrences(Unread', i) =
           Occurrences(Unread, i) + Flag(Ended(in, i) /\ Room) - Flag(held_read'.cpl = i)
<1> DEFINE item == task_id[write_service_decoder]
           push == write_status_is_final(in.status) /\ Room
<1>1. /\ cpl_fifo \in Seq(Ids) /\ item \in Ids /\ i # NoImage
      /\ cpl_fifo_pop => cpl_fifo # <<>>
      /\ cpl_fifo' = Queue(cpl_fifo, write_status_is_final(in.status), item, cpl_fifo_pop)
  BY PlaceTypes
  DEF TopSound, TopRange, QueueRange, ServiceRange, SlotRange, OneAccess, NoImage, Cycle,
      MmioFifos
<1>2. Unread = IF cpl_fifo_pop THEN Tail(cpl_fifo) ELSE cpl_fifo
  BY <1>1 DEF Unread
<1>3. Unread \in Seq(Ids)
  BY <1>1, <1>2
<1>4. cpl_fifo' = IF push THEN Append(Unread, item) ELSE Unread
  BY <1>1, <1>2 DEF Queue, Room
<1>5. Ended(in, i) /\ Room <=> push /\ item = i
  BY DEF Ended
<1> HIDE DEF push, item
<1>6. Count(Unread, {i}) \in Nat
  BY <1>3, CountType
<1>7. Count(Append(Unread, item), {i}) = Count(Unread, {i}) + One(item \in {i})
  BY <1>1, <1>3, CountAppend
<1>8. Count(cpl_fifo', {i}) = Count(Unread, {i}) + Flag(Ended(in, i) /\ Room)
  BY <1>4, <1>5, <1>6, <1>7 DEF One, Flag
<1>9. cpl_fifo' \in Seq(Ids) /\ Count(cpl_fifo', {i}) \in Nat
  BY QueueRangeStep, CountType DEF QueueRange
<1>10. OneAccess'
  BY OneAccessStep
<1>11. Unread' \in Seq(Ids) /\ Count(Unread', {i}) = Count(cpl_fifo', {i}) - Flag(held_read'.cpl = i)
  <2>1. CASE cpl_fifo_pop'
    <3>1. cpl_fifo' # <<>> /\ held_read'.cpl = Head(cpl_fifo') /\ Unread' = Tail(cpl_fifo')
      BY <1>10, <2>1 DEF OneAccess, Unread
    <3>2. QED
      BY <1>9, <3>1, CountTail DEF One, Flag
  <2>2. CASE ~cpl_fifo_pop'
    <3>1. held_read'.cpl # i /\ Unread' = cpl_fifo'
      BY <1>1, <1>10, <2>2 DEF OneAccess, Unread
    <3>2. QED
      BY <1>9, <3>1 DEF Flag
  <2>3. QED
    BY <2>1, <2>2
<1>12. /\ Occurrences(Unread', i) = Count(Unread', {i})
       /\ Occurrences(Unread, i) = Count(Unread, {i})
  BY <1>3, <1>11, OccurrencesCounted
<1>13. QED
  BY <1>6, <1>8, <1>11, <1>12 DEF Flag

LEMMA CarriedStep ==
  ASSUME TopSound, NEW in \in Inputs, Cycle(in), ~mmio_reset_pulse, NEW i \in Images,
         NEW d \in Decoders
  PROVE  d \in Carried(i)' <=> \/ desc_assign = d /\ Front = i
                               \/ d \in Carried(i) /\ ~(Ended(in, i) /\ write_service_decoder = d)
<1>1. d \in Carried(i)' <=> /\ task_id'[d] = i /\ slot_state'[d] = "SLOT_RUN"
                            /\ ~have_dimensions'[d] \/ write_bytes_remaining'[d] > 0
  BY DEF Carried, Decodes
<1>2. d \in Carried(i) <=> /\ task_id[d] = i /\ slot_state[d] = "SLOT_RUN"
                           /\ ~have_dimensions[d] \/ write_bytes_remaining[d] > 0
  BY DEF Carried, Decodes
<1>3. /\ slot_state[d] \in SlotStates /\ write_bytes_remaining[d] \in Word
      /\ write_bytes_remaining[d] \in Nat /\ dma_write_desc.len \in Word
      /\ Accounting(in) /\ write_service_decoder \in Decoders
  BY DecoderFacts
  DEF TopSound, TopRange, SlotRange, ServiceRange, Word, Cycle, Lifecycle
<1>4. CASE desc_assign = d
  <2>1. slot_state'[d] = "SLOT_RUN" /\ task_id'[d] = Front /\ ~have_dimensions'[d]
    BY <1>4, SlotSteps DEF SlotState
  <2>2. slot_state[d] = "SLOT_IDLE"
    BY <1>4, SlotSteps
  <2>3. QED
    BY <1>1, <1>2, <1>4, <2>1, <2>2
<1>5. CASE desc_assign # d /\ slot_state[d] # "SLOT_RUN"
  <2>1. slot_state'[d] # "SLOT_RUN"
    BY <1>3, <1>5, SlotSteps DEF SlotState, SlotStates
  <2>2. QED
    BY <1>1, <1>2, <1>5, <2>1
<1>6. CASE desc_assign # d /\ slot_state[d] = "SLOT_RUN"
  <2>1. /\ task_id'[d] = task_id[d]
        /\ have_dimensions'[d] = (d \in in.dims \/ have_dimensions[d])
        /\ slot_state'[d] = SlotState(d)
    BY <1>6, SlotSteps
  <2>2. /\ have_dimensions[d] = core[d].dims
        /\ d \in in.dims => ~have_dimensions[d]
    BY <1>6, InputFacts DEF TopSound, SlotsKept
  <2>3. in.status /\ write_service_decoder = d => have_dimensions[d] /\ write_bytes_remaining[d] > 0
    BY InputFacts DEF TopSound, TransfersServed, CanWrite
  <2>4. CASE ~have_dimensions[d]
    <3>1. slot_state'[d] = "SLOT_RUN"
      BY <1>6, <2>4, RunsOn DEF Finished
    <3>2. ~(in.status /\ write_service_decoder = d)
      BY <2>3, <2>4
    <3>3. ~(Ended(in, i) /\ write_service_decoder = d)
      BY <3>2 DEF Ended, write_status_is_final
    <3>4. ASSUME d \in in.dims, task_id[d] = i
          PROVE  write_bytes_remaining'[d] > 0
      <4>1. i # NoImage /\ PixelLen[i] \in 1..(WordSize - 1)
        BY TopAssumption, DecoderFacts
      <4>2. write_bytes_remaining'[d] = PixelLen[i]
        BY <1>3, <1>6, <3>2, <3>4, <4>1 DEF Accounting, Beats
      <4>3. QED
        BY <4>1, <4>2, TopAssumption
    <3>5. QED
      BY <1>1, <1>2, <1>6, <2>1, <2>4, <3>1, <3>3, <3>4
  <2>5. CASE have_dimensions[d] /\ in.status /\ write_service_decoder = d
    <3>1. write_bytes_remaining'[d] = Minus(write_bytes_remaining[d], dma_write_desc.len)
      BY <1>3, <1>6, <2>2, <2>5 DEF Accounting
    <3>2. write_bytes_remaining'[d] \in Nat
      <4>1. write_bytes_remaining'[d] \in Word
        BY <1>3, <3>1, MinusFacts
      <4>2. QED
        BY <4>1, DecoderFacts DEF Word
    <3>3. write_bytes_remaining'[d] > 0 <=> write_bytes_remaining[d] # dma_write_desc.len
      BY <1>3, <3>1, <3>2, MinusFacts
    <3>4. slot_state'[d] = "SLOT_RUN"
      BY <1>6, <2>3, <2>5, RunsOn DEF Finished
    <3>5. Ended(in, i) /\ write_service_decoder = d <=>
            task_id[d] = i /\ write_bytes_remaining[d] = dma_write_desc.len
      BY <2>5 DEF Ended, write_status_is_final
    <3>6. have_dimensions'[d]
      BY <2>1, <2>5
    <3>7. QED
      BY <1>1, <1>2, <1>6, <2>1, <2>3, <2>5, <3>3, <3>4, <3>5, <3>6
  <2>6. CASE have_dimensions[d] /\ ~(in.status /\ write_service_decoder = d)
    <3>1. write_bytes_remaining'[d] = write_bytes_remaining[d] /\ have_dimensions'[d]
      BY <1>3, <1>6, <2>1, <2>2, <2>6 DEF Accounting
    <3>2. ~(Ended(in, i) /\ write_service_decoder = d)
      BY <2>6 DEF Ended, write_status_is_final
    <3>3. slot_state'[d] = "SLOT_RUN" <=> ~Finished(d)
      BY <1>6, <2>1 DEF SlotState
    <3>4. write_bytes_remaining[d] > 0 => ~Finished(d)
      BY <1>3 DEF Finished
    <3>5. QED
      BY <1>1, <1>2, <1>6, <2>1, <2>6, <3>1, <3>2, <3>3, <3>4
  <2>7. QED
    BY <2>4, <2>5, <2>6
<1>7. QED
  BY <1>4, <1>5, <1>6

LEMMA CarriedPlaces ==
  ASSUME TopSound, NEW in \in Inputs, Cycle(in), ~mmio_reset_pulse, NEW i \in Images
  PROVE  Cardinality(Carried(i)') =
           Cardinality(Carried(i)) + Flag(Assigned(i)) - Flag(Ended(in, i))
<1> DEFINE kept == IF Ended(in, i) THEN Carried(i) \ {write_service_decoder} ELSE Carried(i)
<1>1. IsFiniteSet(Carried(i)) /\ Cardinality(Carried(i)) \in Nat
  BY PlaceTypes
<1>2. Ended(in, i) => write_service_decoder \in Carried(i)
  BY EndedCarried
<1>3. Assigned(i) => desc_assign \in Decoders /\ desc_assign \notin Carried(i)
  <2>1. desc_assign \in Decoders \union {NoDecoder}
    BY DEF TopSound, TopRange, ServiceRange
  <2>2. desc_assign # NoDecoder => slot_state[desc_assign] = "SLOT_IDLE"
    BY DEF TopSound, AssignmentWaits
  <2>3. QED
    BY <2>1, <2>2 DEF Assigned, Carried, Decodes
<1>4. Carried(i)' \subseteq Decoders /\ Carried(i) \subseteq Decoders
  BY DEF Carried
<1>5. Carried(i)' = IF Assigned(i) THEN kept \union {desc_assign} ELSE kept
  <2>1. \A d \in Decoders : d \in Carried(i)' <=>
          \/ desc_assign = d /\ Front = i
          \/ d \in Carried(i) /\ ~(Ended(in, i) /\ write_service_decoder = d)
    BY CarriedStep
  <2>2. Assigned(i) <=> desc_assign # NoDecoder /\ Front = i
    BY DEF Assigned
  <2>3. NoDecoder \notin Decoders
    BY DecoderFacts
  <2>4. QED
    BY <1>3, <1>4, <2>1, <2>2, <2>3
<1>6. /\ IsFiniteSet(kept) /\ Cardinality(kept) = Cardinality(Carried(i)) - Flag(Ended(in, i))
      /\ Cardinality(kept) \in Nat
  <2>1. CASE Ended(in, i)
    <3>1. /\ IsFiniteSet(Carried(i) \ {write_service_decoder})
          /\ Cardinality(Carried(i) \ {write_service_decoder}) = Cardinality(Carried(i)) - 1
      BY <1>1, <1>2, <2>1, FS_RemoveElement
    <3>2. Cardinality(Carried(i) \ {write_service_decoder}) \in Nat
      BY <3>1, FS_CardinalityType
    <3>3. QED
      BY <2>1, <3>1, <3>2 DEF Flag
  <2>2. CASE ~Ended(in, i)
    BY <1>1, <2>2 DEF Flag
  <2>3. QED
    BY <2>1, <2>2
<1>7. CASE Assigned(i)
  <2>1. desc_assign \notin kept
    BY <1>3, <1>7
  <2> HIDE DEF kept
  <2>2. Cardinality(kept \union {desc_assign}) = Cardinality(kept) + 1
    BY <1>6, <2>1, FS_AddElement
  <2>3. QED
    BY <1>1, <1>5, <1>6, <1>7, <2>2 DEF Flag
<1>8. CASE ~Assigned(i)
  <2> HIDE DEF kept
  <2> QED
    BY <1>1, <1>5, <1>6, <1>8 DEF Flag
<1>9. QED
  BY <1>7, <1>8

(* What the host has taken and what has been dropped. *)
LEMMA HostPlaces ==
  ASSUME TopSound, NEW in \in Inputs, Cycle(in), NEW i \in Images
  PROVE  /\ Occurrences(host'.returned, i) =
              Occurrences(host.returned, i) + Flag(held_read.cpl = i)
         /\ i \in host'.lost <=> i \in host.lost \/ (Ended(in, i) /\ ~Room)
         /\ host'.resets = 0 => host.resets = 0 /\ ~mmio_reset_pulse
<1>1. /\ host.returned \in Seq(Ids) /\ held_read.cpl \in Ids /\ i # NoImage
      /\ host'.returned \in Seq(Ids) /\ host.resets \in Nat
      /\ Host(in) /\ (mmio_reset_pulse => host.resets > 0)
      /\ cpl_fifo_full <=> ~Room
  <2>1. host'.returned \in Seq(Ids)
    <3>1. host'.returned \in Seq(Images)
      BY ExternalRangeStep DEF ExternalRange
    <3>2. QED
      BY <3>1 DEF Ids
  <2>2. held_read.cpl \in Ids /\ host.resets \in Nat /\ Host(in)
    BY DEF TopSound, TopRange, MmioRange, ExternalRange, Cycle
  <2>3. cpl_fifo_full <=> ~Room
    BY TopAssumption DEF TopSound, TopRange, QueueRange, cpl_fifo_full, Room
  <2>4. mmio_reset_pulse => host.resets > 0
    BY DEF TopSound, OneAccess
  <2>5. QED
    BY <2>1, <2>2, <2>3, <2>4, PlaceTypes DEF NoImage
<1>2. Count(host'.returned, {i}) = Count(host.returned, {i}) + Flag(held_read.cpl = i)
  <2>1. Count(host.returned, {i}) \in Nat
    BY <1>1, CountType
  <2>2. CASE held_read.cpl = NoImage
    <3>1. host'.returned = host.returned \o <<>> /\ host.returned \o <<>> = host.returned
      BY <1>1, <2>2 DEF Host
    <3>2. QED
      BY <1>1, <2>1, <2>2, <3>1 DEF Flag
  <2>3. CASE held_read.cpl # NoImage
    <3>1. host'.returned = host.returned \o <<held_read.cpl>>
      BY <1>1, <2>3 DEF Host
    <3>2. host.returned \o <<held_read.cpl>> = Append(host.returned, held_read.cpl)
      BY <1>1
    <3>3. Count(Append(host.returned, held_read.cpl), {i}) =
            Count(host.returned, {i}) + One(held_read.cpl \in {i})
      BY <1>1, CountAppend
    <3>4. QED
      BY <3>1, <3>2, <3>3 DEF One, Flag
  <2>4. QED
    BY <2>2, <2>3
<1>3. Occurrences(host'.returned, i) =
        Occurrences(host.returned, i) + Flag(held_read.cpl = i)
  BY <1>1, <1>2, OccurrencesCounted
<1>4. i \in host'.lost <=> i \in host.lost \/ (Ended(in, i) /\ ~Room)
  BY <1>1 DEF Host, Ended
<1>5. host'.resets = 0 => host.resets = 0 /\ ~mmio_reset_pulse
  BY <1>1 DEF Host, Flag
<1>6. QED
  BY <1>3, <1>4, <1>5

LEMMA NoneTwiceStep ==
  ASSUME TopSound, NEW in \in Inputs, Cycle(in), TopRange', OneAccess'
  PROVE  NoneTwice'
<1> SUFFICES ASSUME NEW i \in Images
             PROVE  /\ Places(i)' <= Flag(i < host'.next)
                    /\ host'.resets = 0 => Places(i)' = Flag(i < host'.next)
  BY DEF NoneTwice
<1> DEFINE fifo == Occurrences(desc_fifo, i)
           slots == Cardinality(Carried(i))
           unread == Occurrences(Unread, i)
           returned == Occurrences(host.returned, i)
           ended == Flag(Ended(in, i))
           dropped == Flag(Ended(in, i) /\ ~Room)
<1>1. /\ fifo \in Nat /\ slots \in Nat /\ unread \in Nat /\ returned \in Nat
      /\ \A c : Flag(c) \in {0, 1}
      /\ Places(i) = Flag(Pushed(i)) + fifo + slots + unread + Flag(held_read.cpl = i)
                     + returned + Flag(i \in host.lost)
      /\ i \in Nat \ {0}
  BY PlaceTypes DEF Flag
<1>2. /\ Places(i) <= Flag(i < host.next)
      /\ host.resets = 0 => Places(i) = Flag(i < host.next)
  BY DEF TopSound, NoneTwice
<1>3. Places(i)' = Flag(Pushed(i)') + Occurrences(desc_fifo', i) + Cardinality(Carried(i)')
                   + Occurrences(Unread', i) + Flag(held_read'.cpl = i)
                   + Occurrences(host'.returned, i) + Flag(i \in host'.lost)
  BY DEF Places, Pushed, Carried, Unread
<1>4. /\ Flag(i < host'.next) = Flag(i < host.next) + Flag(Pushed(i)')
      /\ mmio_reset_pulse => ~desc_fifo_push'
  BY CommitPlaces
<1>5. Occurrences(host'.returned, i) = returned + Flag(held_read.cpl = i)
  BY HostPlaces
<1>6. ended <= slots
  <2>1. CASE Ended(in, i)
    <3>1. Carried(i) # {} /\ IsFiniteSet(Carried(i))
      BY <2>1, EndedCarried, PlaceTypes
    <3>2. slots # 0
      BY <3>1, FS_EmptySet
    <3>3. QED
      BY <1>1, <3>2 DEF Flag
  <2>2. CASE ~Ended(in, i)
    BY <1>1, <2>2 DEF Flag
  <2>3. QED
    BY <2>1, <2>2
<1>7. Flag(i \in host'.lost) = Flag(i \in host.lost) + dropped
  <2>1. i \in host'.lost <=> i \in host.lost \/ (Ended(in, i) /\ ~Room)
    BY HostPlaces
  <2>2. ~(i \in host.lost /\ Ended(in, i))
    <3>1. Flag(i \in host.lost) + slots <= 1
      <4>1. Flag(i < host.next) \in {0, 1} /\ Flag(i \in host.lost) \in {0, 1}
            /\ Flag(Pushed(i)) \in {0, 1} /\ Flag(held_read.cpl = i) \in {0, 1}
        BY <1>1
      <4> HIDE DEF fifo, slots, unread, returned
      <4>2. QED
        BY <1>1, <1>2, <4>1
    <3>2. QED
      BY <1>1, <1>6, <3>1 DEF Flag
  <2>3. QED
    BY <2>1, <2>2 DEF Flag
<1>8. CASE ~mmio_reset_pulse
  <2>1. Occurrences(desc_fifo', i) = fifo + Flag(Pushed(i)) - Flag(Assigned(i))
    BY <1>8, FifoPlaces
  <2>2. Cardinality(Carried(i)') = slots + Flag(Assigned(i)) - ended
    BY <1>8, CarriedPlaces
  <2>3. Occurrences(Unread', i) = unread + Flag(Ended(in, i) /\ Room) - Flag(held_read'.cpl = i)
    BY <1>8, CompletionPlaces
  <2>4. ended = Flag(Ended(in, i) /\ Room) + dropped
    BY DEF Flag
  <2>5. /\ Flag(Pushed(i)) \in Nat /\ Flag(Assigned(i)) \in Nat /\ ended \in Nat
        /\ Flag(Ended(in, i) /\ Room) \in Nat /\ dropped \in Nat
        /\ Flag(held_read'.cpl = i) \in Nat /\ Flag(held_read.cpl = i) \in Nat
        /\ Flag(i \in host.lost) \in Nat /\ Flag(Pushed(i)') \in Nat
        /\ Flag(i < host.next) \in Nat
    BY DEF Flag
  <2> HIDE DEF fifo, slots, unread, returned, ended, dropped
  <2>6. Places(i)' = Places(i) + Flag(Pushed(i)')
    BY <1>1, <1>3, <1>5, <1>7, <2>1, <2>2, <2>3, <2>4, <2>5
  <2>7. host'.resets = 0 => host.resets = 0
    BY HostPlaces
  <2>8. Places(i) \in Nat
    BY <1>1, <2>5
  <2>9. QED
    BY <1>2, <1>4, <2>5, <2>6, <2>7, <2>8
<1>9. CASE mmio_reset_pulse
  <2>1. Occurrences(<<>>, i) = 0
    <3>1. <<>> \in Seq(Ids)
      OBVIOUS
    <3>2. QED
      BY <3>1, OccurrencesCounted, CountEmpty
  <2>2. desc_fifo' = <<>> /\ cpl_fifo' = <<>>
    BY <1>9 DEF Cycle, MmioFifos
  <2>3. Occurrences(desc_fifo', i) = 0 /\ Occurrences(Unread', i) = 0
    BY <2>1, <2>2 DEF Unread
  <2>4. Cardinality(Carried(i)') = 0
    <3>1. \A d \in Decoders : slot_state'[d] = "SLOT_IDLE"
      BY <1>9 DEF Cycle, Lifecycle, ResetSlots, AllSlots
    <3>2. Carried(i)' = {}
      BY <3>1 DEF Carried, Decodes
    <3>3. QED
      BY <3>2, FS_EmptySet
  <2>5. Flag(Pushed(i)') = 0 /\ Flag(held_read'.cpl = i) = 0
    <3>1. held_read' = NoAnswer
      BY <1>9 DEF Cycle, MmioRead
    <3>2. QED
      BY <1>1, <1>4, <1>9, <3>1 DEF Pushed, Flag, NoAnswer, NoImage
  <2>6. /\ dropped <= ended /\ dropped \in Nat /\ ended \in Nat
        /\ Flag(Pushed(i)) \in Nat /\ Flag(held_read.cpl = i) \in Nat
        /\ Flag(i \in host.lost) \in Nat /\ Flag(i < host.next) \in Nat
    BY DEF Flag
  <2>7. host'.resets # 0
    BY <1>9, HostPlaces
  <2> HIDE DEF fifo, slots, unread, returned, ended, dropped
  <2>8. Places(i)' = Flag(held_read.cpl = i) + returned + Flag(i \in host.lost) + dropped
    BY <1>1, <1>3, <1>5, <1>7, <2>3, <2>4, <2>5, <2>6
  <2>9. Places(i)' <= Places(i)
    BY <1>1, <1>6, <2>6, <2>8
  <2>10. QED
    BY <1>1, <1>2, <1>4, <2>5, <2>6, <2>7, <2>8, <2>9
<1>10. QED
  BY <1>8, <1>9

-----------------------------------------------------------------------------
LEMMA SoundStep ==
  ASSUME TopSound, [TopNext]_topVars
  PROVE  TopSound'
<1>1. CASE TopNext
  <2>1. PICK in \in Inputs : Cycle(in)
    BY <1>1 DEF TopNext
  <2>2. TopRange' /\ OneAccess' /\ AssignmentWaits' /\ TransfersServed' /\ SlotsKept'
    BY <2>1, TopRangeStep, OneAccessStep, AssignmentWaitsStep, TransfersServedStep,
       SlotsKeptStep
  <2>3. NoneTwice'
    BY <2>1, <2>2, NoneTwiceStep
  <2>4. QED
    BY <2>2, <2>3 DEF TopSound
<1>2. CASE UNCHANGED topVars
  <2> USE <1>2 DEF topVars, mmioVars, fifoVars, slotVars, serviceVars, externalVars
  <2>1. TopRange' /\ OneAccess'
    BY DEF TopSound, TopRange, MmioRange, QueueRange, ServiceRange, SlotRange, ExternalRange,
           OneAccess, Executes
  <2>2. AssignmentWaits' /\ TransfersServed' /\ SlotsKept'
    BY DEF TopSound, AssignmentWaits, TransfersServed, CanRead, CanWrite, SlotsKept, Clean
  <2>3. NoneTwice'
    BY DEF TopSound, NoneTwice, Places, Decodes
  <2>4. QED
    BY <2>1, <2>2, <2>3 DEF TopSound
<1>3. QED
  BY <1>1, <1>2

(* jpeg_top.sv, all of it: the registers stay in range, the host's accesses *)
(* do not overlap, every assignment finds the slot and the descriptor it    *)
(* was made for, every transfer belongs to a slot that still wants it, the  *)
(* occupancy counters agree with the FIFOs, and no image is in two places.  *)
THEOREM TopIsSound == TopSpec => []TopSound
<1>1. TopInit => TopSound
  BY InitSound
<1>2. TopSound /\ [TopNext]_topVars => TopSound'
  BY SoundStep
<1>3. QED
  BY <1>1, <1>2, PTL DEF TopSpec

(* The assignment of the last cycle (desc_assign_valid, jpeg_top.sv) is     *)
(* still right when the lifecycle block carries it out, as long as the      *)
(* reset register has not been used.                                        *)
THEOREM AssignmentsHold == TopSpec => []AssignmentHoldsBetweenResets
<1>1. TopSound => AssignmentHoldsBetweenResets
  BY DEF TopSound, AssignmentWaits, AssignmentHoldsBetweenResets, AssignmentHolds
<1>2. QED
  BY <1>1, TopIsSound, PTL

(* The occupancy counters jpeg_top keeps itself agree with the FIFOs of a   *)
(* running slot, and a free slot is empty, after any resets.                *)
THEOREM FifosAreAccounted == TopSpec => []FifosAccounted
<1>1. TopSound => FifosAccounted
  BY DEF TopSound, SlotsKept, Clean, FifosAccounted
<1>2. QED
  BY <1>1, TopIsSound, PTL

(* An image the host committed is in exactly one of the places an image can *)
(* be in, from its commit until the host has read its completion.           *)
THEOREM TasksAreConserved == TopSpec => []TasksConserved
<1>1. TopSound => TasksConserved
  BY DEF TopSound, NoneTwice, TasksConserved
<1>2. QED
  BY <1>1, TopIsSound, PTL-----------------------------------------------------------------------------
(* jpeg_top implements DecodeService.  Beyond TopSound that needs to know   *)
(* that what is queued is an image, also when an assignment that a reset    *)
(* has overtaken puts a zeroed descriptor into a slot.                      *)
ServesImages ==
  /\ desc_fifo \in Seq(Images) /\ cpl_fifo \in Seq(Images)
  /\ desc_fifo_push => mmio_desc \in Images
  /\ \A d \in Decoders : task_id[d] = NoImage => write_bytes_remaining[d] = 0

LEMMA ServesInitially == TopInit => ServesImages
BY DEF TopInit, ServesImages, AllSlots

LEMMA QueuesImages ==
  ASSUME NEW fifo \in Seq(Images), NEW push, NEW pop, NEW item, push => item \in Images
  PROVE  Queue(fifo, push, item, pop) \in Seq(Images)
BY DEF Queue

(* A status that ends an image comes for a slot that has one to write.      *)
LEMMA EndsAnImage ==
  ASSUME TopSound, ServesImages, NEW in \in Inputs, write_status_is_final(in.status)
  PROVE  /\ write_service_decoder \in Decoders
         /\ task_id[write_service_decoder] \in Images
         /\ Decodes(write_service_decoder)
<1>1. write_service_active /\ write_service_decoder \in Decoders
  BY InputFacts DEF TopSound, TopRange, ServiceRange, TransfersServed, write_status_is_final
<1>2. CanWrite(write_service_decoder)
  BY <1>1 DEF TopSound, TransfersServed
<1>3. task_id[write_service_decoder] \in Ids
  BY <1>1 DEF TopSound, TopRange, SlotRange
<1>4. QED
  BY <1>1, <1>2, <1>3 DEF CanWrite, Decodes, ServesImages, Ids

LEMMA NothingToWrite ==
  ASSUME TopSound, ServesImages, NEW in \in Inputs, Cycle(in), ~mmio_reset_pulse,
         NEW d \in Decoders, task_id'[d] = NoImage
  PROVE  write_bytes_remaining'[d] = 0
<1>1. /\ Accounting(in) /\ write_bytes_remaining'[d] =
           CASE in.status /\ write_service_decoder = d ->
                  Minus(write_bytes_remaining[d], dma_write_desc.len)
             [] desc_assign = d -> 0
             [] d \in in.dims -> Beats(PixelLen, task_id[d])
             [] OTHER -> write_bytes_remaining[d]
  BY DEF Cycle, Lifecycle, Accounting
<1>2. /\ task_id'[d] = IF desc_assign = d THEN Front ELSE task_id[d]
      /\ desc_assign = d => slot_state[d] = "SLOT_IDLE"
  BY SlotSteps
<1>3. in.status /\ write_service_decoder = d => CanWrite(d)
  BY InputFacts DEF TopSound, TransfersServed
<1>4. task_id[d] = NoImage => ~(in.status /\ write_service_decoder = d)
  BY <1>3 DEF CanWrite, ServesImages
<1>5. desc_assign = d => ~(in.status /\ write_service_decoder = d)
  BY <1>2, <1>3 DEF CanWrite
<1>6. CASE desc_assign = d
  <2>1. d \notin in.dims
    BY <1>2, <1>6, QuietSlot
  <2>2. QED
    BY <1>1, <1>5, <1>6, <2>1
<1>7. CASE desc_assign # d
  <2>1. task_id[d] = NoImage
    BY <1>2, <1>7
  <2>2. write_bytes_remaining[d] = 0 /\ Beats(PixelLen, task_id[d]) = 0
    BY <2>1 DEF ServesImages, Beats
  <2>3. QED
    BY <1>1, <1>4, <1>7, <2>1, <2>2
<1>8. QED
  BY <1>6, <1>7

LEMMA ServesStep ==
  ASSUME TopSound, ServesImages, NEW in \in Inputs, Cycle(in)
  PROVE  ServesImages'
<1>1. /\ MmioWrite(in.access) /\ MmioFifos(in.status)
      /\ desc_fifo \in Seq(Images) /\ cpl_fifo \in Seq(Images)
      /\ desc_fifo_push => mmio_desc \in Images
  BY DEF Cycle, ServesImages
<1>2. desc_fifo' \in Seq(Images)
  BY <1>1, QueuesImages DEF MmioFifos
<1>3. cpl_fifo' \in Seq(Images)
  BY <1>1, QueuesImages, EndsAnImage DEF MmioFifos
<1>4. desc_fifo_push' => mmio_desc' \in Images
  <2>1. Executes("RegDescCommit") => mmio_desc \in Images /\ ~Executes("RegDesc")
    BY DEF TopSound, OneAccess, Executes
  <2>2. QED
    BY <1>1, <2>1 DEF MmioWrite
<1>5. ASSUME NEW d \in Decoders, task_id'[d] = NoImage
      PROVE  write_bytes_remaining'[d] = 0
  <2>1. CASE mmio_reset_pulse
    BY <2>1 DEF Cycle, Lifecycle, ResetSlots, AllSlots
  <2>2. CASE ~mmio_reset_pulse
    BY <1>5, <2>2, NothingToWrite
  <2>3. QED
    BY <2>1, <2>2
<1>6. QED
  BY <1>2, <1>3, <1>4, <1>5 DEF ServesImages
Work(d) == IF Decodes(d) THEN task_id[d] ELSE NoImage
Answer == IF host.returned = <<>> THEN NoImage ELSE host.returned[Len(host.returned)]

(* What a slot has to decode changes when it is given a descriptor and when *)
(* its last status comes.                                                   *)
LEMMA WorkStep ==
  ASSUME TopSound, ServesImages, NEW in \in Inputs, Cycle(in), ~mmio_reset_pulse,
         NEW d \in Decoders
  PROVE  Work(d)' = IF desc_assign = d THEN Front
                    ELSE IF write_status_is_final(in.status) /\ write_service_decoder = d
                    THEN NoImage ELSE Work(d)
<1> DEFINE next == IF desc_assign = d THEN Front
                   ELSE IF write_status_is_final(in.status) /\ write_service_decoder = d
                   THEN NoImage ELSE Work(d)
<1>1. /\ task_id[d] \in Ids /\ (task_id[d])' \in Ids /\ NoImage \notin Images
      /\ Front \in Ids
  <2>1. TopRange'
    BY TopRangeStep
  <2>2. task_id \in [Decoders -> Ids] /\ task_id' \in [Decoders -> Ids]
    BY <2>1 DEF TopSound, TopRange, SlotRange
  <2>3. Front \in Ids
    BY DEF ServesImages, Front, Ids
  <2>4. QED
    BY <2>2, <2>3, DecoderFacts DEF NoImage
<1>2. Work(d)' \in Ids /\ next \in Ids
  BY <1>1 DEF Work, Ids
<1>3. ASSUME NEW i \in Images
      PROVE  Work(d)' = i <=> next = i
  <2>1. /\ Work(d)' = i <=> d \in Carried(i)'
        /\ Work(d) = i <=> d \in Carried(i)
    BY <1>1 DEF Work, Carried
  <2>2. d \in Carried(i)' <=> \/ desc_assign = d /\ Front = i
                              \/ d \in Carried(i) /\ ~(Ended(in, i) /\ write_service_decoder = d)
    BY CarriedStep
  <2>3. desc_assign = d => d \notin Carried(i)
    BY SlotSteps DEF Carried, Decodes
  <2>4. d \in Carried(i) => task_id[d] = i
    BY DEF Carried
  <2>5. QED
    BY <1>1, <2>1, <2>2, <2>3, <2>4 DEF Ended
<1> HIDE DEF next
<1>4. Work(d)' = next
  BY <1>2, <1>3 DEF Ids
<1>5. QED
  BY <1>4 DEF next
LEMMA AnswerStep ==
  ASSUME TopSound, ServesImages, NEW in \in Inputs, Cycle(in)
  PROVE  Answer' = IF cpl_fifo_pop THEN Head(cpl_fifo) ELSE Answer
<1>1. host'.returned = host.returned \o
                         (IF held_read.cpl = NoImage THEN <<>> ELSE <<held_read.cpl>>)
  BY DEF Cycle, Host
<1>2. host.returned \in Seq(Images) /\ NoImage \notin Images
  BY DecoderFacts DEF TopSound, TopRange, ExternalRange, NoImage
<1>3. CASE cpl_fifo_pop
  <2>1. /\ held_read.cpl = Head(cpl_fifo) /\ Head(cpl_fifo) \in Images
        /\ Head(cpl_fifo) # NoImage
    BY <1>2, <1>3 DEF TopSound, OneAccess, ServesImages
  <2>2. host'.returned = Append(host.returned, Head(cpl_fifo))
    BY <1>1, <1>2, <2>1
  <2>3. host'.returned # <<>> /\ host'.returned[Len(host'.returned)] = Head(cpl_fifo)
    BY <1>2, <2>1, <2>2
  <2>4. QED
    BY <1>3, <2>3 DEF Answer
<1>4. CASE ~cpl_fifo_pop
  <2>1. host'.returned = host.returned \o <<>>
    BY <1>1, <1>4 DEF TopSound, OneAccess
  <2>2. QED
    BY <1>2, <1>4, <2>1, ConcatEmptySeq DEF Answer
<1>5. QED
  BY <1>3, <1>4

(* A queue loses its first entry and gains one if there is room. *)
LEMMA QueueMoves ==
  ASSUME NEW fifo \in Seq(Images), NEW push, NEW pop, NEW item, push => item \in Images
  PROVE  Queue(fifo, push, item, pop) =
           Decoding!Rest(fifo, pop /\ fifo # <<>>) \o
             (IF push /\ Len(fifo) < DescFifoDepth THEN <<item>> ELSE <<>>)
<1>1. Decoding!Rest(fifo, pop /\ fifo # <<>>) \in Seq(Images)
  BY DEF Decoding!Rest
<1>2. Queue(fifo, push, item, pop) =
        IF push /\ Len(fifo) < DescFifoDepth
        THEN Append(Decoding!Rest(fifo, pop /\ fifo # <<>>), item)
        ELSE Decoding!Rest(fifo, pop /\ fifo # <<>>)
  BY DEF Queue, Decoding!Rest
<1>3. QED
  BY <1>1, <1>2, AppendIsConcat, ConcatEmptySeq

(* One clock cycle is one step of the service. *)
LEMMA CycleServes ==
  ASSUME TopSound, ServesImages, NEW in \in Inputs, Cycle(in), ~mmio_reset_pulse
  PROVE  Decoding!Next
<1> DEFINE final == write_status_is_final(in.status)
           order == IF desc_fifo_push THEN <<mmio_desc>> ELSE <<>>
           begins == IF desc_assign # NoDecoder /\ desc_fifo # <<>> THEN <<desc_assign>> ELSE <<>>
           ends == IF final THEN <<write_service_decoder>> ELSE <<>>
           work == [d \in Decoders |-> Work(d)]
<1>1. /\ order \in Decoding!Optional(Images)
      /\ begins \in Decoding!Optional(Decoders)
      /\ ends \in Decoding!Optional(Decoders)
      /\ cpl_fifo_pop \in BOOLEAN
  BY EndsAnImage DEF ServesImages, Decoding!Optional, TopSound, TopRange, ServiceRange, MmioRange
<1>2. order # <<>> => Len(desc_fifo) < DescFifoDepth
  BY DEF TopSound, OneAccess
<1>3. begins # <<>> => desc_fifo # <<>> /\ work[begins[1]] = NoImage
  <2>1. ASSUME begins # <<>>
        PROVE  work[begins[1]] = NoImage
    <3>1. desc_assign \in Decoders /\ begins[1] = desc_assign
      BY <2>1 DEF TopSound, TopRange, ServiceRange
    <3>2. slot_state[desc_assign] = "SLOT_IDLE"
      BY <3>1, SlotSteps
    <3>3. QED
      BY <3>1, <3>2 DEF Work, Decodes
  <2>2. QED
    BY <2>1
<1>4. ends # <<>> => work[ends[1]] # NoImage
  BY EndsAnImage, DecoderFacts DEF Work, NoImage
<1>5. cpl_fifo_pop => cpl_fifo # <<>>
  BY DEF TopSound, OneAccess
<1>6. desc_fifo' = Decoding!Rest(desc_fifo, begins # <<>>) \o order
  <2>1. desc_fifo' = Queue(desc_fifo, desc_fifo_push, mmio_desc, desc_fifo_pop)
    BY DEF Cycle, MmioFifos
  <2>2. (desc_fifo_pop /\ desc_fifo # <<>>) = (begins # <<>>)
    BY DEF desc_fifo_pop
  <2>3. (IF desc_fifo_push /\ Len(desc_fifo) < DescFifoDepth THEN <<mmio_desc>> ELSE <<>>) = order
    BY <1>2
  <2> HIDE DEF order, begins
  <2>4. QED
    BY <2>1, <2>2, <2>3, QueueMoves DEF ServesImages
<1>7. ASSUME NEW d \in Decoders
      PROVE  Work(d)' = CASE begins = <<d>> -> Head(desc_fifo)
                          [] ends = <<d>> -> NoImage
                          [] OTHER -> work[d]
  <2>1. Work(d)' = IF desc_assign = d THEN Front
                   ELSE IF final /\ write_service_decoder = d THEN NoImage ELSE Work(d)
    BY WorkStep
  <2>2. ends = <<d>> <=> final /\ write_service_decoder = d
    OBVIOUS
  <2>3. begins = <<d>> <=> desc_assign = d /\ desc_fifo # <<>>
    BY DecoderFacts
  <2>4. desc_assign = d => Work(d) = NoImage
    BY SlotSteps DEF Work, Decodes
  <2>5. ends = <<d>> => Work(d) # NoImage
    BY <2>2, EndsAnImage, DecoderFacts DEF Work, NoImage
  <2>6. Front = IF desc_fifo = <<>> THEN NoImage ELSE Head(desc_fifo)
    BY DEF Front
  <2> HIDE DEF begins, ends, final
  <2>7. QED
    BY <2>1, <2>2, <2>3, <2>4, <2>5, <2>6
<1>8. cpl_fifo' = Decoding!Rest(cpl_fifo, cpl_fifo_pop) \o
                    (IF ends # <<>> /\ Len(cpl_fifo) < DescFifoDepth
                     THEN <<work[ends[1]]>> ELSE <<>>)
  <2>1. cpl_fifo' = Queue(cpl_fifo, final, task_id[write_service_decoder], cpl_fifo_pop)
    BY DEF Cycle, MmioFifos
  <2>2. final => /\ task_id[write_service_decoder] \in Images
                 /\ work[ends[1]] = task_id[write_service_decoder]
    BY EndsAnImage DEF Work
  <2>3. (cpl_fifo_pop /\ cpl_fifo # <<>>) = cpl_fifo_pop
    BY <1>1, <1>5
  <2>4. final <=> ends # <<>>
    OBVIOUS
  <2> HIDE DEF work, ends, final
  <2>5. QED
    BY <2>1, <2>2, <2>3, <2>4, QueueMoves DEF ServesImages
<1>9. Answer' = IF cpl_fifo_pop THEN Head(cpl_fifo) ELSE Answer
  BY AnswerStep
<1>10. PICK o \in Decoding!Optional(Images), b \in Decoding!Optional(Decoders),
            e \in Decoding!Optional(Decoders), asks \in BOOLEAN :
         o = order /\ b = begins /\ e = ends /\ asks = cpl_fifo_pop
  BY <1>1
<1>11. Decoding!Serve(o, b, e, asks)
  <2> HIDE DEF order, begins, ends, final
  <2>1. work = [d \in Decoders |-> IF Decodes(d) THEN task_id[d] ELSE NoImage]
    BY DEF Work
  <2>2. work' = [d \in Decoders |-> CASE begins = <<d>> -> Head(desc_fifo)
                                     [] ends = <<d>> -> NoImage
                                     [] OTHER -> work[d]]
    BY <1>7
  <2>3. work' = [d \in Decoders |-> IF Decodes(d) THEN task_id[d] ELSE NoImage]'
    BY DEF Work
  <2>4. Answer' = (IF host.returned = <<>> THEN NoImage ELSE host.returned[Len(host.returned)])'
    BY DEF Answer
  <2> HIDE DEF work
  <2>5. QED
    BY <1>2, <1>3, <1>4, <1>5, <1>6, <1>8, <1>9, <1>10, <2>1, <2>2, <2>3, <2>4
    DEF Decoding!Serve, Answer
<1>12. QED
  BY <1>11 DEF Decoding!Next
LEMMA ResetServes ==
  ASSUME TopSound, ServesImages, NEW in \in Inputs, Cycle(in), mmio_reset_pulse
  PROVE  Decoding!Reset
<1>1. desc_fifo' = <<>> /\ cpl_fifo' = <<>>
  BY DEF Cycle, MmioFifos
<1>2. slot_state' = AllSlots("SLOT_IDLE")
  BY DEF Cycle, Lifecycle, ResetSlots
<1>3. \A d \in Decoders : ~Decodes(d)'
  BY <1>2 DEF AllSlots, Decodes
<1>4. ~cpl_fifo_pop
  BY DEF TopSound, TopRange, MmioRange, OneAccess
<1>5. Answer' = Answer
  BY <1>4, AnswerStep
<1>6. QED
  BY <1>1, <1>3, <1>5 DEF Decoding!Reset, Answer

LEMMA StillServes ==
  ASSUME UNCHANGED topVars
  PROVE  UNCHANGED Decoding!decodeVars /\ (ServesImages => ServesImages')
<1> USE DEF topVars, mmioVars, fifoVars, slotVars, externalVars
<1>1. UNCHANGED Decoding!decodeVars
  BY DEF Decoding!decodeVars, Decodes
<1>2. QED
  BY <1>1 DEF ServesImages

(* jpeg_top is a decode service, through any resets: the descriptor FIFO,   *)
(* the slots and the completion FIFO, with their registers a cycle ahead    *)
(* and their transfers interleaved, do what one queue of orders, one image  *)
(* for each decoder and one queue of finished images do.                    *)
THEOREM TopIsDecodeService == TopSpec => ImplementsDecodeService
<1>1. TopInit => Decoding!Init /\ ServesImages
  <2> SUFFICES ASSUME TopInit PROVE Decoding!Init
    BY ServesInitially
  <2>1. desc_fifo = <<>> /\ cpl_fifo = <<>> /\ host.returned = <<>>
        /\ \A d \in Decoders : ~Decodes(d)
    BY DEF TopInit, AllSlots, Decodes
  <2>2. QED
    BY <2>1, TopAssumption DEF Decoding!Init
<1>2. TopSound /\ ServesImages /\ [TopNext]_topVars =>
        ServesImages' /\ [Decoding!Next]_(Decoding!decodeVars)
  <2> SUFFICES ASSUME TopSound, ServesImages, [TopNext]_topVars
               PROVE  ServesImages' /\ [Decoding!Next]_(Decoding!decodeVars)
    OBVIOUS
  <2>1. CASE UNCHANGED topVars
    BY <2>1, StillServes
  <2>2. CASE TopNext
    <3>1. PICK in \in Inputs : Cycle(in)
      BY <2>2 DEF TopNext
    <3>2. ServesImages'
      BY <3>1, ServesStep
    <3>3. CASE mmio_reset_pulse
      BY <3>1, <3>2, <3>3, ResetServes DEF Decoding!Next
    <3>4. CASE ~mmio_reset_pulse
      BY <3>1, <3>2, <3>4, CycleServes
    <3>5. QED
      BY <3>3, <3>4
  <2>3. QED
    BY <2>1, <2>2
<1>3. QED
  BY <1>1, <1>2, TopIsSound, PTL DEF TopSpec, ImplementsDecodeService, Decoding!Spec
=============================================================================
