----------------------------- MODULE TransferProofs -----------------------------
(***************************************************************************)
(* The transfers of jpeg_top.  The arbiters reload their registers in the  *)
(* cycle in which the engine takes a descriptor (see the findings).  If    *)
(* the length survives that cycle, every beat is read and written at its   *)
(* place and no counter wraps around, for any number of decoders and       *)
(* images, any depth of the FIFOs and behind any resets.                   *)
(***************************************************************************)
EXTENDS TopProofs

-----------------------------------------------------------------------------
(* How far the source of a slot has been read, and how far its destination  *)
(* has been written.                                                        *)
ReadSoFar(d) ==
  IF read_service_active /\ read_service_decoder = d THEN read_engine.addr.pos
                                                     ELSE task_src_addr[d]
WrittenSoFar(d) ==
  task_dst_addr[d] + IF write_service_active /\ write_service_decoder = d
                     THEN write_chunk_bytes_sent ELSE 0

(* The beats in a FIFO are those of image i from the n-th on. *)
Consecutive(fifo, i, n) == \A k \in 1..Len(fifo) : fifo[k] = At(i, n + k - 1)

(* The beats between the engine and the core of a slot are the next ones of *)
(* its file.                                                                *)
SourceExact(d) ==
  /\ task_src_addr[d] + task_src_len[d] = Beats(SourceLen, task_id[d])
  /\ core[d].in_order
  /\ Consecutive(input_fifo[d], task_id[d], core[d].popped)
  /\ slot_state[d] # "SLOT_IDLE" => core[d].popped + Len(input_fifo[d]) = ReadSoFar(d)

ReadExact ==
  /\ dma_read_desc.valid /\ ~read_service_active =>
       LET d == dma_read_desc.decoder
       IN  dma_read_desc.addr = SourceAddress(d) /\ dma_read_desc.len <= task_src_len[d]
  /\ read_service_active =>
       LET d == read_service_decoder
       IN  /\ read_engine.addr.image = task_id[d]
           /\ read_engine.addr.pos + read_engine.left = task_src_addr[d] + dma_read_desc.len
           /\ dma_read_desc.len <= task_src_len[d]

(* Those between a core and the engine are the next pixels to write.        *)
PixelsExact(d) ==
  /\ slot_state[d] = "SLOT_RESET_PULSE" => core[d].dims
  /\ have_dimensions[d] =>
       task_dst_addr[d] + write_bytes_remaining[d] = Beats(PixelLen, task_id[d])
  /\ ~have_dimensions[d] => task_dst_addr[d] = 0 /\ write_bytes_remaining[d] = 0
  /\ slot_state[d] # "SLOT_IDLE" => Consecutive(output_fifo[d], task_id[d], WrittenSoFar(d))
  /\ slot_state[d] # "SLOT_IDLE" => core[d].made = WrittenSoFar(d) + Len(output_fifo[d])

WriteExact ==
  /\ ~write_service_active => write_chunk_bytes_sent = 0 /\ ~write_chunk_data_done
  /\ dma_write_desc.valid /\ ~write_service_active =>
       LET d == dma_write_desc.decoder
       IN  /\ dma_write_desc.addr = At(task_id[d], task_dst_addr[d])
           /\ dma_write_desc.len <= write_bytes_remaining[d]
  /\ write_service_active =>
       LET d == write_service_decoder
       IN  /\ write_engine.addr = At(task_id[d], WrittenSoFar(d))
           /\ write_engine.left + write_chunk_bytes_sent = dma_write_desc.len
           /\ write_chunk_data_done <=> write_engine.left = 0
           /\ write_engine.last <=> write_engine.left = 0
           /\ dma_write_desc.len <= write_bytes_remaining[d]

(* The destination buffer of an image holds the pixels written so far, in   *)
(* order: none before a slot has its descriptor, all when its completion    *)
(* can be read.                                                             *)
Pixel(i, n) == [at |-> At(i, n), pixels |-> At(i, n)]
Framed(i, n) == {f \in frame : f.at.image = i} = {Pixel(i, k) : k \in 0..(n - 1)}
Waiting(i) == i >= host.next \/ Pushed(i) \/ \E k \in 1..Len(desc_fifo) : desc_fifo[k] = i
Completed(i) == \/ \E k \in 1..Len(cpl_fifo) : cpl_fifo[k] = i
                \/ \E k \in 1..Len(host.returned) : host.returned[k] = i

FrameExact ==
  \A i \in Images :
    /\ Waiting(i) => Framed(i, 0)
    /\ \A d \in Carried(i) : Framed(i, WrittenSoFar(d))
    /\ Completed(i) => Framed(i, PixelLen[i])

TransfersExact ==
  /\ TopSound
  /\ ReadExact /\ WriteExact /\ FrameExact
  /\ cpl_fifo \in Seq(Images)
  /\ \A d \in Decoders : SourceExact(d) /\ PixelsExact(d)

-----------------------------------------------------------------------------
(* A FIFO that gives up its first beat and takes the one that comes next. *)
LEMMA StaysConsecutive ==
  ASSUME NEW fifo \in Seq(Address), NEW i, NEW n \in Nat, Consecutive(fifo, i, n),
         NEW pop \in BOOLEAN, NEW push \in BOOLEAN, NEW x,
         pop => fifo # <<>>, push => x = At(i, n + Len(fifo)) /\ x \in Address
  PROVE  Consecutive((IF pop THEN Tail(fifo) ELSE fifo) \o (IF push THEN <<x>> ELSE <<>>),
                     i, n + Flag(pop))
<1> DEFINE kept == IF pop THEN Tail(fifo) ELSE fifo
           m == n + Flag(pop)
<1>1. /\ kept \in Seq(Address) /\ Len(kept) \in Nat /\ m \in Nat
      /\ Len(kept) = Len(fifo) - Flag(pop) /\ m + Len(kept) = n + Len(fifo)
  <2>1. CASE pop
    BY <2>1 DEF Flag
  <2>2. CASE ~pop
    BY <2>2 DEF Flag
  <2>3. QED
    BY <2>1, <2>2
<1>2. \A k \in 1..Len(kept) : kept[k] = At(i, m + k - 1)
  <2>1. CASE pop
    <3>1. \A k \in 1..Len(kept) : kept[k] = fifo[k + 1] /\ k + 1 \in 1..Len(fifo)
      BY <2>1
    <3>2. \A k \in 1..Len(kept) : n + (k + 1) - 1 = m + k - 1
      BY <2>1 DEF Flag
    <3> HIDE DEF kept, m
    <3>3. QED
      BY <3>1, <3>2 DEF Consecutive
  <2>2. CASE ~pop
    BY <2>2 DEF Consecutive, Flag
  <2>3. QED
    BY <2>1, <2>2
<1> HIDE DEF kept, m
<1>3. CASE push
  <2>1. /\ kept \o <<x>> = Append(kept, x) /\ Len(Append(kept, x)) = Len(kept) + 1
        /\ Append(kept, x)[Len(kept) + 1] = x
        /\ \A k \in 1..Len(kept) : Append(kept, x)[k] = kept[k]
    BY <1>1, <1>3
  <2>2. x = At(i, m + (Len(kept) + 1) - 1)
    <3>1. m + (Len(kept) + 1) - 1 = n + Len(fifo)
      BY <1>1
    <3>2. QED
      BY <1>3, <3>1
  <2>3. \A k \in 1..(Len(kept) + 1) : k \in 1..Len(kept) \/ k = Len(kept) + 1
    BY <1>1
  <2>4. Consecutive(Append(kept, x), i, m)
    BY <1>2, <2>1, <2>2, <2>3 DEF Consecutive
  <2>5. QED
    BY <1>3, <2>1, <2>4 DEF kept, m
<1>4. CASE ~push
  <2>1. kept \o <<>> = kept
    BY <1>1
  <2>2. Consecutive(kept, i, m)
    BY <1>2 DEF Consecutive
  <2>3. QED
    BY <1>4, <2>1, <2>2 DEF kept, m
<1>5. QED
  BY <1>3, <1>4

(* Where no transfer and no assignment of a slot is at work its pointers    *)
(* stay.                                                                    *)
LEMMA SourceStays ==
  ASSUME TopSound, NEW in \in Inputs, Cycle(in), ~mmio_reset_pulse, NEW d \in Decoders
  PROVE  /\ desc_assign # d /\ ~(read_data_last(in) /\ read_service_decoder = d) =>
              task_src_addr'[d] = task_src_addr[d] /\ task_src_len'[d] = task_src_len[d]
         /\ desc_assign # d /\ read_data_last(in) /\ read_service_decoder = d =>
              /\ task_src_addr'[d] = task_src_addr[d] + dma_read_desc.len
              /\ task_src_len'[d] = Minus(task_src_len[d], dma_read_desc.len)
         /\ desc_assign = d => /\ task_src_addr'[d] = 0
                               /\ task_src_len'[d] = Beats(SourceLen, Front)
<1>1. Accounting(in)
  BY DEF Cycle, Lifecycle
<1>2. desc_assign = d => ~Read(in, d)
  BY SlotSteps, QuietSlot
<1>3. read_data_last(in) => in.read_beat
  BY DEF read_data_last
<1>4. QED
  BY <1>1, <1>2, <1>3 DEF Accounting, Read

(* The ranges the arithmetic of the transfers needs. *)
LEMMA SourceRange ==
  ASSUME TopSound, NEW d \in Decoders
  PROVE  /\ task_src_addr[d] \in Nat /\ task_src_len[d] \in Word /\ task_src_len[d] \in Nat
         /\ core[d].popped \in Nat /\ input_fifo[d] \in Seq(Address)
         /\ dma_read_desc.len \in Nat /\ dma_read_desc.decoder \in Decoders
         /\ read_engine.addr \in Address /\ read_engine.addr.pos \in Nat
         /\ read_engine.left \in Nat /\ read_service_decoder \in Decoders
         /\ task_id[d] \in Ids /\ slot_state[d] \in SlotStates
         /\ read_service_active = read_engine.busy
<1>1. SlotRange /\ ExternalRange /\ ServiceRange /\ TransfersServed
  BY DEF TopSound, TopRange
<1>2. task_src_len[d] \in Nat
  BY <1>1, DecoderFacts DEF SlotRange, Word
<1>3. core[d] \in Core /\ read_engine \in Engine
  BY <1>1 DEF ExternalRange
<1>4. QED
  BY <1>1, <1>2, <1>3
  DEF SlotRange, ExternalRange, ServiceRange, TransfersServed, Core, Engine, Transfer, Address

(* A slot that has just got a descriptor is in no transfer. *)
LEMMA AssignedNotServed ==
  ASSUME TopSound, NEW in \in Inputs, Cycle(in), ~mmio_reset_pulse, NEW d \in Decoders,
         slot_state[d] # "SLOT_RUN"
  PROVE  /\ ~(read_service_active' /\ read_service_decoder' = d)
         /\ ~(write_service_active' /\ write_service_decoder' = d)
<1>1. TransfersServed
  BY DEF TopSound
<1>2. ~(read_service_active' /\ read_service_decoder' = d)
  BY <1>1, ReadSteps
  DEF TransfersServed, CanRead, ReadEnds, ReadStarts, ReadMoves, ReadWaits
<1>3. ~(write_service_active' /\ write_service_decoder' = d)
  BY <1>1, WriteSteps
  DEF TransfersServed, CanWrite, WriteEnds, WriteStarts, WriteMoves, WriteWaits
<1>4. QED
  BY <1>2, <1>3

-----------------------------------------------------------------------------
(* Reading *)

LEMMA SourceExactStep ==
  ASSUME TransfersExact, NEW in \in Inputs, Cycle(in), NEW d \in Decoders
  PROVE  SourceExact(d)'
<1>1. TopSound /\ SourceExact(d) /\ ReadExact
  BY DEF TransfersExact
<1>2. CASE mmio_reset_pulse
  <2>1. /\ slot_state'[d] = "SLOT_IDLE" /\ task_id'[d] = NoImage
        /\ task_src_addr'[d] = 0 /\ task_src_len'[d] = 0
    BY <1>2 DEF Cycle, Lifecycle, ResetSlots, AllSlots
  <2>2. Clean(d)'
    BY <1>2, CleanAfterReset DEF CoreReset
  <2>3. QED
    BY <2>1, <2>2 DEF SourceExact, Clean, FreshCore, Beats, Consecutive
<1>3. CASE ~mmio_reset_pulse /\ slot_state[d] \in {"SLOT_IDLE", "SLOT_RESET_HOLD"}
  <2>1. Clean(d)'
    BY <1>1, <1>3, CleanStays, CleanAfterReset, QuietSlot
  <2>2. /\ core'[d].in_order /\ core'[d].popped = 0 /\ input_fifo'[d] = <<>>
    BY <2>1 DEF Clean, FreshCore
  <2>3. Consecutive(input_fifo'[d], task_id'[d], core'[d].popped)
    BY <2>2 DEF Consecutive
  <2>4. ~(read_data_last(in) /\ read_service_decoder = d)
    BY <1>1, <1>3, QuietSlot DEF read_data_last, Read
  <2>5. CASE desc_assign = d
    <3>1. task_id'[d] = Front /\ task_src_addr'[d] = 0 /\ task_src_len'[d] = Beats(SourceLen, Front)
      BY <1>1, <1>3, <2>5, SlotSteps, SourceStays
    <3>2. ~(read_service_active' /\ read_service_decoder' = d)
      BY <1>1, <1>3, AssignedNotServed
    <3>3. ReadSoFar(d)' = 0
      BY <3>1, <3>2 DEF ReadSoFar
    <3>4. task_src_len'[d] \in Nat
      BY <1>1, SlotRangeStep, DecoderFacts DEF SlotRange, Word
    <3>5. QED
      BY <2>2, <2>3, <3>1, <3>3, <3>4 DEF SourceExact
  <2>6. CASE desc_assign # d
    <3>1. /\ slot_state'[d] = "SLOT_IDLE" /\ task_id'[d] = task_id[d]
          /\ task_src_addr'[d] = task_src_addr[d] /\ task_src_len'[d] = task_src_len[d]
      BY <1>1, <1>3, <2>4, <2>6, SlotSteps, SourceStays DEF SlotState
    <3>2. QED
      BY <1>1, <2>2, <2>3, <3>1 DEF SourceExact
  <2>7. QED
    BY <2>5, <2>6
<1>4. CASE ~mmio_reset_pulse /\ slot_state[d] \in {"SLOT_RUN", "SLOT_RESET_PULSE"}
  <2>1. /\ desc_assign # d /\ ~CoreReset(d) /\ task_id'[d] = task_id[d]
        /\ slot_state[d] # "SLOT_IDLE"
    BY <1>1, <1>4, SlotSteps DEF TopSound, SlotsKept, CoreReset
  <2>2. /\ task_src_addr[d] \in Nat /\ task_src_len[d] \in Word /\ task_src_len[d] \in Nat
        /\ core[d].popped \in Nat /\ input_fifo[d] \in Seq(Address)
        /\ dma_read_desc.len \in Nat
        /\ read_engine.addr \in Address /\ read_engine.addr.pos \in Nat
        /\ read_engine.left \in Nat /\ task_id[d] \in Ids
        /\ (read_service_active <=> read_engine.busy)
    BY <1>1, SourceRange
  <2>3. /\ d \in in.pop => input_fifo[d] # <<>>
        /\ Read(in, d) => read_service_active /\ read_service_decoder = d
        /\ (d \in in.pop) \in BOOLEAN /\ Read(in, d) \in BOOLEAN
        /\ read_data_last(in) => in.read_beat
    BY InputFacts DEF Read, read_data_last
  <2>4. Read(in, d) => read_engine.addr = At(task_id[d], core[d].popped + Len(input_fifo[d]))
    <3>1. ASSUME Read(in, d)
          PROVE  read_engine.addr = At(task_id[d], core[d].popped + Len(input_fifo[d]))
      <4>1. read_engine.addr.image = task_id[d]
        BY <1>1, <2>3, <3>1 DEF ReadExact
      <4>2. read_engine.addr.pos = core[d].popped + Len(input_fifo[d])
        BY <1>1, <2>1, <2>3, <3>1 DEF SourceExact, ReadSoFar
      <4>3. QED
        BY <2>2, <4>1, <4>2 DEF Address, At
    <3>2. QED
      BY <3>1
  <2>5. /\ core'[d].popped = core[d].popped + Flag(d \in in.pop)
        /\ core'[d].in_order = (core[d].in_order /\ (d \in in.pop =>
             Head(input_fifo[d]) = At(task_id[d], core[d].popped)))
        /\ input_fifo'[d] = (IF d \in in.pop THEN Tail(input_fifo[d]) ELSE input_fifo[d]) \o
                            (IF Read(in, d) THEN <<read_engine.addr>> ELSE <<>>)
    BY <2>1 DEF Cycle, Cores
  <2>6. Consecutive(input_fifo'[d], task_id'[d], core'[d].popped)
    <3>1. Consecutive(input_fifo[d], task_id[d], core[d].popped)
      BY <1>1 DEF SourceExact
    <3>2. Consecutive((IF d \in in.pop THEN Tail(input_fifo[d]) ELSE input_fifo[d]) \o
                      (IF Read(in, d) THEN <<read_engine.addr>> ELSE <<>>),
                      task_id[d], core[d].popped + Flag(d \in in.pop))
      BY <2>2, <2>3, <2>4, <3>1, StaysConsecutive
    <3>3. QED
      BY <2>1, <2>5, <3>2
  <2>7. core'[d].in_order
    <3>1. d \in in.pop => Head(input_fifo[d]) = At(task_id[d], core[d].popped)
      <4>1. ASSUME d \in in.pop
            PROVE  Head(input_fifo[d]) = At(task_id[d], core[d].popped)
        <5>1. 1 \in 1..Len(input_fifo[d]) /\ Head(input_fifo[d]) = input_fifo[d][1]
          BY <2>2, <2>3, <4>1
        <5>2. input_fifo[d][1] = At(task_id[d], core[d].popped + 1 - 1)
          BY <1>1, <5>1 DEF SourceExact, Consecutive
        <5>3. core[d].popped + 1 - 1 = core[d].popped
          BY <2>2
        <5>4. QED
          BY <5>1, <5>2, <5>3
      <4>2. QED
        BY <4>1
    <3>2. QED
      BY <1>1, <2>5, <3>1 DEF SourceExact
  <2>8. core'[d].popped + Len(input_fifo'[d]) =
          core[d].popped + Len(input_fifo[d]) + Flag(Read(in, d))
    <3>1. Len(input_fifo'[d]) = Len(input_fifo[d]) + Flag(Read(in, d)) - Flag(d \in in.pop)
      BY <1>1, <2>1, InputFifoStep
    <3>2. PICK n \in Nat, r \in Nat, p \in Nat :
            n = Len(input_fifo[d]) /\ r = Flag(Read(in, d)) /\ p = Flag(d \in in.pop)
      BY <2>2 DEF Flag
    <3>3. Len(input_fifo'[d]) = n + r - p /\ core'[d].popped = core[d].popped + p
      BY <2>5, <3>1, <3>2
    <3>4. QED
      BY <2>2, <3>2, <3>3
  <2>9. core[d].popped + Len(input_fifo[d]) = ReadSoFar(d) /\ ReadSoFar(d) \in Nat
    BY <1>1, <2>1, <2>2 DEF SourceExact, ReadSoFar
  <2>10. CASE read_data_last(in) /\ read_service_decoder = d
    <3>1. /\ ~read_service_active' /\ Read(in, d) /\ read_engine.left = 1
          /\ read_service_active
      BY <1>1, <1>4, <2>3, <2>10, ReadSteps, InputFacts
      DEF ReadEnds, ReadStarts, ReadMoves, ReadWaits, Read
    <3>2. /\ task_src_addr'[d] = task_src_addr[d] + dma_read_desc.len
          /\ task_src_len'[d] = Minus(task_src_len[d], dma_read_desc.len)
      BY <1>1, <1>4, <2>1, <2>10, SourceStays
    <3>3. /\ read_engine.addr.pos + 1 = task_src_addr[d] + dma_read_desc.len
          /\ dma_read_desc.len <= task_src_len[d]
      BY <1>1, <2>10, <3>1 DEF ReadExact
    <3>4. Minus(task_src_len[d], dma_read_desc.len) = task_src_len[d] - dma_read_desc.len
      <4>1. dma_read_desc.len \in Word
        BY <2>2, <3>3, DecoderFacts DEF Word
      <4>2. QED
        BY <2>2, <3>3, <4>1, MinusFacts
    <3>5. task_src_addr'[d] + task_src_len'[d] = Beats(SourceLen, task_id'[d])
      BY <1>1, <2>1, <2>2, <3>2, <3>4 DEF SourceExact
    <3>6. ReadSoFar(d) = read_engine.addr.pos /\ ReadSoFar(d)' = task_src_addr'[d]
      BY <2>10, <3>1 DEF ReadSoFar
    <3>7. Flag(Read(in, d)) = 1
      BY <3>1 DEF Flag
    <3>8. QED
      BY <2>2, <2>6, <2>7, <2>8, <2>9, <3>2, <3>3, <3>5, <3>6, <3>7 DEF SourceExact
  <2>11. CASE ~(read_data_last(in) /\ read_service_decoder = d)
    <3>1. task_src_addr'[d] = task_src_addr[d] /\ task_src_len'[d] = task_src_len[d]
      BY <1>1, <1>4, <2>1, <2>11, SourceStays
    <3>2. ReadSoFar(d)' = ReadSoFar(d) + Flag(Read(in, d))
      <4>1. CASE read_data_last(in) /\ ReadEnds
        <5>1. ~Read(in, d) /\ read_service_decoder # d /\ ~read_service_active'
          BY <2>11, <4>1 DEF Read, ReadEnds
        <5>2. QED
          BY <2>2, <3>1, <5>1 DEF ReadSoFar, Flag
      <4>2. CASE ~in.read_beat /\ ReadStarts
        <5>1. ~read_service_active /\ ~Read(in, d)
          BY <2>2, <4>2 DEF ReadStarts, Read
        <5>2. ReadSoFar(d) = task_src_addr[d]
          BY <5>1 DEF ReadSoFar
        <5>3. read_service_decoder' = d => read_engine'.addr.pos = task_src_addr[d]
          BY <1>1, <4>2, <5>1 DEF ReadStarts, ReadExact, SourceAddress, At
        <5>4. ReadSoFar(d)' = task_src_addr[d]
          BY <3>1, <5>3 DEF ReadSoFar
        <5>5. QED
          BY <2>2, <5>1, <5>2, <5>4 DEF Flag
      <4>3. CASE in.read_beat /\ ReadMoves
        <5>1. /\ read_service_active /\ read_service_active'
              /\ read_service_decoder' = read_service_decoder
              /\ read_engine'.addr.pos = read_engine.addr.pos + 1
          BY <2>2, <4>3 DEF ReadMoves, Onward, At
        <5>2. Read(in, d) <=> read_service_decoder = d
          BY <4>3 DEF Read
        <5>3. CASE read_service_decoder = d
          BY <5>1, <5>2, <5>3 DEF ReadSoFar, Flag
        <5>4. CASE read_service_decoder # d
          BY <2>2, <3>1, <5>1, <5>2, <5>4 DEF ReadSoFar, Flag
        <5>5. QED
          BY <5>3, <5>4
      <4>4. CASE ~in.read_beat /\ ReadWaits
        <5>1. ~Read(in, d)
          BY <4>4 DEF Read
        <5>2. ReadSoFar(d)' = ReadSoFar(d)
          BY <3>1, <4>4 DEF ReadSoFar, ReadWaits
        <5>3. QED
          BY <2>9, <5>1, <5>2 DEF Flag
      <4>5. QED
        BY <1>1, <1>4, <4>1, <4>2, <4>3, <4>4, ReadSteps
    <3>3. QED
      BY <1>1, <2>1, <2>6, <2>7, <2>8, <2>9, <3>1, <3>2 DEF SourceExact
  <2>12. QED
    BY <2>10, <2>11
<1>5. QED
  BY <1>1, <1>2, <1>3, <1>4, SourceRange DEF SlotStates

LEMMA ReadExactStep ==
  ASSUME TransfersExact, NEW in \in Inputs, Cycle(in), LengthsSurvive
  PROVE  ReadExact'
<1>1. /\ TopSound /\ ReadExact /\ TransfersServed /\ ServiceRange /\ SlotRange /\ ReadArbiter
  BY DEF TransfersExact, TopSound, TopRange, Cycle
<1>2. CASE mmio_reset_pulse
  <2>1. ~read_service_active'
    BY <1>2, Zenon DEF Cycle, Lifecycle, ResetSlots
  <2>2. ~dma_read_desc'.valid
    BY <1>1, <1>2 DEF ReadArbiter, NoTransfer
  <2>3. QED
    BY <2>1, <2>2 DEF ReadExact
<1>3. CASE ~mmio_reset_pulse
  <2>1. ASSUME dma_read_desc'.valid, ~read_service_active'
        PROVE  \E d \in Decoders :
                 /\ dma_read_desc'.decoder = d /\ dma_read_desc'.addr = SourceAddress(d)'
                 /\ dma_read_desc'.len <= task_src_len'[d]
    <3>1. ~read_service_active /\ ReadEligible # {}
      BY <1>1, <1>3, <2>1 DEF ReadArbiter, ServiceRange, Transfer
    <3>2. PICK d : /\ d = Pick(read_rr_ptr, ReadEligible)
                   /\ dma_read_desc'.decoder = d /\ dma_read_desc'.addr = SourceAddress(d)
                   /\ dma_read_desc'.len = Lower(task_src_len[d], InputFree(d))
      BY <1>1, <1>3, <3>1 DEF ReadArbiter
    <3>3. d \in ReadEligible
      BY <1>1, <3>1, <3>2, PickEligible DEF ReadEligible, ServiceRange
    <3>4. d \in Decoders /\ CanRead(d) /\ InputFree(d) \in Int /\ task_src_len[d] \in Nat
      <4>1. d \in Decoders /\ CanRead(d)
        BY <3>3 DEF ReadEligible, CanRead
      <4>2. input_fifo_occupied_len[d] \in 0..InputFifoDepth /\ task_src_len[d] \in Word
        BY <1>1, <4>1 DEF SlotRange
      <4>3. QED
        BY <4>1, <4>2, TopAssumption, DecoderFacts DEF InputFree, Word
    <3>5. ~(read_data_last(in) /\ read_service_decoder = d)
      BY <3>1, InputFacts DEF read_data_last
    <3>6. /\ task_src_len'[d] = task_src_len[d] /\ task_src_addr'[d] = task_src_addr[d]
          /\ slot_state'[d] = "SLOT_RUN"
      BY <1>1, <1>3, <3>4, <3>5, CanReadStays DEF CanRead
    <3>7. task_id'[d] = task_id[d]
      BY <1>1, <1>3, <3>4, SlotSteps DEF CanRead
    <3>8. QED
      BY <3>2, <3>4, <3>6, <3>7 DEF SourceAddress, At, Lower
  <2>2. ASSUME read_service_active'
        PROVE  \E d \in Decoders :
                 /\ read_service_decoder' = d /\ read_engine'.addr.image = task_id'[d]
                 /\ read_engine'.addr.pos + read_engine'.left =
                      task_src_addr'[d] + dma_read_desc'.len
                 /\ dma_read_desc'.len <= task_src_len'[d]
    <3>1. /\ ~read_data_last(in)
          /\ ReadStarts \/ ReadMoves \/ (ReadWaits /\ read_service_active)
      BY <1>1, <1>3, <2>2, ReadSteps DEF ReadEnds, ReadWaits, read_data_last
    <3>2. PICK d \in Decoders : d = read_service_decoder' /\ CanRead(d)
      BY <1>1, <3>1
      DEF ReadStarts, ReadMoves, ReadWaits, TransfersServed, ServiceRange, Transfer
    <3>3. /\ task_src_len'[d] = task_src_len[d] /\ task_src_addr'[d] = task_src_addr[d]
      BY <1>1, <1>3, <3>1, <3>2, CanReadStays
    <3>4. task_id'[d] = task_id[d]
      BY <1>1, <1>3, <3>2, SlotSteps DEF CanRead
    <3>5. /\ task_src_addr[d] \in Nat /\ task_src_len[d] \in Nat /\ dma_read_desc.len \in Nat
          /\ read_engine.addr.pos \in Nat /\ read_engine.left \in Nat
          /\ (read_service_active <=> read_engine.busy)
      BY <1>1, SourceRange
    <3>6. CASE ReadStarts
      <4>1. ~read_service_active /\ dma_read_desc.valid /\ dma_read_desc.decoder = d
        BY <3>2, <3>5, <3>6 DEF ReadStarts
      <4>2. dma_read_desc.addr = SourceAddress(d) /\ dma_read_desc.len <= task_src_len[d]
        BY <1>1, <4>1 DEF ReadExact
      <4>3. dma_read_desc'.len = dma_read_desc.len
        BY <3>6 DEF LengthsSurvive, ReadStarts
      <4>4. /\ read_engine'.addr.image = task_id[d] /\ read_engine'.addr.pos = task_src_addr[d]
            /\ read_engine'.left = dma_read_desc.len
        BY <3>6, <4>2 DEF ReadStarts, SourceAddress, At
      <4>5. QED
        BY <3>2, <3>3, <3>4, <4>2, <4>3, <4>4
    <3>7. CASE (ReadMoves \/ ReadWaits) /\ read_service_active
      <4>1. read_service_decoder = d
        BY <3>2, <3>7 DEF ReadMoves, ReadWaits
      <4>2. /\ read_engine.addr.image = task_id[d]
            /\ read_engine.addr.pos + read_engine.left = task_src_addr[d] + dma_read_desc.len
            /\ dma_read_desc.len <= task_src_len[d]
        BY <1>1, <3>7, <4>1 DEF ReadExact
      <4>3. dma_read_desc'.len = dma_read_desc.len
        BY <1>1, <1>3, <3>7 DEF ReadArbiter, ServiceRange, Transfer
      <4>4. /\ read_engine'.addr.image = read_engine.addr.image
            /\ read_engine'.addr.pos + read_engine'.left =
                 read_engine.addr.pos + read_engine.left
        BY <3>5, <3>7 DEF ReadMoves, ReadWaits, Onward, At
      <4>5. QED
        BY <3>2, <3>3, <3>4, <4>2, <4>3, <4>4
    <3>8. QED
      BY <3>1, <3>5, <3>6, <3>7 DEF ReadMoves
  <2>3. QED
    BY <2>1, <2>2 DEF ReadExact, SourceAddress
<1>4. QED
  BY <1>2, <1>3

-----------------------------------------------------------------------------
(* Writing *)

LEMMA PixelRange ==
  ASSUME TopSound, NEW d \in Decoders
  PROVE  /\ task_dst_addr[d] \in Nat /\ write_bytes_remaining[d] \in Word
         /\ write_bytes_remaining[d] \in Nat
         /\ core[d].made \in Nat /\ core[d].dims \in BOOLEAN
         /\ output_fifo[d] \in Seq(Address)
         /\ dma_write_desc.len \in Word /\ dma_write_desc.len \in Nat
         /\ dma_write_desc.decoder \in Decoders /\ write_chunk_bytes_sent \in Nat
         /\ write_engine.addr \in Address
         /\ write_engine.left \in Nat /\ write_service_decoder \in Decoders
         /\ task_id[d] \in Ids /\ slot_state[d] \in SlotStates
         /\ have_dimensions[d] \in BOOLEAN
         /\ write_service_active = write_engine.busy
         /\ WrittenSoFar(d) \in Nat
<1>1. SlotRange /\ ExternalRange /\ ServiceRange /\ TransfersServed
  BY DEF TopSound, TopRange
<1>2. write_bytes_remaining[d] \in Nat /\ dma_write_desc.len \in Nat
  BY <1>1, DecoderFacts DEF SlotRange, ServiceRange, Word
<1>3. core[d] \in Core /\ write_engine \in Engine
  BY <1>1 DEF ExternalRange
<1>4. task_dst_addr[d] \in Nat /\ write_chunk_bytes_sent \in Nat
  BY <1>1 DEF SlotRange, ServiceRange
<1>5. WrittenSoFar(d) \in Nat
  BY <1>4 DEF WrittenSoFar
<1>6. QED
  BY <1>1, <1>2, <1>3, <1>4, <1>5
  DEF SlotRange, ExternalRange, ServiceRange, TransfersServed, Core, Engine, Transfer

(* A beat is written only where one is due. *)
LEMMA BeatsDue ==
  ASSUME TopSound, WriteExact, NEW in \in Inputs
  PROVE  /\ in.write_beat => /\ write_service_active /\ write_engine.left > 0
                             /\ output_fifo[write_service_decoder] # <<>>
                             /\ ~in.status
         /\ in.status => /\ write_service_active /\ write_engine.left = 0
                         /\ write_chunk_bytes_sent = dma_write_desc.len
<1>1. /\ in.write_beat => /\ write_service_active /\ ~write_chunk_data_done
                          /\ output_fifo[write_service_decoder] # <<>>
      /\ in.status => write_engine.busy /\ write_engine.last
  BY InputFacts
<1>2. 0 \in Decoders
  BY DecoderFacts
<1>3. /\ write_engine.left \in Nat /\ write_chunk_bytes_sent \in Nat
      /\ dma_write_desc.len \in Nat /\ (write_service_active <=> write_engine.busy)
  BY <1>2, PixelRange
<1>4. write_service_active => /\ write_chunk_data_done <=> write_engine.left = 0
                              /\ write_engine.last <=> write_engine.left = 0
                              /\ write_engine.left + write_chunk_bytes_sent = dma_write_desc.len
  BY DEF WriteExact
<1>5. QED
  BY <1>1, <1>3, <1>4

(* What a slot has written, and what it has still to write. *)
LEMMA WrittenSteps ==
  ASSUME TopSound, WriteExact, NEW in \in Inputs, Cycle(in), ~mmio_reset_pulse,
         NEW d \in Decoders, slot_state[d] \in {"SLOT_RUN", "SLOT_RESET_PULSE"},
         slot_state[d] = "SLOT_RESET_PULSE" => core[d].dims
  PROVE  /\ WrittenSoFar(d)' = WrittenSoFar(d) + Flag(Written(in, d))
         /\ in.status /\ write_service_decoder = d =>
              /\ have_dimensions[d] /\ slot_state[d] = "SLOT_RUN"
              /\ task_dst_addr'[d] = task_dst_addr[d] + dma_write_desc.len
              /\ write_bytes_remaining'[d] = write_bytes_remaining[d] - dma_write_desc.len
         /\ ~(in.status /\ write_service_decoder = d) =>
              /\ task_dst_addr'[d] = task_dst_addr[d]
              /\ write_bytes_remaining'[d] =
                   IF d \in in.dims THEN Beats(PixelLen, task_id[d]) ELSE write_bytes_remaining[d]
         /\ d \in in.dims => slot_state[d] = "SLOT_RUN" /\ ~have_dimensions[d]
<1>1. /\ Accounting(in) /\ TransfersServed /\ SlotsKept
  BY DEF TopSound, Cycle, Lifecycle
<1>2. /\ task_dst_addr[d] \in Nat /\ write_bytes_remaining[d] \in Word
      /\ write_bytes_remaining[d] \in Nat /\ dma_write_desc.len \in Word
      /\ dma_write_desc.len \in Nat /\ write_chunk_bytes_sent \in Nat
      /\ (write_service_active <=> write_engine.busy)
  BY PixelRange
<1>3. desc_assign # d
  BY SlotSteps
<1>4. d \in in.dims => slot_state[d] = "SLOT_RUN" /\ ~have_dimensions[d]
  BY <1>1, InputFacts DEF SlotsKept
<1>5. in.status /\ write_service_decoder = d =>
        /\ CanWrite(d) /\ dma_write_desc.len <= write_bytes_remaining[d]
        /\ write_service_active /\ write_chunk_bytes_sent = dma_write_desc.len
  BY <1>1, BeatsDue DEF TransfersServed, WriteExact
<1>6. ASSUME in.status, write_service_decoder = d
      PROVE  /\ have_dimensions[d] /\ slot_state[d] = "SLOT_RUN"
             /\ task_dst_addr'[d] = task_dst_addr[d] + dma_write_desc.len
             /\ write_bytes_remaining'[d] = write_bytes_remaining[d] - dma_write_desc.len
  <2>1. have_dimensions[d] /\ slot_state[d] = "SLOT_RUN" /\ d \notin in.dims
    BY <1>4, <1>5, <1>6 DEF CanWrite
  <2>2. /\ task_dst_addr'[d] = task_dst_addr[d] + dma_write_desc.len
        /\ write_bytes_remaining'[d] = Minus(write_bytes_remaining[d], dma_write_desc.len)
    BY <1>1, <1>3, <1>6, <2>1 DEF Accounting
  <2>3. QED
    BY <1>2, <1>5, <1>6, <2>1, <2>2, MinusFacts
<1>7. ASSUME ~(in.status /\ write_service_decoder = d)
      PROVE  /\ task_dst_addr'[d] = task_dst_addr[d]
             /\ write_bytes_remaining'[d] =
                  IF d \in in.dims THEN Beats(PixelLen, task_id[d]) ELSE write_bytes_remaining[d]
  BY <1>1, <1>3, <1>7 DEF Accounting
<1>8. WrittenSoFar(d)' = WrittenSoFar(d) + Flag(Written(in, d))
  <2>1. CASE in.status /\ WriteEnds
    <3>1. ~write_service_active' /\ write_service_active /\ ~Written(in, d)
      BY <1>2, <2>1, BeatsDue DEF WriteEnds, Written
    <3>2. WrittenSoFar(d)' = task_dst_addr'[d]
      <4>1. task_dst_addr'[d] \in Nat
        BY SlotRangeStep DEF SlotRange
      <4>2. QED
        BY <3>1, <4>1 DEF WrittenSoFar
    <3>3. CASE write_service_decoder = d
      BY <1>2, <1>5, <1>6, <2>1, <3>1, <3>2, <3>3 DEF WrittenSoFar, Flag
    <3>4. CASE write_service_decoder # d
      BY <1>2, <1>7, <3>1, <3>2, <3>4 DEF WrittenSoFar, Flag
    <3>5. QED
      BY <3>3, <3>4
  <2>2. CASE ~in.status /\ ~in.write_beat /\ WriteStarts
    <3>1. ~write_service_active /\ ~Written(in, d) /\ write_chunk_bytes_sent' = 0
      BY <1>2, <2>2 DEF WriteStarts, Written, WriteExact
    <3>2. WrittenSoFar(d) = task_dst_addr[d] /\ WrittenSoFar(d)' = task_dst_addr'[d]
      BY <1>2, <1>7, <2>2, <3>1 DEF WrittenSoFar
    <3>3. QED
      BY <1>2, <1>7, <2>2, <3>1, <3>2 DEF Flag
  <2>3. CASE ~in.status /\ in.write_beat /\ WriteMoves
    <3>1. /\ write_service_active /\ write_service_active'
          /\ write_service_decoder' = write_service_decoder
          /\ write_chunk_bytes_sent' = write_chunk_bytes_sent + 1
          /\ task_dst_addr'[d] = task_dst_addr[d]
      BY <1>2, <1>7, <2>3 DEF WriteMoves
    <3>2. Written(in, d) <=> write_service_decoder = d
      BY <2>3 DEF Written
    <3>3. QED
      BY <1>2, <3>1, <3>2 DEF WrittenSoFar, Flag
  <2>4. CASE ~in.status /\ ~in.write_beat /\ WriteWaits
    <3>1. ~Written(in, d) /\ task_dst_addr'[d] = task_dst_addr[d]
      BY <1>7, <2>4 DEF Written
    <3>2. WrittenSoFar(d)' = WrittenSoFar(d)
      BY <2>4, <3>1 DEF WrittenSoFar, WriteWaits
    <3>3. QED
      BY <3>1, <3>2, PixelRange DEF Flag
  <2>5. QED
    BY <2>1, <2>2, <2>3, <2>4, WriteSteps
<1>9. QED
  BY <1>4, <1>6, <1>7, <1>8

LEMMA PixelsExactStep ==
  ASSUME TransfersExact, NEW in \in Inputs, Cycle(in), NEW d \in Decoders
  PROVE  PixelsExact(d)'
<1>1. TopSound /\ PixelsExact(d) /\ WriteExact /\ SlotsKept
  BY DEF TransfersExact, TopSound
<1>2. CASE mmio_reset_pulse
  <2>1. /\ slot_state'[d] = "SLOT_IDLE" /\ ~have_dimensions'[d]
        /\ task_dst_addr'[d] = 0 /\ write_bytes_remaining'[d] = 0
    BY <1>2 DEF Cycle, Lifecycle, ResetSlots, AllSlots
  <2>2. QED
    BY <2>1 DEF PixelsExact
<1>3. CASE ~mmio_reset_pulse /\ slot_state[d] \in {"SLOT_IDLE", "SLOT_RESET_HOLD"}
  <2>1. Clean(d)'
    BY <1>1, <1>3, CleanStays, CleanAfterReset, QuietSlot
  <2>2. core'[d].made = 0 /\ output_fifo'[d] = <<>>
    BY <2>1 DEF Clean, FreshCore
  <2>3. ~(in.status /\ write_service_decoder = d) /\ d \notin in.dims
    <3>1. in.status => CanWrite(write_service_decoder)
      BY <1>1, InputFacts DEF TopSound, TransfersServed
    <3>2. QED
      BY <1>1, <1>3, <3>1, QuietSlot DEF CanWrite
  <2>4. Accounting(in)
    BY <1>3 DEF Cycle, Lifecycle
  <2>5. CASE desc_assign = d
    <3>1. /\ slot_state'[d] = "SLOT_RUN" /\ ~have_dimensions'[d]
          /\ task_dst_addr'[d] = 0 /\ write_bytes_remaining'[d] = 0
      BY <1>1, <1>3, <2>3, <2>4, <2>5, SlotSteps DEF Accounting, SlotState
    <3>2. ~(write_service_active' /\ write_service_decoder' = d)
      BY <1>1, <1>3, AssignedNotServed
    <3>3. WrittenSoFar(d)' = 0
      BY <3>1, <3>2 DEF WrittenSoFar
    <3>4. QED
      BY <2>2, <3>1, <3>3 DEF PixelsExact, Consecutive
  <2>6. CASE desc_assign # d
    <3>1. /\ slot_state'[d] = "SLOT_IDLE" /\ task_id'[d] = task_id[d]
          /\ have_dimensions'[d] = have_dimensions[d]
      BY <1>1, <1>3, <2>3, <2>6, SlotSteps, PixelRange DEF SlotState
    <3>2. /\ task_dst_addr'[d] = task_dst_addr[d]
          /\ write_bytes_remaining'[d] = write_bytes_remaining[d]
      BY <2>3, <2>4, <2>6 DEF Accounting
    <3>3. QED
      BY <1>1, <3>1, <3>2 DEF PixelsExact
  <2>7. QED
    BY <2>5, <2>6
<1>4. CASE ~mmio_reset_pulse /\ slot_state[d] \in {"SLOT_RUN", "SLOT_RESET_PULSE"}
  <2>1. /\ desc_assign # d /\ ~CoreReset(d) /\ task_id'[d] = task_id[d]
        /\ have_dimensions'[d] = (d \in in.dims \/ have_dimensions[d])
        /\ slot_state'[d] = SlotState(d) /\ slot_state[d] # "SLOT_IDLE"
    BY <1>1, <1>4, SlotSteps DEF SlotsKept, CoreReset
  <2>2. slot_state[d] = "SLOT_RESET_PULSE" => core[d].dims
    BY <1>1 DEF PixelsExact
  <2>3. /\ WrittenSoFar(d)' = WrittenSoFar(d) + Flag(Written(in, d))
        /\ in.status /\ write_service_decoder = d =>
             /\ have_dimensions[d] /\ slot_state[d] = "SLOT_RUN"
             /\ task_dst_addr'[d] = task_dst_addr[d] + dma_write_desc.len
             /\ write_bytes_remaining'[d] = write_bytes_remaining[d] - dma_write_desc.len
        /\ ~(in.status /\ write_service_decoder = d) =>
             /\ task_dst_addr'[d] = task_dst_addr[d]
             /\ write_bytes_remaining'[d] =
                  IF d \in in.dims THEN Beats(PixelLen, task_id[d]) ELSE write_bytes_remaining[d]
        /\ d \in in.dims => slot_state[d] = "SLOT_RUN" /\ ~have_dimensions[d]
    BY <1>1, <1>4, <2>2, WrittenSteps
  <2>4. /\ task_dst_addr[d] \in Nat /\ write_bytes_remaining[d] \in Nat
        /\ dma_write_desc.len \in Nat /\ core[d].made \in Nat /\ core[d].dims \in BOOLEAN
        /\ output_fifo[d] \in Seq(Address) /\ WrittenSoFar(d) \in Nat
        /\ task_id[d] \in Ids /\ have_dimensions[d] \in BOOLEAN
    BY <1>1, PixelRange
  <2>5. slot_state'[d] = "SLOT_RESET_PULSE" => core'[d].dims
    <3>1. slot_state'[d] = "SLOT_RESET_PULSE" => slot_state[d] = "SLOT_RUN" /\ Finished(d)
      BY <1>4, <2>1 DEF SlotState
    <3>2. slot_state'[d] = "SLOT_RESET_PULSE" => core[d].dims
      BY <1>1, <3>1 DEF SlotsKept, Finished
    <3>3. core'[d].dims = (core[d].dims \/ d \in in.dims)
      BY <2>1 DEF Cycle, Cores
    <3>4. QED
      BY <3>2, <3>3
  <2>6. have_dimensions'[d] =>
          task_dst_addr'[d] + write_bytes_remaining'[d] = Beats(PixelLen, task_id'[d])
    <3>1. CASE in.status /\ write_service_decoder = d
      <4>1. task_dst_addr[d] + write_bytes_remaining[d] = Beats(PixelLen, task_id[d])
        BY <1>1, <2>3, <3>1 DEF PixelsExact
      <4>2. QED
        BY <2>1, <2>3, <2>4, <3>1, <4>1
    <3>2. CASE ~(in.status /\ write_service_decoder = d) /\ d \in in.dims
      <4>1. task_dst_addr'[d] = 0 /\ write_bytes_remaining'[d] = Beats(PixelLen, task_id'[d])
        BY <1>1, <2>1, <2>3, <3>2 DEF PixelsExact
      <4>2. write_bytes_remaining'[d] \in Nat
        BY <1>1, SlotRangeStep, DecoderFacts DEF SlotRange, Word
      <4>3. QED
        BY <4>1, <4>2
    <3>3. CASE ~(in.status /\ write_service_decoder = d) /\ d \notin in.dims
      BY <1>1, <2>1, <2>3, <3>3 DEF PixelsExact
    <3>4. QED
      BY <3>1, <3>2, <3>3
  <2>7. ~have_dimensions'[d] => task_dst_addr'[d] = 0 /\ write_bytes_remaining'[d] = 0
    BY <1>1, <2>1, <2>3 DEF PixelsExact
  <2>8. /\ Written(in, d) => output_fifo[d] # <<>>
        /\ Written(in, d) \in BOOLEAN /\ (d \in in.push) \in BOOLEAN
    BY InputFacts DEF Written
  <2>9. /\ core'[d].made = core[d].made + Flag(d \in in.push)
        /\ output_fifo'[d] =
             (IF Written(in, d) THEN Tail(output_fifo[d]) ELSE output_fifo[d]) \o
             (IF d \in in.push THEN <<At(task_id[d], core[d].made)>> ELSE <<>>)
    BY <2>1 DEF Cycle, Cores
  <2>10. core[d].made = WrittenSoFar(d) + Len(output_fifo[d])
    BY <1>1, <2>1 DEF PixelsExact
  <2>11. Consecutive(output_fifo'[d], task_id'[d], WrittenSoFar(d)')
    <3>1. Consecutive(output_fifo[d], task_id[d], WrittenSoFar(d))
      BY <1>1, <2>1 DEF PixelsExact
    <3>2. At(task_id[d], core[d].made) \in Address
      BY <2>4 DEF At, Address, Ids
    <3>3. Consecutive((IF Written(in, d) THEN Tail(output_fifo[d]) ELSE output_fifo[d]) \o
                      (IF d \in in.push THEN <<At(task_id[d], core[d].made)>> ELSE <<>>),
                      task_id[d], WrittenSoFar(d) + Flag(Written(in, d)))
      BY <2>4, <2>8, <2>10, <3>1, <3>2, StaysConsecutive
    <3>4. QED
      BY <2>1, <2>3, <2>9, <3>3
  <2>12. core'[d].made = WrittenSoFar(d)' + Len(output_fifo'[d])
    <3>1. Len(output_fifo'[d]) =
            Len(output_fifo[d]) + Flag(d \in in.push) - Flag(Written(in, d))
      BY <1>1, <2>1, OutputFifoStep
    <3>2. PICK n \in Nat, p \in Nat, w \in Nat :
            n = Len(output_fifo[d]) /\ p = Flag(d \in in.push) /\ w = Flag(Written(in, d))
      BY <2>4 DEF Flag
    <3>3. /\ Len(output_fifo'[d]) = n + p - w /\ core'[d].made = core[d].made + p
          /\ WrittenSoFar(d)' = WrittenSoFar(d) + w
      BY <2>3, <2>9, <3>1, <3>2
    <3>4. QED
      BY <2>4, <2>10, <3>2, <3>3
  <2>13. QED
    BY <2>5, <2>6, <2>7, <2>11, <2>12 DEF PixelsExact
<1>5. QED
  BY <1>1, <1>2, <1>3, <1>4, PixelRange DEF SlotStates

LEMMA WriteExactStep ==
  ASSUME TransfersExact, NEW in \in Inputs, Cycle(in), LengthsSurvive
  PROVE  WriteExact'
<1>1. /\ TopSound /\ WriteExact /\ TransfersServed /\ ServiceRange /\ SlotRange
      /\ ExternalRange /\ WriteArbiter
  BY DEF TransfersExact, TopSound, TopRange, Cycle
<1>2. CASE mmio_reset_pulse
  <2>1. ~write_service_active' /\ ~write_chunk_data_done'
    BY <1>2, Zenon DEF Cycle, Lifecycle, ResetSlots
  <2>2. write_chunk_bytes_sent' = 0
    BY <1>2 DEF Cycle, Lifecycle, ResetSlots
  <2>3. ~dma_write_desc'.valid
    BY <1>1, <1>2 DEF WriteArbiter, NoTransfer
  <2>4. QED
    BY <2>1, <2>2, <2>3 DEF WriteExact
<1>3. CASE ~mmio_reset_pulse
  <2>1. ASSUME ~write_service_active'
        PROVE  write_chunk_bytes_sent' = 0 /\ ~write_chunk_data_done'
    BY <1>1, <1>3, <2>1, WriteSteps
    DEF WriteEnds, WriteStarts, WriteMoves, WriteWaits, WriteExact
  <2>2. ASSUME dma_write_desc'.valid, ~write_service_active'
        PROVE  \E d \in Decoders :
                 /\ dma_write_desc'.decoder = d
                 /\ dma_write_desc'.addr = At(task_id'[d], task_dst_addr'[d])
                 /\ dma_write_desc'.len <= write_bytes_remaining'[d]
    <3>1. ~write_service_active /\ WriteEligible # {}
      BY <1>1, <1>3, <2>2 DEF WriteArbiter, ServiceRange, Transfer
    <3>2. PICK d : /\ d = Pick(write_rr_ptr, WriteEligible)
                   /\ dma_write_desc'.decoder = d
                   /\ dma_write_desc'.addr = At(task_id[d], task_dst_addr[d])
                   /\ dma_write_desc'.len =
                        Lower(write_bytes_remaining[d], output_fifo_occupied_len[d])
      BY <1>1, <1>3, <3>1 DEF WriteArbiter
    <3>3. d \in WriteEligible
      BY <1>1, <3>1, <3>2, PickEligible DEF WriteEligible, ServiceRange
    <3>4. /\ d \in Decoders /\ CanWrite(d) /\ write_bytes_remaining[d] \in Nat
          /\ output_fifo_occupied_len[d] \in Int
      <4>1. d \in Decoders /\ CanWrite(d)
        BY <3>3 DEF WriteEligible, CanWrite
      <4>2. output_fifo_occupied_len[d] \in 0..OutputFifoDepth
        BY <1>1, <4>1 DEF SlotRange
      <4>3. QED
        BY <1>1, <4>1, <4>2, TopAssumption, PixelRange
    <3>5. ~in.status
      BY <1>1, <3>1, InputFacts DEF TransfersServed
    <3>6. /\ write_bytes_remaining'[d] = write_bytes_remaining[d]
          /\ task_dst_addr'[d] = task_dst_addr[d]
      BY <1>1, <1>3, <3>4, <3>5, CanWriteStays
    <3>7. task_id'[d] = task_id[d]
      BY <1>1, <1>3, <3>4, SlotSteps DEF CanWrite
    <3>8. QED
      BY <3>2, <3>4, <3>6, <3>7 DEF Lower
  <2>3. ASSUME write_service_active'
        PROVE  \E d \in Decoders :
                 /\ write_service_decoder' = d
                 /\ write_engine'.addr = At(task_id'[d], WrittenSoFar(d)')
                 /\ write_engine'.left + write_chunk_bytes_sent' = dma_write_desc'.len
                 /\ write_chunk_data_done' <=> write_engine'.left = 0
                 /\ write_engine'.last <=> write_engine'.left = 0
                 /\ dma_write_desc'.len <= write_bytes_remaining'[d]
    <3>1. /\ ~in.status
          /\ \/ ~in.write_beat /\ WriteStarts
             \/ in.write_beat /\ WriteMoves
             \/ ~in.write_beat /\ WriteWaits /\ write_service_active
      BY <1>1, <1>3, <2>3, WriteSteps DEF WriteEnds, WriteWaits
    <3>2. PICK d \in Decoders : d = write_service_decoder' /\ CanWrite(d)
      BY <1>1, <3>1
      DEF WriteStarts, WriteMoves, WriteWaits, TransfersServed, ServiceRange, Transfer
    <3>3. /\ write_bytes_remaining'[d] = write_bytes_remaining[d]
          /\ task_dst_addr'[d] = task_dst_addr[d]
      BY <1>1, <1>3, <3>1, <3>2, CanWriteStays
    <3>4. task_id'[d] = task_id[d] /\ slot_state[d] = "SLOT_RUN"
      BY <1>1, <1>3, <3>2, SlotSteps DEF CanWrite
    <3>5. /\ task_dst_addr[d] \in Nat /\ write_bytes_remaining[d] \in Nat
          /\ dma_write_desc.len \in Nat /\ write_chunk_bytes_sent \in Nat
          /\ write_engine.left \in Nat /\ WrittenSoFar(d) \in Nat
          /\ (write_service_active <=> write_engine.busy)
      BY <1>1, PixelRange
    <3>6. WrittenSoFar(d)' = WrittenSoFar(d) + Flag(Written(in, d))
      BY <1>1, <1>3, <3>4, WrittenSteps
    <3>7. CASE ~in.write_beat /\ WriteStarts
      <4>1. ~write_service_active /\ dma_write_desc.valid /\ dma_write_desc.decoder = d
        BY <3>2, <3>5, <3>7 DEF WriteStarts
      <4>2. /\ dma_write_desc.addr = At(task_id[d], task_dst_addr[d])
            /\ dma_write_desc.len <= write_bytes_remaining[d] /\ dma_write_desc.len > 0
            /\ write_chunk_bytes_sent = 0 /\ ~write_chunk_data_done
        BY <1>1, <4>1 DEF WriteExact, TransfersServed
      <4>3. dma_write_desc'.len = dma_write_desc.len
        BY <3>7 DEF LengthsSurvive, WriteStarts
      <4>4. WrittenSoFar(d)' = task_dst_addr[d]
        BY <3>5, <3>6, <3>7, <4>1 DEF WrittenSoFar, Written, Flag
      <4>5. /\ write_engine'.addr = dma_write_desc.addr
            /\ write_engine'.left = dma_write_desc.len /\ ~write_engine'.last
            /\ write_chunk_bytes_sent' = write_chunk_bytes_sent
            /\ (write_chunk_data_done' <=> write_chunk_data_done)
        BY <3>7 DEF WriteStarts
      <4>6. QED
        BY <3>2, <3>3, <3>4, <3>5, <4>2, <4>3, <4>4, <4>5
    <3>8. CASE write_service_active /\ (WriteMoves \/ WriteWaits)
      <4>1. write_service_decoder = d
        BY <3>2, <3>8 DEF WriteMoves, WriteWaits
      <4>2. /\ write_engine.addr = At(task_id[d], WrittenSoFar(d))
            /\ write_engine.left + write_chunk_bytes_sent = dma_write_desc.len
            /\ write_chunk_data_done <=> write_engine.left = 0
            /\ write_engine.last <=> write_engine.left = 0
            /\ dma_write_desc.len <= write_bytes_remaining[d]
        BY <1>1, <3>8, <4>1 DEF WriteExact
      <4>3. dma_write_desc'.len = dma_write_desc.len
        BY <1>1, <1>3, <3>8 DEF WriteArbiter, ServiceRange, Transfer
      <4>4. CASE in.write_beat /\ WriteMoves
        <5>1. write_engine.left > 0 /\ Flag(write_engine.left > 0) = 1
          BY <1>1, <4>4, BeatsDue DEF Flag
        <5>2. /\ write_engine'.addr = Onward(write_engine.addr, 1)
              /\ write_engine'.left = write_engine.left - 1
              /\ (write_engine'.last <=> write_data_tlast)
              /\ write_chunk_bytes_sent' = write_chunk_bytes_sent + 1
              /\ (write_chunk_data_done' <=> write_data_tlast \/ write_chunk_data_done)
          BY <4>4, <5>1 DEF WriteMoves
        <5>3. write_data_tlast <=> write_engine'.left = 0
          BY <3>5, <4>2, <5>2 DEF write_data_tlast
        <5>4. ~write_chunk_data_done
          BY <4>2, <5>1
        <5>5. WrittenSoFar(d)' = WrittenSoFar(d) + 1
          BY <3>6, <4>1, <4>4 DEF Written, Flag
        <5>6. write_engine'.addr = At(task_id[d], WrittenSoFar(d) + 1)
          BY <4>2, <5>2 DEF Onward, At
        <5>7. write_engine'.left + write_chunk_bytes_sent' = dma_write_desc.len
          BY <3>5, <4>2, <5>2
        <5>8. QED
          BY <3>2, <3>3, <3>4, <4>2, <4>3, <5>2, <5>3, <5>4, <5>5, <5>6, <5>7
      <4>5. CASE ~in.write_beat /\ WriteWaits
        <5>1. WrittenSoFar(d)' = WrittenSoFar(d)
          BY <3>5, <3>6, <4>5 DEF Written, Flag
        <5>2. QED
          BY <3>2, <3>3, <3>4, <4>2, <4>3, <4>5, <5>1 DEF WriteWaits
      <4>6. QED
        BY <3>1, <3>5, <3>8, <4>4, <4>5 DEF WriteStarts
    <3>9. QED
      BY <3>1, <3>5, <3>7, <3>8 DEF WriteMoves
  <2>4. QED
    BY <2>1, <2>2, <2>3 DEF WriteExact
<1>4. QED
  BY <1>2, <1>3

-----------------------------------------------------------------------------
(* The destination buffers *)

(* The beat the write engine puts into memory is the next one of an image   *)
(* that is nowhere but in its slot.                                         *)
LEMMA NextPixel ==
  ASSUME TransfersExact, NEW in \in Inputs, Cycle(in)
  PROVE  \/ ~(in.write_beat /\ ~mmio_reset_pulse) /\ frame' = frame
         \/ /\ in.write_beat /\ ~mmio_reset_pulse
            /\ LET d == write_service_decoder
               IN  /\ d \in Decoders /\ CanWrite(d) /\ Decodes(d) /\ task_id[d] \in Images
                   /\ frame' = frame \union {Pixel(task_id[d], WrittenSoFar(d))}
<1>1. /\ TopSound /\ WriteExact /\ WriteEngine(in)
      /\ \A d \in Decoders : PixelsExact(d)
  BY DEF TransfersExact, Cycle
<1>2. CASE ~(in.write_beat /\ ~mmio_reset_pulse)
  BY <1>1, <1>2 DEF WriteEngine
<1>3. CASE in.write_beat /\ ~mmio_reset_pulse
  <2>1. PICK d \in Decoders : d = write_service_decoder
    BY <1>1 DEF TopSound, TopRange, ServiceRange
  <2>2. write_service_active /\ write_engine.left > 0 /\ output_fifo[d] # <<>>
    BY <1>1, <1>3, <2>1, BeatsDue
  <2>3. CanWrite(d) /\ Decodes(d)
    BY <1>1, <2>1, <2>2 DEF TopSound, TransfersServed, CanWrite, Decodes
  <2>4. task_id[d] \in Images
    <3>1. task_dst_addr[d] + write_bytes_remaining[d] = Beats(PixelLen, task_id[d])
      BY <1>1, <2>3 DEF PixelsExact, CanWrite
    <3>2. Beats(PixelLen, task_id[d]) # 0
      BY <1>1, <2>3, <3>1, PixelRange DEF CanWrite
    <3>3. task_id[d] \in Ids
      BY <1>1, PixelRange
    <3>4. QED
      BY <3>2, <3>3 DEF Beats, Ids
  <2>5. write_engine.addr = At(task_id[d], WrittenSoFar(d))
    BY <1>1, <2>1, <2>2 DEF WriteExact
  <2>6. Head(output_fifo[d]) = At(task_id[d], WrittenSoFar(d))
    <3>1. output_fifo[d] \in Seq(Address) /\ WrittenSoFar(d) \in Nat
      BY <1>1, PixelRange
    <3>2. 1 \in 1..Len(output_fifo[d]) /\ Head(output_fifo[d]) = output_fifo[d][1]
      BY <2>2, <3>1
    <3>3. Consecutive(output_fifo[d], task_id[d], WrittenSoFar(d))
      BY <1>1, <2>3 DEF PixelsExact, CanWrite
    <3>4. output_fifo[d][1] = At(task_id[d], WrittenSoFar(d) + 1 - 1)
      BY <3>2, <3>3 DEF Consecutive
    <3>5. WrittenSoFar(d) + 1 - 1 = WrittenSoFar(d)
      BY <3>1
    <3>6. QED
      BY <3>2, <3>4, <3>5
  <2>7. frame' = frame \union {[at |-> write_engine.addr, pixels |-> Head(output_fifo[d])]}
    BY <1>1, <1>3, <2>1, <2>2 DEF WriteEngine
  <2>8. frame' = frame \union {Pixel(task_id[d], WrittenSoFar(d))}
    BY <2>5, <2>6, <2>7 DEF Pixel
  <2>9. QED
    BY <1>3, <2>1, <2>3, <2>4, <2>8
<1>4. QED
  BY <1>2, <1>3

(* An image occurs in a queue when its occurrences are not none. *)
LEMMA Occurs ==
  ASSUME NEW q \in Seq(Ids), NEW i
  PROVE  (\E k \in 1..Len(q) : q[k] = i) <=> Occurrences(q, i) > 0
<1>1. Occurrences(q, i) = Count(q, {i}) /\ Occurrences(q, i) \in Nat
  BY OccurrencesCounted
<1>2. Count(q, {i}) = 0 <=> \A k \in 1..Len(q) : q[k] \notin {i}
  BY CountNone
<1>3. QED
  BY <1>1, <1>2

(* An image whose completion is being read is the head of its FIFO. *)
LEMMA AnswerCompleted ==
  ASSUME TopSound, NEW i \in Images
  PROVE  /\ held_read.cpl = i => Completed(i)
         /\ Completed(i) => \/ Occurrences(Unread, i) > 0 \/ held_read.cpl = i
                            \/ Occurrences(host.returned, i) > 0
<1>1. /\ OneAccess /\ cpl_fifo \in Seq(Ids) /\ i # NoImage
  BY PlaceTypes DEF TopSound, TopRange, QueueRange, NoImage
<1>2. Unread \in Seq(Ids) /\ host.returned \in Seq(Ids)
  BY PlaceTypes
<1>3. ASSUME held_read.cpl = i
      PROVE  Completed(i)
  <2>1. cpl_fifo # <<>> /\ Head(cpl_fifo) = i
    BY <1>1, <1>3 DEF OneAccess
  <2>2. 1 \in 1..Len(cpl_fifo) /\ cpl_fifo[1] = i
    BY <1>1, <2>1
  <2>3. QED
    BY <2>2 DEF Completed
<1>4. ASSUME Completed(i)
      PROVE  \/ Occurrences(Unread, i) > 0 \/ held_read.cpl = i
             \/ Occurrences(host.returned, i) > 0
  <2>1. CASE \E k \in 1..Len(host.returned) : host.returned[k] = i
    BY <1>2, <2>1, Occurs
  <2>2. CASE \E k \in 1..Len(cpl_fifo) : cpl_fifo[k] = i
    <3>1. PICK k \in 1..Len(cpl_fifo) : cpl_fifo[k] = i
      BY <2>2
    <3>2. CASE cpl_fifo_pop
      <4>1. cpl_fifo # <<>> /\ held_read.cpl = Head(cpl_fifo) /\ Unread = Tail(cpl_fifo)
        BY <1>1, <3>2 DEF OneAccess, Unread
      <4>2. CASE k = 1
        BY <1>1, <3>1, <4>1, <4>2
      <4>3. CASE k # 1
        <5>1. k - 1 \in 1..Len(Unread) /\ Unread[k - 1] = cpl_fifo[k]
          BY <1>1, <3>1, <4>1, <4>3
        <5>2. QED
          BY <1>2, <3>1, <5>1, Occurs
      <4>4. QED
        BY <4>2, <4>3
    <3>3. CASE ~cpl_fifo_pop
      BY <1>2, <3>1, <3>3, Occurs DEF Unread
    <3>4. QED
      BY <3>2, <3>3
  <2>3. QED
    BY <1>4, <2>1, <2>2 DEF Completed
<1>5. QED
  BY <1>3, <1>4

(* No image is in two places. *)
LEMMA OnePlace ==
  ASSUME TopSound, NEW i \in Images
  PROVE  /\ Waiting(i) => Carried(i) = {} /\ ~Completed(i)
         /\ Carried(i) # {} => ~Completed(i)
         /\ \A d, e \in Carried(i) : d = e
<1> DEFINE slots == Cardinality(Carried(i))
           fifo == Occurrences(desc_fifo, i)
           unread == Occurrences(Unread, i)
           returned == Occurrences(host.returned, i)
           pushed == Flag(Pushed(i))
           answered == Flag(held_read.cpl = i)
           lost == Flag(i \in host.lost)
           known == Flag(i < host.next)
<1>1. /\ fifo \in Nat /\ slots \in Nat /\ unread \in Nat /\ returned \in Nat
      /\ pushed \in {0, 1} /\ answered \in {0, 1} /\ lost \in {0, 1} /\ known \in {0, 1}
      /\ Places(i) = pushed + fifo + slots + unread + answered + returned + lost
      /\ Places(i) <= known
  BY PlaceTypes DEF Flag, TopSound, NoneTwice
<1>2. Carried(i) # {} <=> slots > 0
  BY PlaceTypes, FS_EmptySet
<1>3. Completed(i) => unread + answered + returned > 0
  <2>1. Completed(i) => unread > 0 \/ answered = 1 \/ returned > 0
    BY AnswerCompleted DEF Flag
  <2> HIDE DEF unread, answered, returned
  <2>2. QED
    BY <1>1, <2>1
<1>4. Waiting(i) => known = 0 \/ pushed + fifo > 0
  <2>1. (\E k \in 1..Len(desc_fifo) : desc_fifo[k] = i) <=> fifo > 0
    BY PlaceTypes, Occurs
  <2>2. i >= host.next => known = 0
    BY PlaceTypes DEF Flag, TopSound, TopRange, ExternalRange
  <2>3. Pushed(i) => pushed = 1
    BY DEF Flag
  <2> HIDE DEF fifo, pushed, known
  <2>4. QED
    BY <1>1, <2>1, <2>2, <2>3 DEF Waiting
<1>5. \A d, e \in Carried(i) : d = e
  <2>1. slots <= 1
    <3> HIDE DEF slots, fifo, unread, returned, pushed, answered, lost, known
    <3> QED
      BY <1>1
  <2>2. ASSUME NEW d \in Carried(i), NEW e \in Carried(i), d # e
        PROVE  FALSE
    <3>1. IsFiniteSet(Carried(i)) /\ {d, e} \in SUBSET Carried(i)
      BY <2>2, PlaceTypes
    <3>2. Cardinality({d, e}) = 2
      <4>1. IsFiniteSet({d}) /\ Cardinality({d}) = 1
        BY FS_Singleton
      <4>2. e \notin {d}
        BY <2>2
      <4>3. Cardinality({d} \cup {e}) = Cardinality({d}) + 1
        BY ONLY <4>1, <4>2, FS_AddElement
      <4>4. {d, e} = {d} \cup {e}
        OBVIOUS
      <4>5. Cardinality({d, e}) = Cardinality({d}) + 1
        BY ONLY <4>3, <4>4
      <4> HIDE DEF slots, fifo, unread, returned, pushed, answered, lost, known
      <4>6. QED
        BY <4>1, <4>5
    <3>3. Cardinality({d, e}) <= slots
      BY <3>1, FS_Subset
    <3> HIDE DEF slots
    <3>4. QED
      BY <1>1, <2>1, <3>2, <3>3
  <2>3. QED
    BY <2>2
<1> HIDE DEF slots, fifo, unread, returned, pushed, answered, lost, known
<1>6. QED
  BY <1>1, <1>2, <1>3, <1>4, <1>5

(* What is still waiting has been waiting, and a slot that gets an image    *)
(* gets one that was.                                                       *)
LEMMA WaitingStep ==
  ASSUME TopSound, NEW in \in Inputs, Cycle(in), NEW i \in Images
  PROVE  /\ Waiting(i)' => Waiting(i)
         /\ Front = i => Waiting(i)
<1>1. /\ OneAccess /\ host.next \in Nat /\ host'.next \in Nat /\ i \in Nat \ {0}
      /\ desc_fifo \in Seq(Ids) /\ desc_fifo' \in Seq(Ids)
  BY PlaceTypes, TopRangeStep DEF TopSound, TopRange, QueueRange, ExternalRange
<1>2. Flag(i < host'.next) = Flag(i < host.next) + Flag(Pushed(i)')
  BY CommitPlaces
<1>3. Front = i => Waiting(i)
  <2>1. ASSUME Front = i
        PROVE  Waiting(i)
    <3>1. 1 \in 1..Len(desc_fifo) /\ desc_fifo[1] = i
      BY <1>1, <2>1 DEF Front, NoImage
    <3>2. QED
      BY <3>1 DEF Waiting
  <2>2. QED
    BY <2>1
<1>4. CASE i >= host'.next \/ Pushed(i)'
  BY <1>1, <1>2, <1>4 DEF Flag, Waiting
<1>5. CASE ~mmio_reset_pulse /\ \E k \in 1..Len(desc_fifo') : desc_fifo'[k] = i
  <2>1. Occurrences(desc_fifo', i) > 0
    BY <1>1, <1>5, Occurs
  <2>2. Occurrences(desc_fifo', i) =
          Occurrences(desc_fifo, i) + Flag(Pushed(i)) - Flag(Assigned(i))
    BY <1>5, FifoPlaces
  <2>3. PICK n \in Nat, a \in Nat : n = Occurrences(desc_fifo, i) /\ a = Flag(Assigned(i))
    BY PlaceTypes DEF Flag
  <2>4. n > 0 \/ Pushed(i)
    BY <2>1, <2>2, <2>3 DEF Flag
  <2>5. QED
    BY <1>1, <1>3, <2>3, <2>4, Occurs DEF Waiting
<1>6. CASE mmio_reset_pulse /\ \E k \in 1..Len(desc_fifo') : desc_fifo'[k] = i
  <2>1. desc_fifo' = <<>>
    BY <1>6 DEF Cycle, MmioFifos
  <2>2. QED
    BY <1>6, <2>1
<1>7. QED
  BY <1>3, <1>4, <1>5, <1>6 DEF Waiting

(* A completion is read from the FIFO or written when the last pixel was.   *)
LEMMA CompletedStep ==
  ASSUME TopSound, NEW in \in Inputs, Cycle(in), NEW i \in Images, Completed(i)'
  PROVE  Completed(i) \/ (Ended(in, i) /\ ~mmio_reset_pulse)
<1>1. /\ cpl_fifo \in Seq(Ids) /\ cpl_fifo' \in Seq(Ids)
      /\ host.returned \in Seq(Ids) /\ host'.returned \in Seq(Ids)
  <2>1. TopRange /\ TopRange'
    BY TopRangeStep DEF TopSound
  <2>2. QED
    BY <2>1 DEF TopRange, QueueRange, ExternalRange, Ids
<1>2. CASE \E k \in 1..Len(host'.returned) : host'.returned[k] = i
  <2>1. Occurrences(host'.returned, i) > 0
    BY <1>1, <1>2, Occurs
  <2>2. Occurrences(host.returned, i) > 0 \/ held_read.cpl = i
    BY <2>1, HostPlaces, PlaceTypes DEF Flag
  <2>3. QED
    BY <1>1, <2>2, Occurs, AnswerCompleted DEF Completed
<1>3. CASE \E k \in 1..Len(cpl_fifo') : cpl_fifo'[k] = i
  <2>1. PICK k \in 1..Len(cpl_fifo') : cpl_fifo'[k] = i
    BY <1>3
  <2>2. ~mmio_reset_pulse
    BY <2>1 DEF Cycle, MmioFifos
  <2>3. cpl_fifo' = Queue(cpl_fifo, write_status_is_final(in.status),
                          task_id[write_service_decoder], cpl_fifo_pop)
    BY <2>2 DEF Cycle, MmioFifos
  <2> DEFINE rest == IF cpl_fifo_pop /\ cpl_fifo # <<>> THEN Tail(cpl_fifo) ELSE cpl_fifo
  <2>4. /\ rest \in Seq(Ids)
        /\ \/ cpl_fifo' = rest
           \/ /\ write_status_is_final(in.status)
              /\ cpl_fifo' = Append(rest, task_id[write_service_decoder])
    <3>1. rest \in Seq(Ids)
      BY <1>1
    <3>2. QED
      BY <2>3, <3>1 DEF Queue
  <2>5. \A j \in 1..Len(rest) : \E l \in 1..Len(cpl_fifo) : cpl_fifo[l] = rest[j]
    <3>1. TAKE j \in 1..Len(rest)
    <3>2. CASE cpl_fifo_pop /\ cpl_fifo # <<>>
      <4>1. rest = Tail(cpl_fifo)
        BY <2>4, <3>2
      <4>2. j + 1 \in 1..Len(cpl_fifo) /\ cpl_fifo[j + 1] = rest[j]
        BY <1>1, <3>2, <4>1
      <4>3. QED
        BY <4>2
    <3>3. CASE ~(cpl_fifo_pop /\ cpl_fifo # <<>>)
      BY <2>4, <3>3
    <3>4. QED
      BY <3>2, <3>3
  <2> HIDE DEF rest
  <2>6. CASE k \in 1..Len(rest) /\ cpl_fifo'[k] = rest[k]
    BY <2>1, <2>5, <2>6 DEF Completed
  <2>7. CASE ~(k \in 1..Len(rest) /\ cpl_fifo'[k] = rest[k])
    <3>1. /\ write_status_is_final(in.status)
          /\ cpl_fifo' = Append(rest, task_id[write_service_decoder])
      BY <2>1, <2>4, <2>7
    <3>2. cpl_fifo'[k] = task_id[write_service_decoder]
      BY <2>1, <2>4, <2>7, <3>1
    <3>3. QED
      BY <2>1, <2>2, <3>1, <3>2 DEF Ended
  <2>8. QED
    BY <2>6, <2>7
<1>4. QED
  BY <1>2, <1>3 DEF Completed

(* No slot completes the image of a descriptor that a reset has zeroed.     *)
LEMMA RealCompletions ==
  ASSUME TransfersExact, NEW in \in Inputs, Cycle(in)
  PROVE  cpl_fifo' \in Seq(Images)
<1>1. TopSound /\ cpl_fifo \in Seq(Images) /\ \A d \in Decoders : PixelsExact(d)
  BY DEF TransfersExact
<1>2. ASSUME in.status
      PROVE  task_id[write_service_decoder] \in Images
  <2>1. PICK w \in Decoders : w = write_service_decoder
    BY <1>1 DEF TopSound, TopRange, ServiceRange
  <2>2. CanWrite(w)
    BY <1>1, <1>2, <2>1, InputFacts DEF TopSound, TransfersServed
  <2>3. /\ task_dst_addr[w] \in Nat /\ write_bytes_remaining[w] \in Nat
        /\ task_id[w] \in Ids
    BY <1>1, PixelRange
  <2>4. Beats(PixelLen, task_id[w]) # 0
    BY <1>1, <2>2, <2>3 DEF PixelsExact, CanWrite
  <2>5. QED
    BY <2>1, <2>3, <2>4 DEF Beats, Ids
<1>3. CASE mmio_reset_pulse
  BY <1>3 DEF Cycle, MmioFifos
<1>4. CASE ~mmio_reset_pulse
  <2>1. cpl_fifo' = Queue(cpl_fifo, write_status_is_final(in.status),
                          task_id[write_service_decoder], cpl_fifo_pop)
    BY <1>4 DEF Cycle, MmioFifos
  <2>2. QED
    BY <1>1, <1>2, <2>1 DEF Queue, write_status_is_final
<1>5. QED
  BY <1>3, <1>4

(* A buffer that holds n pixels holds one more when the next is written. *)
LEMMA FramedGrows ==
  ASSUME NEW i, NEW n \in Nat, Framed(i, n), frame' = frame \union {Pixel(i, n)}
  PROVE  Framed(i, n + 1)'
<1>1. {f \in frame' : f.at.image = i} = {f \in frame : f.at.image = i} \union {Pixel(i, n)}
  BY DEF Pixel, At
<1>2. 0..((n + 1) - 1) = 0..(n - 1) \union {n}
  OBVIOUS
<1>3. {Pixel(i, k) : k \in 0..((n + 1) - 1)} = {Pixel(i, k) : k \in 0..(n - 1)} \union {Pixel(i, n)}
  BY <1>2
<1>4. QED
  BY <1>1, <1>3 DEF Framed

LEMMA FramedStays ==
  ASSUME NEW i, NEW n, Framed(i, n),
         \/ frame' = frame
         \/ \E j, k : j # i /\ frame' = frame \union {Pixel(j, k)}
  PROVE  Framed(i, n)'
<1>1. {f \in frame' : f.at.image = i} = {f \in frame : f.at.image = i}
  BY DEF Pixel, At
<1>2. QED
  BY <1>1 DEF Framed

LEMMA FrameExactStep ==
  ASSUME TransfersExact, NEW in \in Inputs, Cycle(in), NEW i \in Images
  PROVE  /\ Waiting(i)' => Framed(i, 0)'
         /\ \A d \in Carried(i)' : Framed(i, WrittenSoFar(d))'
         /\ Completed(i)' => Framed(i, PixelLen[i])'
<1>1. /\ TopSound /\ WriteExact /\ FrameExact
      /\ \A d \in Decoders : PixelsExact(d)
  BY DEF TransfersExact
<1>2. \A d \in Carried(i) : d \in Decoders /\ Decodes(d) /\ task_id[d] = i
  BY DEF Carried
<1>3. Carried(i) = {} => \A n : Framed(i, n) => Framed(i, n)'
  <2>1. ASSUME Carried(i) = {}
        PROVE  \/ frame' = frame
               \/ \E j, k : j # i /\ frame' = frame \union {Pixel(j, k)}
    BY <1>1, <2>1, NextPixel DEF Carried
  <2>2. QED
    BY <2>1, FramedStays
<1>4. Waiting(i) => Framed(i, 0)'
  BY <1>1, <1>3, OnePlace DEF FrameExact
<1>5. Waiting(i)' => Framed(i, 0)'
  BY <1>1, <1>4, WaitingStep
<1>6. ASSUME NEW d \in Decoders, d \in Carried(i)'
      PROVE  Framed(i, WrittenSoFar(d))'
  <2>1. ~mmio_reset_pulse
    BY <1>6 DEF Cycle, Lifecycle, ResetSlots, AllSlots, Carried, Decodes
  <2>2. CASE desc_assign = d /\ Front = i
    <3>1. slot_state[d] = "SLOT_IDLE"
      BY <1>1, <2>1, <2>2, SlotSteps
    <3>2. ~(write_service_active' /\ write_service_decoder' = d)
      BY <1>1, <2>1, <3>1, AssignedNotServed
    <3>3. task_dst_addr'[d] = 0
      <4>1. Accounting(in)
        BY <2>1 DEF Cycle, Lifecycle
      <4>2. ~(in.status /\ write_service_decoder = d)
        BY <1>1, <3>1, BeatsDue DEF TopSound, TransfersServed, CanWrite
      <4>3. QED
        BY <2>2, <4>1, <4>2 DEF Accounting
    <3>4. WrittenSoFar(d)' = 0
      BY <3>2, <3>3 DEF WrittenSoFar
    <3>5. Framed(i, 0)'
      BY <1>1, <1>4, <2>2, WaitingStep
    <3>6. QED
      BY <3>4, <3>5
  <2>3. CASE d \in Carried(i)
    <3>1. Decodes(d) /\ task_id[d] = i /\ slot_state[d] = "SLOT_RUN"
      BY <1>2, <2>3 DEF Decodes
    <3>2. WrittenSoFar(d)' = WrittenSoFar(d) + Flag(Written(in, d)) /\ WrittenSoFar(d) \in Nat
      BY <1>1, <2>1, <3>1, WrittenSteps, PixelRange
    <3>3. Framed(i, WrittenSoFar(d))
      BY <1>1, <2>3 DEF FrameExact
    <3>4. CASE Written(in, d)
      <4>1. frame' = frame \union {Pixel(i, WrittenSoFar(d))}
        BY <1>1, <2>1, <3>1, <3>4, NextPixel DEF Written
      <4>2. WrittenSoFar(d)' = WrittenSoFar(d) + 1
        BY <3>2, <3>4 DEF Flag
      <4>3. PICK n \in Nat : n = WrittenSoFar(d)
        BY <3>2
      <4>4. Framed(i, n + 1)'
        BY <3>3, <4>1, <4>3, FramedGrows
      <4>5. QED
        BY <4>2, <4>3, <4>4 DEF Framed
    <3>5. CASE ~Written(in, d)
      <4>1. WrittenSoFar(d)' = WrittenSoFar(d)
        BY <3>2, <3>5 DEF Flag
      <4>2. \/ frame' = frame
            \/ \E j, k : j # i /\ frame' = frame \union {Pixel(j, k)}
        <5>1. CASE in.write_beat
          <6>1. PICK e : e = write_service_decoder
            OBVIOUS
          <6>2. /\ e \in Decoders /\ Decodes(e) /\ e # d
                /\ frame' = frame \union {Pixel(task_id[e], WrittenSoFar(e))}
            BY <1>1, <2>1, <3>5, <5>1, <6>1, NextPixel DEF Written
          <6>3. task_id[e] # i
            BY <1>1, <2>3, <6>2, OnePlace DEF Carried
          <6>4. QED
            BY <6>2, <6>3
        <5>2. CASE ~in.write_beat
          BY <1>1, <5>2, NextPixel
        <5>3. QED
          BY <5>1, <5>2
      <4>3. PICK n : n = WrittenSoFar(d)
        OBVIOUS
      <4>4. Framed(i, n)'
        BY <3>3, <4>2, <4>3, FramedStays
      <4>5. QED
        BY <4>1, <4>3, <4>4 DEF Framed
    <3>6. QED
      BY <3>4, <3>5
  <2>4. QED
    BY <1>1, <1>6, <2>1, <2>2, <2>3, CarriedStep
<1>7. ASSUME Completed(i)'
      PROVE  Framed(i, PixelLen[i])'
  <2>1. CASE Completed(i)
    <3>1. Carried(i) = {}
      BY <1>1, <2>1, OnePlace
    <3>2. QED
      BY <1>1, <1>3, <2>1, <3>1 DEF FrameExact
  <2>2. CASE Ended(in, i) /\ ~mmio_reset_pulse
    <3>1. PICK w : w = write_service_decoder
      OBVIOUS
    <3>2. /\ w \in Carried(i) /\ CanWrite(w) /\ in.status
          /\ write_bytes_remaining[w] = dma_write_desc.len
      BY <1>1, <2>2, <3>1, EndedCarried
    <3>3. w \in Decoders /\ task_id[w] = i /\ have_dimensions[w]
      BY <1>2, <3>2 DEF CanWrite
    <3>4. write_service_active /\ write_chunk_bytes_sent = dma_write_desc.len /\ ~in.write_beat
      BY <1>1, <3>2, BeatsDue
    <3>5. task_dst_addr[w] + write_bytes_remaining[w] = PixelLen[i]
      <4>1. i # NoImage
        BY <1>1, PlaceTypes DEF NoImage
      <4>2. QED
        BY <1>1, <3>3, <4>1 DEF PixelsExact, Beats
    <3>6. WrittenSoFar(w) = PixelLen[i]
      BY <3>1, <3>2, <3>4, <3>5 DEF WrittenSoFar
    <3>7. Framed(i, PixelLen[i])
      BY <1>1, <3>2, <3>6 DEF FrameExact
    <3>8. frame' = frame
      BY <3>4, NextPixel
    <3>9. QED
      BY <3>7, <3>8 DEF Framed
  <2>3. QED
    BY <1>1, <1>7, <2>1, <2>2, CompletedStep
<1>8. \A d \in Carried(i)' : d \in Decoders
  BY DEF Carried
<1>9. QED
  BY <1>5, <1>6, <1>7, <1>8

-----------------------------------------------------------------------------
LEMMA InitTransfers ==
  ASSUME TopInit
  PROVE  TransfersExact
<1>1. TopSound
  BY InitSound
<1>2. ReadExact /\ WriteExact
  BY DEF TopInit, ReadExact, WriteExact, NoTransfer
<1>3. FrameExact
  <2>1. ASSUME NEW i \in Images
        PROVE  /\ Framed(i, 0) /\ Carried(i) = {} /\ ~Completed(i)
    <3>1. 0..(0 - 1) = {}
      OBVIOUS
    <3>2. Framed(i, 0)
      BY <3>1 DEF TopInit, Framed
    <3>3. Carried(i) = {}
      BY DEF TopInit, Carried, Decodes, AllSlots
    <3>4. ~Completed(i)
      BY DEF TopInit, Completed
    <3>5. QED
      BY <3>2, <3>3, <3>4
  <2>2. QED
    BY <2>1 DEF FrameExact
<1>4. /\ cpl_fifo \in Seq(Images)
      /\ \A d \in Decoders : SourceExact(d) /\ PixelsExact(d)
  BY DEF TopInit, SourceExact, PixelsExact, AllSlots, Beats, FreshCore, Consecutive
<1>5. QED
  BY <1>1, <1>2, <1>3, <1>4 DEF TransfersExact

LEMMA TransfersStep ==
  ASSUME TransfersExact, [TopNext]_topVars, [LengthsSurvive]_topVars
  PROVE  TransfersExact'
<1>1. TopSound'
  BY SoundStep DEF TransfersExact
<1>2. CASE UNCHANGED topVars
  <2> USE <1>2 DEF topVars, mmioVars, fifoVars, slotVars, serviceVars, externalVars
  <2>1. ReadExact' /\ WriteExact'
    BY DEF TransfersExact, ReadExact, WriteExact, SourceAddress, WrittenSoFar
  <2>2. FrameExact'
    BY DEF TransfersExact, FrameExact, Waiting, Completed, Framed, Carried, Decodes, Pushed,
           WrittenSoFar
  <2>3. /\ cpl_fifo' \in Seq(Images)
        /\ \A d \in Decoders : SourceExact(d)' /\ PixelsExact(d)'
    BY DEF TransfersExact, SourceExact, PixelsExact, ReadSoFar, WrittenSoFar, Consecutive
  <2>4. QED
    BY <1>1, <2>1, <2>2, <2>3 DEF TransfersExact
<1>3. CASE TopNext /\ LengthsSurvive
  <2>1. PICK in \in Inputs : Cycle(in)
    BY <1>3 DEF TopNext
  <2>2. ReadExact' /\ WriteExact'
    BY <1>3, <2>1, ReadExactStep, WriteExactStep
  <2>3. \A d \in Decoders : SourceExact(d)' /\ PixelsExact(d)'
    BY <2>1, SourceExactStep, PixelsExactStep
  <2>4. FrameExact' /\ cpl_fifo' \in Seq(Images)
    BY <2>1, FrameExactStep, RealCompletions DEF FrameExact
  <2>5. QED
    BY <1>1, <2>2, <2>3, <2>4 DEF TransfersExact
<1>4. QED
  BY <1>2, <1>3

(* What the invariant says of the properties that the runs check. *)
LEMMA ExactMeans ==
  ASSUME TransfersExact
  PROVE  TopTypeOK /\ TransfersAccounted /\ SourceInOrder /\ ImageComplete
<1>1. /\ TopSound /\ TopRange /\ ReadExact /\ WriteExact /\ FrameExact /\ TransfersServed
      /\ \A d \in Decoders : SourceExact(d) /\ PixelsExact(d)
  BY DEF TransfersExact, TopSound
<1>2. TopTypeOK
  <2>1. ASSUME NEW d \in Decoders
        PROVE  /\ task_src_len[d] <= Beats(SourceLen, task_id[d])
               /\ write_bytes_remaining[d] <= Beats(PixelLen, task_id[d])
    <3>1. task_src_addr[d] + task_src_len[d] = Beats(SourceLen, task_id[d])
      BY <1>1 DEF SourceExact
    <3>2. have_dimensions[d] =>
            task_dst_addr[d] + write_bytes_remaining[d] = Beats(PixelLen, task_id[d])
      BY <1>1 DEF PixelsExact
    <3>3. Beats(PixelLen, task_id[d]) >= 0
      <4>1. task_id[d] \in Ids
        BY <1>1, PixelRange
      <4>2. \A i \in Images : PixelLen[i] \in Nat
        BY TopAssumption
      <4>3. QED
        BY <4>1, <4>2 DEF Beats, Ids
    <3>4. /\ task_src_addr[d] \in Nat /\ task_src_len[d] \in Nat
          /\ task_dst_addr[d] \in Nat /\ write_bytes_remaining[d] \in Nat
      BY <1>1, SourceRange, PixelRange
    <3>5. ~have_dimensions[d] => write_bytes_remaining[d] = 0
      BY <1>1 DEF PixelsExact
    <3>6. QED
      BY <3>1, <3>2, <3>3, <3>4, <3>5
  <2>2. QED
    BY <1>1, <2>1 DEF TopTypeOK, TopRange, QueueRange, ServiceRange, SlotRange, Ids
<1>3. TransfersAccounted
  <2>1. read_engine.busy => /\ read_service_active
                            /\ read_engine.addr.image = task_id[read_service_decoder]
                            /\ read_engine.addr.pos + read_engine.left =
                                 task_src_addr[read_service_decoder] + dma_read_desc.len
    BY <1>1 DEF ReadExact, TransfersServed
  <2>2. ASSUME write_engine.busy
        PROVE  /\ write_service_active
               /\ write_engine.addr.image = task_id[write_service_decoder]
               /\ write_engine.addr.pos + write_engine.left =
                    task_dst_addr[write_service_decoder] + dma_write_desc.len
    <3>1. PICK d \in Decoders : d = write_service_decoder
      BY <1>1 DEF TopRange, ServiceRange
    <3>2. write_service_active
      BY <1>1, <2>2 DEF TransfersServed
    <3>3. /\ write_engine.addr = At(task_id[d], WrittenSoFar(d))
          /\ write_engine.left + write_chunk_bytes_sent = dma_write_desc.len
      BY <1>1, <3>1, <3>2 DEF WriteExact
    <3>4. WrittenSoFar(d) = task_dst_addr[d] + write_chunk_bytes_sent
      BY <3>1, <3>2 DEF WrittenSoFar
    <3>5. /\ task_dst_addr[d] \in Nat /\ write_chunk_bytes_sent \in Nat
          /\ write_engine.left \in Nat
      BY <1>1, PixelRange
    <3>6. /\ write_engine.addr.image = task_id[d]
          /\ write_engine.addr.pos = task_dst_addr[d] + write_chunk_bytes_sent
      BY <3>3, <3>4 DEF At
    <3>7. QED
      BY <3>1, <3>2, <3>3, <3>5, <3>6
  <2>3. QED
    BY <2>1, <2>2 DEF TransfersAccounted
<1>4. SourceInOrder
  BY <1>1 DEF SourceInOrder, SourceExact
<1>5. ImageComplete
  <2>1. cpl_fifo \in Seq(Images) /\ host.returned \in Seq(Images)
    BY <1>1 DEF TransfersExact, TopRange, ExternalRange
  <2>2. ASSUME NEW i \in Announced
        PROVE  i \in Images /\ Completed(i)
    BY <2>1 DEF Announced, Range, Completed
  <2>3. QED
    BY <1>1, <2>2 DEF ImageComplete, FrameExact, Framed, Pixel
<1>6. QED
  BY <1>2, <1>3, <1>4, <1>5

-----------------------------------------------------------------------------
(* Where a FIFO has room for one beat, the arbiter can only offer one: what *)
(* it offers while the engine takes the last offer is as long.              *)
OneBeatFifos == InputFifoDepth = 1 /\ OutputFifoDepth = 1

LengthsFit ==
  /\ dma_read_desc.valid => dma_read_desc.len <= InputFifoDepth
  /\ dma_write_desc.valid => dma_write_desc.len <= OutputFifoDepth

(* What the arbiters offer is at least a beat and fits into the FIFO. *)
LEMMA Offers ==
  ASSUME TopSound, NEW in \in Inputs, Cycle(in), ~mmio_reset_pulse
  PROVE  /\ \/ dma_read_desc'.len = dma_read_desc.len /\ ~dma_read_desc'.valid
            \/ dma_read_desc'.len \in 1..InputFifoDepth
         /\ \/ dma_write_desc'.len = dma_write_desc.len /\ ~dma_write_desc'.valid
            \/ dma_write_desc'.len \in 1..OutputFifoDepth
<1>1. /\ ReadArbiter /\ WriteArbiter /\ ServiceRange /\ SlotRange
      /\ InputFifoDepth \in Nat /\ OutputFifoDepth \in Nat
  BY TopAssumption DEF TopSound, TopRange, Cycle
<1>2. \/ dma_read_desc'.len = dma_read_desc.len /\ ~dma_read_desc'.valid
      \/ dma_read_desc'.len \in 1..InputFifoDepth
  <2>1. CASE read_service_active \/ ReadEligible = {}
    BY <1>1, <2>1 DEF ReadArbiter, ServiceRange, Transfer
  <2>2. CASE ~(read_service_active \/ ReadEligible = {})
    <3>1. PICK d : /\ d = Pick(read_rr_ptr, ReadEligible)
                   /\ dma_read_desc'.len = Lower(task_src_len[d], InputFree(d))
      BY <1>1, <2>2 DEF ReadArbiter
    <3>2. d \in ReadEligible
      BY <1>1, <2>2, <3>1, PickEligible DEF ReadEligible, ServiceRange
    <3>3. d \in Decoders /\ task_src_len[d] > 0 /\ InputFree(d) > 0 /\ task_src_len[d] \in Nat
      BY <3>2, SourceRange DEF ReadEligible
    <3>4. input_fifo_occupied_len[d] \in 0..InputFifoDepth
      BY <1>1, <3>3 DEF SlotRange
    <3>5. InputFree(d) \in 1..InputFifoDepth
      BY <1>1, <3>3, <3>4 DEF InputFree
    <3>6. QED
      BY <1>1, <3>1, <3>3, <3>5 DEF Lower
  <2>3. QED
    BY <2>1, <2>2
<1>3. \/ dma_write_desc'.len = dma_write_desc.len /\ ~dma_write_desc'.valid
      \/ dma_write_desc'.len \in 1..OutputFifoDepth
  <2>1. CASE write_service_active \/ WriteEligible = {}
    BY <1>1, <2>1 DEF WriteArbiter, ServiceRange, Transfer
  <2>2. CASE ~(write_service_active \/ WriteEligible = {})
    <3>1. PICK d : /\ d = Pick(write_rr_ptr, WriteEligible)
                   /\ dma_write_desc'.len =
                        Lower(write_bytes_remaining[d], output_fifo_occupied_len[d])
      BY <1>1, <2>2 DEF WriteArbiter
    <3>2. d \in WriteEligible
      BY <1>1, <2>2, <3>1, PickEligible DEF WriteEligible, ServiceRange
    <3>3. /\ d \in Decoders /\ write_bytes_remaining[d] > 0 /\ output_fifo_occupied_len[d] > 0
          /\ write_bytes_remaining[d] \in Nat
      BY <3>2, PixelRange DEF WriteEligible
    <3>4. output_fifo_occupied_len[d] \in 0..OutputFifoDepth
      BY <1>1, <3>3 DEF SlotRange
    <3>5. QED
      BY <1>1, <3>1, <3>3, <3>4 DEF Lower
  <2>3. QED
    BY <2>1, <2>2
<1>4. QED
  BY <1>2, <1>3

LEMMA LengthsFitStep ==
  ASSUME TopSound, LengthsFit, [TopNext]_topVars
  PROVE  LengthsFit'
<1>1. CASE TopNext
  <2>1. PICK in \in Inputs : Cycle(in)
    BY <1>1 DEF TopNext
  <2>2. CASE mmio_reset_pulse
    BY <2>1, <2>2 DEF Cycle, ReadArbiter, WriteArbiter, NoTransfer, LengthsFit
  <2>3. CASE ~mmio_reset_pulse
    BY <2>1, <2>3, Offers, TopAssumption DEF LengthsFit
  <2>4. QED
    BY <2>2, <2>3
<1>2. CASE UNCHANGED topVars
  BY <1>2 DEF topVars, LengthsFit
<1>3. QED
  BY <1>1, <1>2

LEMMA OneBeatSurvives ==
  ASSUME OneBeatFifos, TopSound, LengthsFit, [TopNext]_topVars
  PROVE  [LengthsSurvive]_topVars
<1>1. CASE TopNext
  <2>1. PICK in \in Inputs : Cycle(in)
    BY <1>1 DEF TopNext
  <2>2. /\ ReadEngine(in) /\ WriteEngine(in) /\ TransfersServed
        /\ dma_read_desc.len \in Nat /\ dma_write_desc.len \in Nat
    BY <2>1, DecoderFacts, SourceRange, PixelRange DEF Cycle, TopSound
  <2>3. ASSUME ~read_engine.busy, read_engine'.busy
        PROVE  dma_read_desc'.len = dma_read_desc.len
    <3>1. ~mmio_reset_pulse /\ dma_read_desc.valid
      BY <2>1, <2>2, <2>3, InputFacts DEF ReadEngine, IdleEngine, read_desc_fire
    <3>2. dma_read_desc.len = 1
      BY <2>2, <3>1 DEF OneBeatFifos, LengthsFit, TransfersServed
    <3>3. QED
      BY <2>1, <3>1, <3>2, Offers DEF OneBeatFifos
  <2>4. ASSUME ~write_engine.busy, write_engine'.busy
        PROVE  dma_write_desc'.len = dma_write_desc.len
    <3>1. ~mmio_reset_pulse /\ dma_write_desc.valid
      BY <2>1, <2>2, <2>4, InputFacts DEF WriteEngine, IdleEngine, write_desc_fire
    <3>2. dma_write_desc.len = 1
      BY <2>2, <3>1 DEF OneBeatFifos, LengthsFit, TransfersServed
    <3>3. QED
      BY <2>1, <3>1, <3>2, Offers DEF OneBeatFifos
  <2>5. QED
    BY <2>3, <2>4 DEF LengthsSurvive
<1>2. QED
  BY <1>1

(* Where the FIFOs have room for one beat the lengths survive: what follows *)
(* from it is not said of no behaviour.                                     *)
THEOREM LengthsSurviveOneBeat ==
  OneBeatFifos => (TopSpec => [][LengthsSurvive]_topVars)
<1> SUFFICES ASSUME OneBeatFifos
             PROVE  TopSpec => [][LengthsSurvive]_topVars
  OBVIOUS
<1>1. TopInit => LengthsFit
  BY DEF TopInit, LengthsFit, NoTransfer
<1>2. TopSound /\ LengthsFit /\ [TopNext]_topVars => LengthsFit'
  BY LengthsFitStep
<1>3. TopSound /\ LengthsFit /\ [TopNext]_topVars => [LengthsSurvive]_topVars
  BY OneBeatSurvives
<1>4. QED
  BY <1>1, <1>2, <1>3, TopIsSound, PTL DEF TopSpec

(* The invariant, and with it everything below, where the lengths survive.  *)
THEOREM TransfersAreExact == TopSpec /\ [][LengthsSurvive]_topVars => []TransfersExact
<1>1. TopInit => TransfersExact
  BY InitTransfers
<1>2. TransfersExact /\ [TopNext]_topVars /\ [LengthsSurvive]_topVars => TransfersExact'
  BY TransfersStep
<1>3. QED
  BY <1>1, <1>2, PTL DEF TopSpec

(* No counter of a slot passes what its descriptor and its image call for:  *)
(* the subtractions of jpeg_top.sv do not wrap around.                      *)
THEOREM CountersStayInRange ==
  /\ TopSpec /\ [][LengthsSurvive]_topVars => []TopTypeOK
  /\ OneBeatFifos => (TopSpec => []TopTypeOK)
<1>1. TransfersExact => TopTypeOK
  BY ExactMeans
<1>2. TopSpec /\ [][LengthsSurvive]_topVars => []TopTypeOK
  BY <1>1, TransfersAreExact, PTL
<1>3. ASSUME OneBeatFifos
      PROVE  TopSpec => []TopTypeOK
  <2>1. TopSpec => [][LengthsSurvive]_topVars
    BY <1>3, LengthsSurviveOneBeat
  <2>2. QED
    BY <1>2, <2>1, PTL
<1>4. QED
  BY <1>2, <1>3

(* The engines work at the addresses of the slot they serve, and what the   *)
(* slot will be charged is what they were given.                            *)
THEOREM TransfersAreAccounted ==
  /\ TopSpec /\ [][LengthsSurvive]_topVars => []TransfersAccounted
  /\ OneBeatFifos => (TopSpec => []TransfersAccounted)
<1>1. TransfersExact => TransfersAccounted
  BY ExactMeans
<1>2. TopSpec /\ [][LengthsSurvive]_topVars => []TransfersAccounted
  BY <1>1, TransfersAreExact, PTL
<1>3. ASSUME OneBeatFifos
      PROVE  TopSpec => []TransfersAccounted
  <2>1. TopSpec => [][LengthsSurvive]_topVars
    BY <1>3, LengthsSurviveOneBeat
  <2>2. QED
    BY <1>2, <2>1, PTL
<1>4. QED
  BY <1>2, <1>3

(* Every core gets the bytes of its own image, from the first, in order.    *)
THEOREM SourcesComeInOrder ==
  /\ TopSpec /\ [][LengthsSurvive]_topVars => []SourceInOrder
  /\ OneBeatFifos => (TopSpec => []SourceInOrder)
<1>1. TransfersExact => SourceInOrder
  BY ExactMeans
<1>2. TopSpec /\ [][LengthsSurvive]_topVars => []SourceInOrder
  BY <1>1, TransfersAreExact, PTL
<1>3. ASSUME OneBeatFifos
      PROVE  TopSpec => []SourceInOrder
  <2>1. TopSpec => [][LengthsSurvive]_topVars
    BY <1>3, LengthsSurviveOneBeat
  <2>2. QED
    BY <1>2, <2>1, PTL
<1>4. QED
  BY <1>2, <1>3

(* When the completion of an image can be read, its buffer holds all of its *)
(* pixels and nothing else, behind any resets.                              *)
THEOREM ImagesAreComplete ==
  /\ TopSpec /\ [][LengthsSurvive]_topVars => []ImageComplete
  /\ OneBeatFifos => (TopSpec => []ImageComplete)
<1>1. TransfersExact => ImageComplete
  BY ExactMeans
<1>2. TopSpec /\ [][LengthsSurvive]_topVars => []ImageComplete
  BY <1>1, TransfersAreExact, PTL
<1>3. ASSUME OneBeatFifos
      PROVE  TopSpec => []ImageComplete
  <2>1. TopSpec => [][LengthsSurvive]_topVars
    BY <1>3, LengthsSurviveOneBeat
  <2>2. QED
    BY <1>2, <2>1, PTL
<1>4. QED
  BY <1>2, <1>3
=============================================================================
