-------------------------------- MODULE JpegTop --------------------------------
(***************************************************************************)
(* The accelerator src_v/jpeg_top.sv, one step per clock cycle.  A step is *)
(* the conjunction of one definition per always_ff block; every unprimed   *)
(* variable is the value a register has during the cycle.                  *)
(*                                                                         *)
(* Bytes are counted in beats of the DMA data bus, and every image is a    *)
(* whole number of beats.  An address is an image and a position in its    *)
(* source or destination buffer.  The host accesses one register at a time *)
(* and takes the answer at once.  The DMA engine is external; of the cores *)
(* behind their FIFOs (gen_decoder, jpeg_core_wrapper.sv) and of the host  *)
(* (jpeg_driver.cc) only what jpeg_top sees is modelled.  The inputs of a  *)
(* cycle say what they all do.                                             *)
(***************************************************************************)
EXTENDS Integers, Sequences, FiniteSets, Functions

CONSTANTS
  NumDecoders,      \* JPEG_NUM_DECODERS
  DescFifoDepth,    \* 2^DESC_FIFO_DEPTH_LOG2
  InputFifoDepth,   \* INPUT_FIFO_SLOTS, beats
  OutputFifoDepth,  \* OUTPUT_FIFO_SLOTS, beats
  SourceLen,        \* beats of each image's file, the descriptor's src_len
  ImageLen,         \* those up to the end of image, the rest is trailing data
  PixelLen,         \* beats of each decoded image
  WordSize,         \* 2^32, the counters' range
  MaxResets         \* bound on the resets the host issues

Images == DOMAIN SourceLen
NoImage == 0  \* the id of a zeroed descriptor
Decoders == 0..(NumDecoders - 1)

ASSUME TopAssumption ==
  /\ NumDecoders \in Nat \ {0, 1}
  /\ DescFifoDepth \in Nat \ {0}
  /\ InputFifoDepth \in Nat \ {0}
  /\ OutputFifoDepth \in Nat \ {0}
  /\ Images \subseteq Nat \ {NoImage}
  /\ WordSize \in Nat \ {0}
  /\ SourceLen \in [Images -> 1..(WordSize - 1)]
  /\ PixelLen \in [Images -> 1..(WordSize - 1)]
  /\ \A i \in Images : ImageLen[i] \in 1..SourceLen[i]
  /\ MaxResets \in Nat

SlotStates == {"SLOT_IDLE", "SLOT_RUN", "SLOT_RESET_PULSE", "SLOT_RESET_HOLD"}

VARIABLES
  \* MMIO
  axil_wr_state, axil_rd_state,
  held_write,            \* awaddr_hold and wdata_hold once both are stored
  held_read,             \* s_axil_rdata: a count of free descriptors, or a completion
  mmio_desc,             \* mmio_desc_*_reg: the image they describe
  mmio_reset_pulse,
  desc_fifo_push, desc_fifo,
  cpl_fifo_pop, cpl_fifo,
  \* descriptor assignment and arbitration
  desc_assign,           \* desc_assign_decoder, NoDecoder if not desc_assign_valid
  dma_read_desc,         \* dma_read_desc_valid, _len, _addr and dma_read_decoder
  dma_write_desc,        \* dma_write_desc_valid, _len, _addr, _decoder
  \* per slot
  slot_state, task_id, have_dimensions, core_reset_pulse,
  task_src_addr, task_src_len, task_dst_addr, write_bytes_remaining,
  input_fifo_occupied_len, output_fifo_occupied_len,
  \* shared read and write service
  read_service_active, read_service_decoder, read_rr_ptr,
  write_service_active, write_service_decoder, write_rr_ptr,
  write_chunk_data_done, write_chunk_bytes_sent,
  \* external
  read_engine, write_engine,  \* the transfer each half of axi_dma is at
  input_fifo, output_fifo,    \* the beats in each slot's axis_fifo
  core,                       \* how far each decoder core is
  frame,                      \* the destination buffers
  host                        \* what the host has done so far

mmioVars == <<axil_wr_state, axil_rd_state, held_write, held_read, mmio_desc,
              mmio_reset_pulse, desc_fifo_push, cpl_fifo_pop>>
fifoVars == <<desc_fifo, cpl_fifo>>
slotVars == <<slot_state, task_id, have_dimensions, core_reset_pulse, task_src_addr,
              task_src_len, task_dst_addr, write_bytes_remaining,
              input_fifo_occupied_len, output_fifo_occupied_len>>
serviceVars == <<read_service_active, read_service_decoder, read_rr_ptr,
                 write_service_active, write_service_decoder, write_rr_ptr,
                 write_chunk_data_done, write_chunk_bytes_sent>>
externalVars == <<read_engine, write_engine, input_fifo, output_fifo, core, frame, host>>
topVars == <<mmioVars, fifoVars, desc_assign, dma_read_desc, dma_write_desc,
             slotVars, serviceVars, externalVars>>

NoDecoder == -1
At(i, n) == [image |-> i, pos |-> n]
Onward(at, beats) == At(at.image, at.pos + beats)
NoTransfer == [valid |-> FALSE, decoder |-> 0, len |-> 0, addr |-> At(NoImage, 0)]
IdleEngine == [busy |-> FALSE, addr |-> At(NoImage, 0), left |-> 0, last |-> FALSE]
NoAnswer == [free |-> 0, cpl |-> NoImage]
FreshCore == [popped |-> 0, in_order |-> TRUE, dims |-> FALSE, made |-> 0]
AllSlots(x) == [d \in Decoders |-> x]
Lower(a, b) == IF a < b THEN a ELSE b

TopInit ==
  /\ axil_wr_state = "WR_IDLE" /\ axil_rd_state = "RD_IDLE"
  /\ held_write = "none" /\ held_read = NoAnswer
  /\ mmio_desc = NoImage
  /\ mmio_reset_pulse = FALSE /\ desc_fifo_push = FALSE /\ cpl_fifo_pop = FALSE
  /\ desc_fifo = <<>> /\ cpl_fifo = <<>>
  /\ desc_assign = NoDecoder
  /\ dma_read_desc = NoTransfer /\ dma_write_desc = NoTransfer
  /\ slot_state = AllSlots("SLOT_IDLE")
  /\ task_id = AllSlots(NoImage)
  /\ have_dimensions = AllSlots(FALSE) /\ core_reset_pulse = AllSlots(FALSE)
  /\ task_src_addr = AllSlots(0) /\ task_src_len = AllSlots(0)
  /\ task_dst_addr = AllSlots(0) /\ write_bytes_remaining = AllSlots(0)
  /\ input_fifo_occupied_len = AllSlots(0) /\ output_fifo_occupied_len = AllSlots(0)
  /\ read_service_active = FALSE /\ read_service_decoder = 0 /\ read_rr_ptr = 0
  /\ write_service_active = FALSE /\ write_service_decoder = 0 /\ write_rr_ptr = 0
  /\ write_chunk_data_done = FALSE /\ write_chunk_bytes_sent = 0
  /\ read_engine = IdleEngine /\ write_engine = IdleEngine
  /\ input_fifo = AllSlots(<<>>) /\ output_fifo = AllSlots(<<>>)
  /\ core = AllSlots(FreshCore)
  /\ frame = {}
  /\ host = [next |-> 1, credit |-> FALSE, returned |-> <<>>, lost |-> {}, resets |-> 0]

-----------------------------------------------------------------------------
(* The host works as the driver's manager does: it reads a positive number  *)
(* of free descriptors, writes the descriptor registers and commits, polls  *)
(* completions in between, and makes one access at a time.                  *)
HostMayPresent(access) ==
  \/ access = "none"
  \/ /\ axil_wr_state = "WR_IDLE" /\ axil_rd_state = "RD_IDLE" /\ held_write = "none"
     /\ access = "RegDesc" =>
          host.next \in Images /\ host.credit /\ mmio_desc # host.next
     /\ access = "RegDescCommit" => mmio_desc = host.next /\ host.credit
     /\ access = "RegDescFree" => host.next \in Images /\ ~host.credit
     /\ access = "RegReset" => host.resets < MaxResets

Reads == {"RegDescFree", "RegCplStatus"}
Writes == {"RegDesc", "RegDescCommit", "RegReset"}

-----------------------------------------------------------------------------
(* MMIO *)

desc_fifo_full == Len(desc_fifo) = DescFifoDepth
cpl_fifo_full == Len(cpl_fifo) = DescFifoDepth
Executes(register) == axil_wr_state = "WR_IDLE" /\ held_write = register

(* A write is carried out in the cycle after its address and data are held; *)
(* the push and the reset it asks for are pulses of the cycle after that.   *)
MmioWrite(access) ==
  /\ desc_fifo_push' = (Executes("RegDescCommit") /\ ~desc_fifo_full)
  /\ mmio_reset_pulse' = Executes("RegReset")
  /\ mmio_desc' = IF Executes("RegDesc") THEN host.next ELSE mmio_desc
  /\ CASE axil_wr_state = "WR_RESP" ->
            axil_wr_state' = "WR_IDLE" /\ held_write' = "none"
       [] axil_wr_state = "WR_IDLE" /\ held_write # "none" ->
            axil_wr_state' = "WR_RESP" /\ UNCHANGED held_write
       [] OTHER -> /\ held_write' = IF access \in Writes THEN access ELSE "none"
                   /\ UNCHANGED axil_wr_state

(* A read of the completion register takes the entry and pops it in the     *)
(* cycle after.                                                             *)
MmioRead(access) ==
  LET accepts == axil_rd_state = "RD_IDLE" /\ access \in Reads
      pops == accepts /\ access = "RegCplStatus" /\ cpl_fifo # <<>>
  IN  IF mmio_reset_pulse
      THEN axil_rd_state' = "RD_IDLE" /\ held_read' = NoAnswer /\ cpl_fifo_pop' = FALSE
      ELSE /\ axil_rd_state' = IF accepts THEN "RD_RESP" ELSE "RD_IDLE"
           /\ cpl_fifo_pop' = pops
           /\ held_read' =
                CASE accepts /\ access = "RegDescFree" ->
                       [NoAnswer EXCEPT !.free = DescFifoDepth - Len(desc_fifo)]
                  [] pops -> [NoAnswer EXCEPT !.cpl = Head(cpl_fifo)]
                  [] OTHER -> NoAnswer

(* Mutant of write_status_is_final: any status ends the image. *)
write_status_is_any(status) == status /\ write_bytes_remaining[write_service_decoder] > 0

(* The statuses of the write engine that ends a slot's image. *)
write_status_is_final(status) ==
  status /\ write_bytes_remaining[write_service_decoder] = dma_write_desc.len

desc_fifo_pop == desc_assign # NoDecoder

(* Mutant of Queue: a pop hides a push of the same cycle. *)
QueueOneAtATime(fifo, push, item, pop) ==
  IF pop /\ fifo # <<>> THEN Tail(fifo)
  ELSE IF push /\ Len(fifo) < DescFifoDepth THEN Append(fifo, item) ELSE fifo

(* Both FIFOs: a push into a full one is dropped, push and pop may meet.    *)
Queue(fifo, push, item, pop) ==
  LET rest == IF pop /\ fifo # <<>> THEN Tail(fifo) ELSE fifo
  IN  IF push /\ Len(fifo) < DescFifoDepth THEN Append(rest, item) ELSE rest

MmioFifos(status) ==
  /\ desc_fifo' = IF mmio_reset_pulse THEN <<>>
                  ELSE Queue(desc_fifo, desc_fifo_push, mmio_desc, desc_fifo_pop)
  /\ cpl_fifo' = IF mmio_reset_pulse THEN <<>>
                 ELSE Queue(cpl_fifo, write_status_is_final(status),
                            task_id[write_service_decoder], cpl_fifo_pop)

-----------------------------------------------------------------------------
(* Descriptor assignment and arbitration: registers computed from the state *)
(* of this cycle and used in the next.  Decoder indices wrap around at      *)
(* NumDecoders, a power of two in the repository.                           *)

(* Mutant of AssignDescriptor: does not wait for the last assignment. *)
AssignDescriptorTwice ==
  LET idle == {d \in Decoders : slot_state[d] = "SLOT_IDLE"}
  IN  desc_assign' = IF desc_fifo # <<>> /\ idle # {}
                     THEN CHOOSE d \in idle : \A e \in idle : d <= e
                     ELSE NoDecoder

(* There is no reset in this block. *)
AssignDescriptor ==
  LET idle == {d \in Decoders : slot_state[d] = "SLOT_IDLE"}
  IN  desc_assign' = IF desc_assign = NoDecoder /\ desc_fifo # <<>> /\ idle # {}
                     THEN CHOOSE d \in idle : \A e \in idle : d <= e
                     ELSE NoDecoder

(* Mutant of SourceAddress: every transfer starts at the first byte. *)
SourceStart(d) == At(task_id[d], 0)

SourceAddress(d) == At(task_id[d], task_src_addr[d])

(* The eligible decoder that comes first, counting from rr_ptr. *)
Pick(rr_ptr, eligible) ==
  LET turn(d) == (d - rr_ptr) % NumDecoders
  IN  CHOOSE d \in eligible : \A e \in eligible : turn(d) <= turn(e)

InputFree(d) == InputFifoDepth - input_fifo_occupied_len[d]

ReadEligible ==
  {d \in Decoders : slot_state[d] = "SLOT_RUN" /\ task_src_len[d] > 0 /\ InputFree(d) > 0}

(* Mutant of ReadArbiter: it goes on sizing during a transfer. *)
ReadArbiterReloads ==
  dma_read_desc' =
    IF mmio_reset_pulse THEN NoTransfer
    ELSE IF ReadEligible = {}
    THEN [dma_read_desc EXCEPT !.valid = FALSE]
    ELSE LET d == Pick(read_rr_ptr, ReadEligible)
         IN  [valid |-> ~read_service_active, decoder |-> d,
              len |-> Lower(task_src_len[d], InputFree(d)), addr |-> SourceAddress(d)]

ReadArbiter ==
  dma_read_desc' =
    IF mmio_reset_pulse THEN NoTransfer
    ELSE IF read_service_active \/ ReadEligible = {}
    THEN [dma_read_desc EXCEPT !.valid = FALSE]
    ELSE LET d == Pick(read_rr_ptr, ReadEligible)
         IN  [valid |-> TRUE, decoder |-> d,
              len |-> Lower(task_src_len[d], InputFree(d)), addr |-> SourceAddress(d)]

WriteEligible ==
  {d \in Decoders : /\ slot_state[d] = "SLOT_RUN" /\ have_dimensions[d]
                    /\ write_bytes_remaining[d] > 0 /\ output_fifo_occupied_len[d] > 0}

WriteArbiter ==
  dma_write_desc' =
    IF mmio_reset_pulse THEN NoTransfer
    ELSE IF write_service_active \/ WriteEligible = {}
    THEN [dma_write_desc EXCEPT !.valid = FALSE]
    ELSE LET d == Pick(write_rr_ptr, WriteEligible)
         IN  [valid |-> TRUE, decoder |-> d,
              len |-> Lower(write_bytes_remaining[d], output_fifo_occupied_len[d]),
              addr |-> At(task_id[d], task_dst_addr[d])]

-----------------------------------------------------------------------------
(* The lifecycle block: slots and the ownership of the shared engines.      *)

(* The descriptor at desc_fifo_rd_ptr; a reset has zeroed the entries. *)
Front == IF desc_fifo = <<>> THEN NoImage ELSE Head(desc_fifo)
Beats(len, i) == IF i = NoImage THEN 0 ELSE len[i]
Minus(a, b) == (a - b) % WordSize
Next_rr(d) == (d + 1) % NumDecoders

read_desc_fire(in) == dma_read_desc.valid /\ in.read_ready
write_desc_fire(in) == dma_write_desc.valid /\ in.write_ready
read_data_last(in) == in.read_beat /\ read_engine.left = 1
write_data_tlast == write_chunk_bytes_sent + 1 = dma_write_desc.len
Read(in, d) == in.read_beat /\ read_service_decoder = d
Written(in, d) == in.write_beat /\ write_service_decoder = d

(* Every pixel is written and every source byte read, and no transfer of    *)
(* any slot is under way.                                                   *)
Finished(d) ==
  /\ have_dimensions[d] /\ write_bytes_remaining[d] = 0 /\ task_src_len[d] = 0
  /\ ~read_service_active /\ ~write_service_active

(* Mutant of SlotState: a finished slot is free without a reset of its core. *)
SlotStateNoReset(d) ==
  CASE desc_assign = d -> "SLOT_RUN"
    [] slot_state[d] = "SLOT_RUN" /\ Finished(d) -> "SLOT_IDLE"
    [] OTHER -> slot_state[d]

(* Mutant of SlotState: a slot is never released from its reset. *)
SlotStateHeld(d) ==
  CASE desc_assign = d -> "SLOT_RUN"
    [] slot_state[d] = "SLOT_RUN" /\ Finished(d) -> "SLOT_RESET_PULSE"
    [] slot_state[d] = "SLOT_RESET_PULSE" -> "SLOT_RESET_HOLD"
    [] OTHER -> slot_state[d]

SlotState(d) ==
  CASE desc_assign = d -> "SLOT_RUN"
    [] slot_state[d] = "SLOT_RUN" /\ Finished(d) -> "SLOT_RESET_PULSE"
    [] slot_state[d] = "SLOT_RESET_PULSE" -> "SLOT_RESET_HOLD"
    [] slot_state[d] = "SLOT_RESET_HOLD" -> "SLOT_IDLE"
    [] OTHER -> slot_state[d]

Flag(c) == IF c THEN 1 ELSE 0

(* Mutant of OutputOccupied: forgets what the engine has taken. *)
OutputPushed(in, d) ==
  IF desc_assign = d THEN 0 ELSE output_fifo_occupied_len[d] + Flag(d \in in.push)

InputOccupied(in, d) ==
  IF desc_assign = d THEN 0
  ELSE input_fifo_occupied_len[d] + Flag(Read(in, d)) - Flag(d \in in.pop)

OutputOccupied(in, d) ==
  IF desc_assign = d THEN 0
  ELSE output_fifo_occupied_len[d] + Flag(d \in in.push) - Flag(Written(in, d))

Slots(in) ==
  /\ slot_state' = [d \in Decoders |-> SlotState(d)]
  /\ core_reset_pulse' = [d \in Decoders |-> slot_state[d] = "SLOT_RESET_PULSE"]
  /\ task_id' = [d \in Decoders |-> IF desc_assign = d THEN Front ELSE task_id[d]]
  /\ have_dimensions' = [d \in Decoders |-> /\ desc_assign # d
                                          /\ (d \in in.dims \/ have_dimensions[d])]
  /\ input_fifo_occupied_len' = [d \in Decoders |-> InputOccupied(in, d)]
  /\ output_fifo_occupied_len' = [d \in Decoders |-> OutputOccupied(in, d)]

(* A transfer moves the slot's pointers when it ends, by the length that    *)
(* stands in the arbiter's register then.                                   *)
Accounting(in) ==
  /\ task_src_addr' = [d \in Decoders |->
       CASE read_data_last(in) /\ Read(in, d) ->
              task_src_addr[d] + dma_read_desc.len
         [] desc_assign = d -> 0
         [] OTHER -> task_src_addr[d]]
  /\ task_src_len' = [d \in Decoders |->
       CASE read_data_last(in) /\ Read(in, d) ->
              Minus(task_src_len[d], dma_read_desc.len)
         [] desc_assign = d -> Beats(SourceLen, Front)
         [] OTHER -> task_src_len[d]]
  /\ task_dst_addr' = [d \in Decoders |->
       CASE in.status /\ write_service_decoder = d ->
              task_dst_addr[d] + dma_write_desc.len
         [] desc_assign = d -> 0
         [] OTHER -> task_dst_addr[d]]
  /\ write_bytes_remaining' = [d \in Decoders |->
       CASE in.status /\ write_service_decoder = d ->
              Minus(write_bytes_remaining[d], dma_write_desc.len)
         [] desc_assign = d -> 0
         [] d \in in.dims -> Beats(PixelLen, task_id[d])
         [] OTHER -> write_bytes_remaining[d]]

ReadService(in) ==
  LET fire == read_desc_fire(in)
      decoder == dma_read_desc.decoder
  IN  /\ read_service_active' = (~read_data_last(in) /\ (fire \/ read_service_active))
      /\ read_service_decoder' = IF fire THEN decoder ELSE read_service_decoder
      /\ read_rr_ptr' = IF fire THEN Next_rr(decoder) ELSE read_rr_ptr

WriteService(in) ==
  LET fire == write_desc_fire(in)
      decoder == dma_write_desc.decoder
      sent == in.write_beat /\ write_data_tlast
  IN  /\ write_service_active' = (~in.status /\ (fire \/ write_service_active))
      /\ write_service_decoder' = IF fire THEN decoder ELSE write_service_decoder
      /\ write_rr_ptr' = IF fire THEN Next_rr(decoder) ELSE write_rr_ptr
      /\ write_chunk_data_done' = (~in.status /\ (sent \/ write_chunk_data_done))
      /\ write_chunk_bytes_sent' =
           IF in.status THEN 0 ELSE write_chunk_bytes_sent + Flag(in.write_beat)

(* The reset register, seen by the lifecycle block. *)
ResetSlots ==
  /\ slot_state' = AllSlots("SLOT_IDLE") /\ task_id' = AllSlots(NoImage)
  /\ have_dimensions' = AllSlots(FALSE) /\ core_reset_pulse' = AllSlots(FALSE)
  /\ task_src_addr' = AllSlots(0) /\ task_src_len' = AllSlots(0)
  /\ task_dst_addr' = AllSlots(0) /\ write_bytes_remaining' = AllSlots(0)
  /\ input_fifo_occupied_len' = AllSlots(0) /\ output_fifo_occupied_len' = AllSlots(0)
  /\ read_service_active' = FALSE /\ read_service_decoder' = 0 /\ read_rr_ptr' = 0
  /\ write_service_active' = FALSE /\ write_service_decoder' = 0 /\ write_rr_ptr' = 0
  /\ write_chunk_data_done' = FALSE /\ write_chunk_bytes_sent' = 0

Lifecycle(in) ==
  \/ mmio_reset_pulse /\ ResetSlots
  \/ /\ ~mmio_reset_pulse
     /\ Slots(in) /\ Accounting(in) /\ ReadService(in) /\ WriteService(in)

-----------------------------------------------------------------------------
(* External: the engine, the FIFOs and the cores                            *)

(* The read half takes a descriptor when it is idle and delivers its beats  *)
(* in order, tlast with the last.                                           *)
ReadEngine(in) ==
  read_engine' =
    IF mmio_reset_pulse \/ read_data_last(in) THEN IdleEngine
    ELSE IF read_desc_fire(in)
    THEN [busy |-> TRUE, addr |-> dma_read_desc.addr, left |-> dma_read_desc.len,
          last |-> FALSE]
    ELSE IF in.read_beat
    THEN [read_engine EXCEPT !.addr = Onward(@, 1), !.left = @ - 1]
    ELSE read_engine

(* The write half writes the length it was given and drops what follows     *)
(* until tlast; it then answers with a status.                              *)
WriteEngine(in) ==
  /\ write_engine' =
       IF mmio_reset_pulse \/ in.status THEN IdleEngine
       ELSE IF write_desc_fire(in)
       THEN [busy |-> TRUE, addr |-> dma_write_desc.addr, left |-> dma_write_desc.len,
             last |-> FALSE]
       ELSE IF in.write_beat
       THEN LET kept == Flag(write_engine.left > 0)
            IN  [write_engine EXCEPT !.addr = Onward(@, kept), !.left = @ - kept,
                                     !.last = write_data_tlast]
       ELSE write_engine
  /\ frame' = IF in.write_beat /\ write_engine.left > 0 /\ ~mmio_reset_pulse
              THEN frame \union {[at |-> write_engine.addr,
                                  pixels |-> Head(output_fifo[write_service_decoder])]}
              ELSE frame

CoreReset(d) == mmio_reset_pulse \/ core_reset_pulse[d]

(* A core finds the dimensions in the header, delivers its pixels in order, *)
(* and the last of them only when it has seen the end of the image.         *)
CoreCanEmit(d) ==
  LET made == core[d].made
      wanted == Beats(PixelLen, task_id[d])
  IN  /\ core[d].dims
      /\ made < wanted
      /\ made + 1 = wanted => core[d].popped >= ImageLen[task_id[d]]
      /\ Len(output_fifo[d]) < OutputFifoDepth

Cores(in) ==
  /\ input_fifo' = [d \in Decoders |->
       IF CoreReset(d) THEN <<>>
       ELSE (IF d \in in.pop THEN Tail(input_fifo[d]) ELSE input_fifo[d]) \o
            (IF Read(in, d) THEN <<read_engine.addr>> ELSE <<>>)]
  /\ output_fifo' = [d \in Decoders |->
       IF CoreReset(d) THEN <<>>
       ELSE (IF Written(in, d) THEN Tail(output_fifo[d]) ELSE output_fifo[d]) \o
            (IF d \in in.push THEN <<At(task_id[d], core[d].made)>> ELSE <<>>)]
  /\ core' = [d \in Decoders |->
       IF CoreReset(d) THEN FreshCore
       ELSE [popped |-> core[d].popped + Flag(d \in in.pop),
             in_order |-> /\ core[d].in_order
                          /\ d \in in.pop =>
                               Head(input_fifo[d]) = At(task_id[d], core[d].popped),
             dims |-> core[d].dims \/ d \in in.dims,
             made |-> core[d].made + Flag(d \in in.push)]]

Host(in) ==
  host' = [next |-> host.next + Flag(Executes("RegDescCommit")),
           credit |-> ~Executes("RegDescCommit") /\ ~Executes("RegReset") /\
                        (host.credit \/ held_read.free > 0),
           returned |-> host.returned \o
                          (IF held_read.cpl = NoImage THEN <<>> ELSE <<held_read.cpl>>),
           lost |-> host.lost \union
                      (IF write_status_is_final(in.status) /\ cpl_fifo_full
                       THEN {task_id[write_service_decoder]} ELSE {}),
           resets |-> host.resets + Flag(Executes("RegReset"))]

-----------------------------------------------------------------------------
Cycle(in) ==
  /\ MmioWrite(in.access)
  /\ MmioRead(in.access)
  /\ MmioFifos(in.status)
  /\ AssignDescriptor
  /\ ReadArbiter
  /\ WriteArbiter
  /\ Lifecycle(in)
  /\ ReadEngine(in)
  /\ WriteEngine(in)
  /\ Cores(in)
  /\ Host(in)

Maybe(c) == IF c THEN BOOLEAN ELSE {FALSE}

(* What the environment can do in this cycle. *)
Inputs ==
  [access : {a \in {"none"} \union Reads \union Writes : HostMayPresent(a)},
   read_ready : Maybe(dma_read_desc.valid /\ ~read_engine.busy),
   read_beat : Maybe(/\ read_service_active /\ read_engine.busy
                     /\ Len(input_fifo[read_service_decoder]) < InputFifoDepth),
   write_ready : Maybe(dma_write_desc.valid /\ ~write_engine.busy),
   write_beat : Maybe(/\ write_service_active /\ write_engine.busy /\ ~write_chunk_data_done
                      /\ output_fifo[write_service_decoder] # <<>>),
   status : Maybe(write_engine.busy /\ write_engine.last),
   pop : SUBSET {d \in Decoders : ~CoreReset(d) /\ input_fifo[d] # <<>>},
   push : SUBSET {d \in Decoders : ~CoreReset(d) /\ CoreCanEmit(d)},
   dims : SUBSET {d \in Decoders : ~CoreReset(d) /\ core[d].popped > 0 /\ ~core[d].dims}]

TopNext == \E in \in Inputs : Cycle(in)

TopSpec == TopInit /\ [][TopNext]_topVars

(* The clock runs.  The manager comes back to every register it polls, the  *)
(* DMA engine ends every transfer, and a core given an image finds its      *)
(* dimensions, takes its bytes and delivers its pixels.                     *)
HostPolls == \E in \in Inputs : in.access = "RegCplStatus" /\ Cycle(in)
HostSubmits == \E in \in Inputs :
  in.access \in {"RegDescFree", "RegDesc", "RegDescCommit"} /\ Cycle(in)
EngineReads == \E in \in Inputs : (in.read_ready \/ in.read_beat) /\ Cycle(in)
EngineWrites == \E in \in Inputs :
  (in.write_ready \/ in.write_beat \/ in.status) /\ Cycle(in)
CorePops(d) == \E in \in Inputs : d \in in.pop /\ Cycle(in)
CorePushes(d) == \E in \in Inputs : (d \in in.push \/ d \in in.dims) /\ Cycle(in)

TopFairness ==
  /\ WF_topVars(TopNext)
  /\ SF_topVars(HostPolls) /\ SF_topVars(HostSubmits)
  /\ WF_topVars(EngineReads) /\ WF_topVars(EngineWrites)
  /\ \A d \in Decoders : WF_topVars(CorePops(d)) /\ WF_topVars(CorePushes(d))

TopFairSpec == TopSpec /\ TopFairness
=============================================================================
