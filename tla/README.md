# A TLA+ verification of core_jpeg

core_jpeg decodes baseline JPEG images with a pool of hardware decoder cores or in
software. A Linux driver process (`src_sw/`) loads files into DMA buffers, hands them to
the accelerator (`src_v/jpeg_top.sv` around the `jpeg_core` pipeline) or to a software
decoder, and prints the start of every decoded image. `src_simbricks/` runs the Verilated
accelerator behind a simulated PCIe link, `c_model/` is the reference decoder.

This directory holds TLA+ modules translated from that code, TLC configurations that check
them on small instances, and theorems about them that TLAPS proves for every value of the
constants. `PROJECT.json` lists the components, the runs, the mutants that show that each
property can fail, the source lines of each definition, the findings, the hazards and the
theorems.

    tlc -config MCDriver_hw.cfg MCDriver        check a run
    tlc -config MCTop.cfg MCTop
    tlapm OwnershipProofs.tla                   check a proof module

## 1. Inventory

| Component | Source | State it keeps | Operations | Module |
|---|---|---|---|---|
| Scheduler monitor | `src_sw/jpeg_driver.cc:76-341`, `include/jpeg_driver.hh` | a stage, a source and a destination slot per task; two pools of free slots; four work queues; `failed_`; a condition variable | `AcquireCpuJob`, `TryAcquireHardwareSubmitTask`, five `Complete...` methods, `Fail`, `IsFinished` | `Scheduler` |
| CPU workers | `jpeg_driver.cc:352-472` | the job in hand | acquire, load a file, decode in software, post-process | `JpegDriver` |
| Hardware manager | `jpeg_driver.cc:474-596` | the completion or the task in hand | reset, drain completions, poll, write registers, commit | `JpegDriver` |
| main | `jpeg_driver.cc:725-844` | result flags of the threads | start, join, report | `JpegDriver` |
| Start-up, DMA memory | `main` to `:826`, `jpeg_dma.*`, `vfio.cc` | open descriptors, mapped BARs, the DMA region, how far it is cut into 24 source and 24 destination buffers | open, map, allocate, each of which may fail; clean-up; start of the threads | `Startup`, contents of the buffers in `JpegDriver` |
| Accelerator as the driver sees it | `src_v/jpeg_top.sv` | descriptor registers, descriptor FIFO, completion FIFO, a slot per core | MMIO accesses; start, finish, drain, release of a slot | `JpegDevice` |
| jpeg_top, cycle by cycle | `src_v/jpeg_top.sv` | AXI-Lite state machines, arbiters, byte counters, FIFOs | one step per clock | `JpegTop` |
| SimBricks adapter | `src_simbricks/verilator_adapter.*` | two message queues, reads and writes in flight, simulated time, whether the clock of the accelerator runs | one per message type, one per bus adapter and clock edge | `Simbricks` |
| Software decoder | `src_sw/jpeg_sw.cc`, classes of `c_model/` | bit buffer, tables, DC predictors, place in the image | a segment, a scan byte, a block, an MCU | `EntropyDecoder`, `SoftwareDecoder`; one step of `JpegDriver` |
| C reference model | `c_model/main.cpp` | the same | the same with fewer checks | `SoftwareDecoder` |
| Core wrapper, RGB repacker | `jpeg_core_wrapper.sv`, `jpeg_rgb_repacker.sv` | bytes collected, frame end | pack 3 bytes per pixel into 64-byte beats | what `jpeg_top` sees of the wrapper: `JpegTop` |
| Input parser | `jpeg_input.v` | marker state, segment length, table being loaded | one byte per cycle | not modelled |
| Bit buffer, MCU sequencer | `jpeg_bitbuffer.v`, `jpeg_mcu_proc.v`, `jpeg_mcu_id.v` | ring of bits, block counters | push a byte, take up to 32 bits, next block | not modelled |
| Huffman and quantisation tables | `jpeg_dht*.v`, `jpeg_dqt.v` | tables | load, look up | not modelled |
| IDCT and its rings | `jpeg_idct*.v` | block rings between the passes | fill, drain, transpose | not modelled |
| Output stage | `jpeg_output*.v` | rings of Y, Cb, Cr blocks, output FIFO | collect the blocks of an MCU, convert | not modelled |
| Verilator main loop, AXI shims | `verilator_main.cc`, `jpeg_sim_rtl.sv`, `*_adapter.sv` | - | step the clock, copy signals | the clock edge of `Simbricks` |

How they interact. Workers and the manager share nothing but the Scheduler, whose methods
run under `mu_`; between two methods they work on DMA buffers without a lock, and it is the
Scheduler's bookkeeping alone that keeps two of them off the same buffer. The manager talks
to the accelerator through registers: it writes the four descriptor registers and the
commit register, and polls the number of free descriptors and the completion status, a read
of which removes the entry. The accelerator's cores read source buffers and write
destination buffers while the driver runs. There are no interrupts. On a simulated host
the registers and the DMA requests travel as timestamped messages over two queues; the
driver switches the synchronisation of the two simulators on before its first register
access and off behind its last. All of this rests on what start-up leaves behind: buffers
that do not overlap, mapped registers, a device that may master the bus.

What is hard. Sleeping workers and lost wakeups; slots of two pools taken and given back in
any order; a failure reported while other threads are in the middle of a job; a device that
still holds work of an earlier program; completions racing the bookkeeping of submissions; a
completion FIFO without back pressure; joining everything at the end. In the hardware:
state read in one cycle and used in the next, shared engines, counters kept beside FIFOs.
On the link: two clocks that each wait for the other, requests that outlive the switch of
the mode. At start-up: some twenty calls that may each fail with another set of things to undo. In
the decoder: bit positions, runs and sizes that meet the end of a byte, a block or a row.
The complete list, each at its line and with the properties that would show it going wrong,
is `hazards` in `PROJECT.json`.

## 2. The modules

`Scheduler` has the monitor's state as variables, named as in the code without the trailing
underscore (`stage`, `src_slot`, `free_src_slots`, `ready_post`, ...). Every public method
is an action; a method that acquires a job is one action for each kind of result it can
return (`AcquirePostProcess`, `AcquireSoftwareDecode`, `AcquireLoad`, `AcquireWait`,
`AcquireNothing`), in the order in which the code looks for them, with what it throws out
of a queue on the way (`SkipTo`). The completing methods share three endings: `Ignored`
(after a failure), `Rejected` (wrong stage) and the completion proper.
`AssignSwDecodeJobsLocked`, a loop over two queues, is given in closed form: the i-th
waiting task that is not stale meets the i-th free slot. The condition variable is the set
`asleep`; `notify_all` empties it, and a woken thread looks for work from the top of
`AcquireCpuJob`, as in the code. Spurious wakeups need no action of their own: a thread
woken without reason would look at the same predicate and sleep again.

`JpegDevice` is the contract of the accelerator, with clock cycles, AXI beats and the DMA
engine left out. `SLOT_DRAIN` is the part of `SLOT_RUN` after the last write status, while
source bytes behind the end of the image are still being read; `SLOT_RESET` stands for
`SLOT_RESET_PULSE` and `SLOT_RESET_HOLD`. A full FIFO drops what is pushed, as the code
does on both sides. `MmioReset` is the reset register. The assignment of a descriptor to a
slot has no reset (section 4, `top_reset`): a reset over a waiting descriptor and an idle slot
may leave one slot in `SLOT_STUCK`, running over a zeroed descriptor until the next reset. In
hardware mode the run starts with `DeviceLeftOver`: any slot states, a stuck slot among them,
and possibly a descriptor and a completion of an earlier program, so that the reset the
driver makes meets all of this. A driver has at least two cores, as `jpeg_top` demands
(`jpeg_top.sv:112-118`); were there one, it could be the stuck one.

`JpegDriver` composes both with the threads. Program counters stand for the places between
two critical sections or MMIO accesses: `pc` per worker, `manager` for the manager. A buffer
holds the number of the image whose bytes or pixels it contains. The file system may fail a
load, the software decoder may fail a decode, and the manager may refuse the addresses of a
descriptor (`Faults`); a descriptor poll may time out whenever no descriptor is free. The
check of the buffers of a software decode has the effect of a decode that fails and is part
of it. `Exited` lets the finished program stutter, so deadlock is
checked in every run.

`JpegDriverProperties` states the properties and the parts of the inductive invariant,
`MCDriver` the constants of the instances.

`JpegTop` is the same accelerator seen from inside, one step per clock cycle. Its step
`Cycle(in)` is a conjunction with one conjunct per `always_ff` block (`MmioWrite`,
`MmioRead`, `MmioFifos`, `AssignDescriptor`, `ReadArbiter`, `WriteArbiter`, `Lifecycle`);
as in the hardware each of them reads the unprimed values of all registers and sets its own.
The combinational wires (`desc_fifo_pop`, `write_status_is_final`, `read_desc_fire`,
`write_data_tlast`, ...) are operators. `Inputs` is the set of everything the environment
can do in the cycle: a register access of the host, the handshakes of the DMA engine, beats
entering and leaving the FIFOs, the dimensions of an image. The DMA engine is modelled from
how `jpeg_top` uses it; of the cores behind their FIFOs (`gen_decoder` of `jpeg_top.sv`,
`jpeg_core_wrapper.sv`) and of the host (the manager thread of `jpeg_driver.cc`) only what
`jpeg_top` sees is modelled:

- `axi_dma` (a submodule that is not part of the repository) takes a descriptor when it is
  idle and is not ready in the cycle after; its read half delivers the accepted length with
  `tlast` on the last beat; its write half writes the accepted length, drops what follows
  until `tlast`, and then answers with one status;
- `axis_fifo` keeps beats in order; a beat may wait in it for any time;
- a core announces its dimensions once, before its first pixels, and delivers its last
  pixels only after it has seen the whole image; it may or may not take the bytes that
  follow, at any time;
- the host works as the manager thread does: it reads a positive number of free
  descriptors, writes the descriptor, commits, reads completions in between, one access at
  a time, and may use the reset register at any time (`MaxResets`).

A beat of the DMA bus is the unit of length, images are whole numbers of beats, and an
address is an image and a position in its buffer, so that a beat that ends up in the wrong
place is seen (`frame`, `core[d].in_order`). The four descriptor registers are written as
one. The variables `picked_decoder` of the arbiters are taken as cleared in every cycle, as
synthesis and Verilator treat their initialisation; clock gating, byte lanes and strobes
are left out. `JpegTopProperties` states the properties, `MCTop` the instances.

`ImageService` is the abstract specification of the driver: images with a status, an input
and an output buffer each, no threads, queues or device. `JpegDriverProperties` maps the
driver to it (`Service`): `Status` merges the stages between two hand-overs of a buffer, the
slots of the tasks are the buffers, `failed` is `gave_up`, the exit status is the outcome.
`Take` is `AcquireLoad`; `Pair` is the assignment of a destination slot, in
`TryAcquireHardwareSubmitTask` or `CompleteLoad`; `Decode` the completion of a decode; `Show`
the printing; `Serve` is `CompletePostProcess`, in software mode together with the
assignment of the freed slot to a waiting task. Everything else stutters.

`DecodeService` is the abstract specification of the accelerator: a queue of images ordered, the
image each decoder is at, a queue of images finished, and the last answer the host got. One
step may take an order, begin an image, end one and give an answer, all at once, because a
clock cycle of `jpeg_top` does. Nothing pushes back: a full queue refuses an order and forgets
an image that is finished. Both models of the accelerator are mapped to it: `JpegTop` by
`Decoding` of `JpegTopProperties`, where a decoder is at an image as long as its slot runs and has
pixels to write (`Decodes`), and `JpegDevice` under the driver by `Device` of
`JpegDriverProperties`, where it is at one in `SLOT_RUN`. So the contract the driver is checked
against is one that the clock-level model keeps, as far as order, single completion and
forgetting at a full FIFO go; what the pixels are is `ImageComplete` there.

`Startup` is `main` up to its threads. Each system call is an action that succeeds or fails
(`Call`, `CallFails`); a failure closes what the labels and early returns of its function
close. The buffers of the two pools are a sequence of `[off, size]` cut from the region by
`DmaBufAllocAligned`. `Simbricks` is the adapter with both queues, the accelerator as a
source of register completions and DMA requests, and the host: the driver's accesses to BAR
0 and BAR 1, the memory that answers DMA, and a simulator that runs ahead as far as the
messages of the other side allow. `pc` says where the adapter is in a clock edge: in the two
nested loops of `simbricks_sync_poll` or in the steps of the two bus adapters. The C++
exceptions of `h2d_*` lead to `aborted`. One decoder slot of `jpeg_top` issues DMA there; what
slots do to each other is in `JpegTop`. `SimbricksProperties` joins both: the link runs once
the driver has started with the VFIO backend. The SimBricks library and the host are
external, modelled from the calls of the adapter.

`EntropyDecoder` has the classes of `c_model` that both software decoders are built from:
bit buffer, Huffman tables, the block decoder, quantisation. `SoftwareDecoder` has the loops
of `SoftwareJpegDecoder` and of the C model (`program`) over them. Bytes, codes, run lengths
and coefficients are the numbers of the file; a block is the set of its nonzero coefficients
with their places, because the inverse DCT is a function of those, and a pixel shows what
its samples were taken from. `SoftwareDecoderProperties` has the other direction as a
reference: how ITU-T T.81 turns an image into a file, written from the standard and not from
the code, and where each sample belongs.

What is abstracted in the driver: file names and pixels (an image is its number), the wording of failure
messages (one value per call site), the sleeps between polls, the spinning of
post-processing, and register values that play no part in control.

## 3. Properties and runs

| Run | Instance | Properties | Result |
|---|---|---|---|
| `driver_sw` | software mode, 4 images, 2+2 buffers, 3 workers, failing loads and decodes | `SlotsConserved`, `NoLostWakeup`, `NoIdleDestination`, `OwnImageDumped`, `ExitStatusHonest`, `StagesAdvance`, `FrozenByFailure`, `DriverEnds` | hold, 426,133 states |
| `driver_hw` | hardware mode, 3 images, 2+2 buffers, FIFOs of 2, 2 cores, 2 workers, failing loads and descriptors, a used device | `TypeOK`, `BuffersExclusive`, `NoInternalFailure`, `NoTaskLost`, `ImplementsService`, `DeviceIsDecodeService` | hold, 352,748 states up to symmetry |
| `driver_hw_live` | hardware mode without faults, 4 images, 3+2 buffers, FIFOs of 2, 2 cores, 1 worker, a used device | `AllImagesDone` | holds, 129,063 states |
| `driver_hw_overflow` | 2 cores, 3 destination buffers, FIFOs of 1 | `DriverEnds` | violated: see findings |
| `top` | 2 decoders, 3 images of 1 to 3 beats of file and 2 or 3 of pixels, one with trailing data, descriptor FIFO of 2, stream FIFOs of 2 beats, 1 reset, accepted lengths kept (`SteadySpec`) | `TopTypeOK`, `AssignmentHoldsBetweenResets`, `FifosAccounted`, `TransfersAccounted`, `SourceInOrder`, `ImageComplete`, `TasksConserved`, `ImplementsDecodeService` | hold, 704,607 states |
| `top_live` | 2 decoders, shorter images, descriptor FIFO of 1, stream FIFOs of 1 beat, no reset, any length | `EveryImageReturned` | holds, 9,511 states |
| `top_transfer` | stream FIFOs of 2 beats, images of 3 | `ImageComplete` | violated: see findings |
| `top_reset` | 2 decoders, 1 reset, any length | `AssignmentHolds` | violated: see findings |
| `host_link` | three backends, failing calls, regions too small, exact and misaligned, 2+2 slots; then 1 image of 2 reads over the link, synchronised or not, 6 units of host time | `SlotsDisjoint`, `StartedReady`, `NoDescriptorLeft`, `LinkTypeOK`, `OneReadInFlight`, `DmaAnsweredOnce`, `AbortedByLateDma`, `HandledOnTime`, `TimeMonotone`, `TimeGoesOn` | hold, 407,601 states |
| `host_link_quiet` | the same with 1 read per image and more time | `QuietAfterLastImage` | violated: see findings |
| `software_decoder` | both programs on 78 encoded images of 13 sizes in three modes and three file layouts, on files with a fault in a segment, and on damaged files of whole segments | `BufferHoldsScan`, `BlocksRight`, `ScanIsFinished`, `ImageRight`, `FaultsRefused`, `DecoderEnds` | hold, 19,361 states |
| `software_decoder_tail` | flat monochrome images of 1 to 8 blocks | `WholeImage` | violated: see findings |

- `SlotsConserved`: every buffer is in its pool once or held by exactly one task.
- `BuffersExclusive`: a buffer is in the hands of one party, a worker that loads, decodes or
  prints, the descriptor the manager offers, a descriptor in the device or a slot that
  decodes; nor is an image printed from a buffer that a slot of an earlier program still
  writes. Two uses are left out because the code allows them: a slot that has written its
  pixels goes on reading bytes behind the end of the image in a source buffer that is free
  already (`jpeg_driver.cc:264`), and a slot of an earlier program reads its source until
  the reset. A worker may load a file over either; what is read there is discarded.
- `NoLostWakeup`: a thread sleeps only while there is nothing for it to do.
- `NoIdleDestination`: in software mode no loaded task waits while a destination is free.
- `NoInternalFailure`: the driver's checks on itself and on the device never fire, whatever
  the device held at the start.
- `NoTaskLost`: a task in flight is in the descriptor FIFO, in a core, in the completion
  FIFO or in the manager's hand.
- `OwnImageDumped`, `ExitStatusHonest`: each image printed is that task's own, and the exit
  status tells the truth.
- `StagesAdvance`, `FrozenByFailure`: what a step may never do to a task, and to the
  Scheduler after a failure.
- `DriverEnds`, `AllImagesDone`: the program ends; without faults it ends with every image
  decoded.
- `FifosAccounted`, `TransfersAccounted`: the counters `jpeg_top` keeps beside the FIFOs and
  the engine, and charges slots by, agree with them in every cycle.
- `SourceInOrder`, `ImageComplete`: a core gets its own file, whole and in order; when an
  image is announced all its pixels are at their places. These two, `TransfersAccounted` and
  `TopTypeOK` hold as long as `LengthsSurvive`, which the code does not see to when a stream
  FIFO holds more than one beat (section 4, `top_transfer`): the run checks them in the
  behaviours that keep it. The others hold, and are proved, without it.
- `TasksConserved`: an image committed while a descriptor was free is in exactly one place
  from the commit to the read of its completion.
- `AssignmentHolds`: the slot assignment computed in one cycle is right in the next; with
  resets it is not, without (`AssignmentHoldsBetweenResets`) it is.
- `EveryImageReturned`: every committed image is decoded and its completion read, or
  dropped by a full completion FIFO.
- `ImplementsService`: the driver (run in hardware mode, proved for both modes) is an image
  service: images are loaded in order into free buffers, shown with their own pixels before
  they count as served, and the exit status says which way it ended.
- `ImplementsDecodeService`, `DeviceIsDecodeService`: `jpeg_top`, and the device the driver
  uses, are one decode service: images are begun in the order they were ordered, each by a
  decoder that has no other, and the host is told of them in the order in which they ended.
- `SlotsDisjoint`, `StartedReady`, `NoDescriptorLeft`: no two buffers share a byte of the
  region; threads start only over complete pools, mapped registers and a bus master;
  whatever call fails, only the descriptor of the VFIO device stays open.
- `OneReadInFlight`, `DmaAnsweredOnce`: each register read and each DMA request of the
  adapter is in exactly one place of the link, and answered once.
- `AbortedByLateDma`: only an answer to a DMA request can meet a stopped accelerator; a
  register access never does.
- `HandledOnTime`, `TimeMonotone`: a message is handled in the clock edge of its time, and
  time never goes back. That a stopped accelerator has no clock edge (`FrozenWhileQuiet`) is
  proved and no run checks it.
- `TimeGoesOn`: the two simulators do not wait for each other for ever.
- `BufferHoldsScan`, `BlocksRight`, `ImageRight`: bits, blocks and pixels are those that were
  encoded; `ScanIsFinished`: the end of the scan is not seen before its last intact MCU is
  decoded.
- `FaultsRefused`: only a file whose segments are whole, legal and in order is reported as
  decoded. The bytes of the scan are not judged: a file cut off inside its scan, or without
  its quantisation or some of its Huffman tables, is reported as decoded
  (`jpeg_sw.cc:274-285`), and such files are in the instance.
- `DecoderEnds`: a sound file is decoded with success. A damaged one comes to an end as well,
  with two exceptions, both in the instance: at bits that no code matches, or without any
  Huffman table, `lookup` returns the width 0 (`jpeg_dht.h:123`) and the loop of
  `jpeg_sw.cc:354` runs for ever (`NoCodeMatches`); and a frame header with the width 0 leads
  to a division by zero (`jpeg_sw.cc:318`), which ends the program on x86-64 and not on
  AArch64.

Bounds. More images than buffers, so that both pools run dry and refill while work is under
way; with 4 images on 2+2 buffers the software queue `waiting_sw_decode` holds two entries
and two slots come back in either order. Three workers let one sleep while two race. Two
cores on FIFOs of depth 2 finish in either order. Symmetry is used in `driver_hw`, which
checks invariants and safety refinements only: workers and cores are interchangeable. The
pools are no larger than the FIFOs there and in `driver_hw_live`, so a descriptor is free
whenever the manager looks, and its timeout of 100 ms is not met: `AllImagesDone` is a
statement about such instances. With larger pools a busy device can run into the timeout,
which fails the run by design, or lose a completion (`driver_hw_overflow`). The
liveness run has four images on three and two buffers and one worker beside the manager:
both pools run dry while both cores decode. That several workers wake each other is
`NoLostWakeup` in `driver_sw` and, for any number of workers, a theorem; `driver_hw` checks
two of them for deadlock.

`top` has more images than decoders, so a slot is used again after its reset while the
other one is in the middle of an image, one image with trailing data behind its end, and
images that need two transfers in either direction. Its stream FIFOs hold two beats, so that
transfers of one and of two beats meet and a length can be wrong. `SteadySpec` leaves out
the cycles in which an arbiter overwrites a length that the engine accepts in that cycle,
and nothing else: what such a cycle does is `top_transfer`. `WordSize` stands for 2^32 and is larger than every length, so a
subtraction that wraps leaves the range that `TopTypeOK` allows. Depth 2 of the
descriptor FIFO lets push and pop meet in one cycle at the limit.

`host_link` has queues of three messages and time in single units with a clock period of
two, a latency and a synchronisation interval of one, so that messages arrive on and between
clock edges, queues fill, and either side has to wait. Both kinds of DMA request are in
flight together, and both directions of the mode switch fall between them. The regions of
27 and 28 bytes are one byte short of, and exactly, what two slots of 5 and two of 4 bytes
at multiples of 8 need. The process stops at the end of host time, so deadlock is not
checked there; `TimeGoesOn` says instead that nothing stops before.

`software_decoder` has Huffman codes of 1 to 16 bits, runs of 16 and more zeros, a
coefficient in the last place, numbers of 1 to 10 bits of both signs, and bytes 0xFF in the
scan. Damaged files have no Huffman tables, none for the chrominance, no quantisation
tables, half a scan, a scan that begins with sixteen ones, or no width. `MaxBlocks` bounds
the block number where the loop never ends; the largest image needs half of it, and a file
that met the bound in any other way would violate `DecoderEnds`. Blocks are 2 by 2 pixels (`Edge`): sizes around 1, 2 and 3 blocks in either direction
then cover whole and cut blocks. Two layouts are outside `BlocksRight`, `ScanIsFinished`
and `ImageRight` (`Placed`): 4:2:0 images whose rows have an odd number of blocks, which the counters of the
block loop, kept by pairs, do not place, and in the C model monochrome images that end
inside a block, whose planes it does not cut. `intact` excludes the blocks with a symbol that
begins inside the last byte; `software_decoder_tail` is about those.

FIFO depths. `NoTaskLost` holds when the FIFOs are as deep as one of the pools (theorem
`NoTaskIsLost`), and `driver_hw` uses such an instance (2 and 2). The repository's constants are outside it:
24 destination buffers (`include/jpeg_dma.hh:109-111`) against FIFOs of 16 (`jpeg_top.sv`,
`DESC_FIFO_DEPTH_LOG2 = 4`). `driver_hw_overflow` shows what happens there.

Fairness (`FairSpec`). Weak fairness of each worker, of the manager, of each core and of
main: the operating system runs every thread that is not blocked, the manager polls for
ever, and a core given a baseline file ends its decode. Nothing is assumed about which
thread takes a job, about faults, or about the poll's deadline.

Fairness of the hardware (`TopFairness`). The clock runs; the DMA engine and the cores do
not stall for ever (weak fairness of `EngineReads`, `EngineWrites`, `CorePops`,
`CorePushes`); the host comes back to each register it polls (strong fairness, because an
access is possible only between two others). Nothing is assumed about the arbiters: that no
slot starves is what `EveryImageReturned` shows of them.

Fairness of the link (`HostLinkFairSpec`). The simulator of the accelerator and the host's
simulator are processes that keep running: weak fairness of the adapter and of the host's
synchronisation, reception and advance of time. Nothing is assumed about the driver or the
accelerator: `TimeGoesOn` holds whether or not they act. `DecoderFairSpec` is weak fairness
of the one thread that decodes.

An assumption on the SimBricks host: after `TERMINATE` it goes on taking messages from the
adapter's queue (`HostReceive`). The adapter waits for room there
(`verilator_adapter.cc:89`) and for its SYNC (`:458`) without looking at `exiting`; with a
host that stops taking messages it would wait for ever. `TimeGoesOn` rests on this.

## 4. Findings

- `driver_hw_overflow`: `jpeg_top.sv:416` drops a completion that arrives while the
  completion FIFO is full, and the driver does not bound the tasks in flight by the depth of
  that FIFO. The task of the dropped completion stays in `kHwInflight` and the manager polls
  for ever. In the real configuration the manager has to be kept from its loop while 17
  images finish.
- `top_transfer`: the write arbiter (`jpeg_top.sv:663-697`) reloads `dma_write_desc_len` in
  every cycle in which no service is active, and in the cycle in which the engine accepts
  the descriptor none is active yet. If a beat entered the output FIFO in the cycle before,
  the register then holds a larger length than the engine took; `tlast` and the accounting
  use the register, the engine drops the surplus beats, and the image is completed with a
  hole. The read arbiter has the same form, and there the reload can even name another
  slot. The run relies on the assumptions about `axi_dma` stated in section 2; in the trace
  the engine accepts 1 beat and the slot is charged 2. Holding the registers while
  `dma_write_desc_valid` is high and not yet accepted, or charging by the reported length,
  would remove it.
- `top_reset`: the block of `jpeg_top.sv:606-619` has no reset. A reset pulse in a cycle
  with a non-empty descriptor FIFO and an idle slot leaves `desc_assign_valid` set over the
  FIFO it has just emptied; the slot starts with a zeroed descriptor and stays in
  `SLOT_RUN` until the next reset. The driver resets the device when it starts, when a
  program that died may have left descriptors behind.
- `host_link_quiet`: the driver switches the simulation off behind its last image
  (`jpeg_driver.cc:593`), while the accelerator may still be reading source bytes behind the
  end of that image. The answer to such a read makes `h2d_readcomp` throw
  (`verilator_adapter.cc:338`) and ends the simulator.
- `software_decoder_tail`: `eof()` of the bit buffer rounds the read position up
  (`jpeg_bit_buffer.h:104`), so the last byte of a scan counts as consumed once one of its
  bits was read. A symbol that begins inside that byte is read as zero bits; flat images
  lose their last block and are reported as decoded. `c_model/README.md` lists such images
  as supported.

## 5. Proofs

Eight modules hold theorems. They assume what the modules assume of their constants:
`SchedulerAssumption` (a mode, 1 to 65536 images, non-empty pools), `DeviceAssumption` (a FIFO
holds something; `NoDesc` is no descriptor), `DriverAssumption` (there is a worker, and
in hardware mode two cores; a descriptor can name every task and slot), `TopAssumption` (images are numbers, `WordSize`
exceeds every length, FIFOs hold something, at least two decoders), `StartupAssumption`
(sizes are positive), `SimbricksAssumption` (times, queues and identifiers are positive, the
interval is no longer than the latency) and `FilesAssumption` (a file of the decoder's
instance that has no fault of its own has the header, the scan and the pixels of its image).
It says nothing of the other files. Each is evaluated by TLC in every run of its component.

| Module | What it proves |
|---|---|
| `SchedulerProofs` | each method of the Scheduler preserves `SchedulerSound`; every step of every thread keeps `DriverSound`, that and the ranges of the variables; `WakeupsAreNotLost` |
| `OwnershipProofs` | `OwnershipInvariant`, and from it `TypeCorrect`, `SlotsAreConserved`, `DestinationsAreNotIdle`, `NoInternalFailures`, `BuffersAreExclusive`; the action properties `FailureFreezes` and `StagesOnlyAdvance`; `NoTaskIsLost` |
| `ServiceProofs` | `Delivery`, and from it `OwnImagesDumped`, `ExitStatusIsHonest` and the refinement `DriverIsService`; the refinement `DriverSeesDecodeService` |
| `QueueLemmas` | how often the elements of a set occur in a queue, and how push and pop change that |
| `TopProofs` | `TopIsSound`, and from it `AssignmentsHold`, `FifosAreAccounted`, `TasksAreConserved`; the refinement `TopIsDecodeService` |
| `TransferProofs` | `TransfersAreExact`, and from it `CountersStayInRange`, `TransfersAreAccounted`, `SourcesComeInOrder`, `ImagesAreComplete`; `LengthsSurviveOneBeat` |
| `LinkProofs` | `StartupInvariant`, and from it `BuffersAreDisjoint`, `ThreadsStartReady`, `DescriptorsAreClosed`; `LinkInvHolds`, and from it the four invariants and two action properties of the link, and `ClockStandsStill` |
| `DecoderProofs` | `ReportInvHolds`, and from it `FaultsAreRefused`; `BufferInvHolds`, and from it `BufferIsScan`; `ImageInvNext`, and from it `ImageIsRight` |

`NoLostWakeup` is inductive as it stands: a sleeper has seen that there is nothing to do,
and every method that changes that wakes everybody.

The exclusive use of the buffers is not. Threads use buffers outside the lock, so a proof
has to know that the task a thread is working on still holds the slots it had when the
thread took the job. `Ownership` says who may rely on what:

- `SchedulerSound`, what the Scheduler keeps true whoever calls it: slots are conserved, a
  task holds exactly the slots its stage calls for (`StageSlots`), queues hold tasks of one
  stage without repetition (`QueuesFresh`), so that the entries the loops would skip never
  occur;
- `WorkersOwn` and `ManagerOwns`: the task in a thread's hand is in the stage of that
  thread's work, holds its slots and is in no other hand;
- `DeviceOwns`: once the manager has reset the device, the descriptors, slots and
  completions in it are tasks in flight, each in one place, with the slots they hold.

Before that reset the device uses buffers of an earlier program. `BuffersAreExclusive` rests
there on `NothingOffered`: only the manager gives out destinations in hardware mode, so until
it has reset the device no task has one.

Most steps concern one task. `Keeps(t)` says that a step on behalf of `t` leaves alone the
tasks others hold, each method of the Scheduler is shown to satisfy it, and the parts of
`Ownership` about other threads follow from that one fact instead of from each method.
After a failure the stages no longer tell who holds what; the slots still do, because the
Scheduler is frozen, and the invariant is worded so that it keeps the slots and drops the
stages. All of `Ownership` holds for every depth of the FIFOs: a dropped descriptor or
completion is a task in no place, which `DeviceOwns` allows.

`NoTaskIsLost` says when that cannot happen: `EnoughDepth`, one of the two pools is no larger
than the FIFOs. A core that finishes still holds its task, and so do the entries of the
completion FIFO; by `Ownership` these are different tasks with a source and a destination
slot each, no slot twice, so a full FIFO and one more task would need more slots than the
smaller pool has. The manager's part of the invariant (`TasksKept`) is that the descriptor it
is about to commit finds room, because nobody else takes entries between its look at the
register and the commit. Without `EnoughDepth` the statement is false, as
`driver_hw_overflow` shows, and the repository's constants do not satisfy it (24 buffers in
each pool, FIFOs of 16).

`Delivery` adds to `Ownership` what is in the buffers and how the program ends:

- `Contents`: a task's source buffer holds its file from the end of the load to the end of
  the decode, its destination buffer holds its pixels from there to the end of the
  post-processing, and so does that of a completion that waits in the device or in the
  manager's hand. Nobody else writes there, because `Ownership` gives the slot to one task.
  A device that has not been reset may still write for an earlier program; until the reset
  no task has a destination buffer (`NothingOut`). After a failure only a worker that is
  about to print relies on what its buffer holds;
- `Ending`: the counter agrees with the tasks that are done, a thread leaves only at a
  failure or when all are done, a flag set or a status of failure implies a failure, a
  status of success that all are done;
- `Ordered`: images are loaded in the order of their numbers, and a failure ends every task
  that is not done.

For the refinement every step is put into one kind (`StepKind`): it leaves the abstract
state alone, prints an image, is a method of the Scheduler that moves one task on
(`MovesTask`), records a failure, or is `main` ending the program. `DriverIsService` then
follows kind by kind, without looking at the threads again.

`StartupInvariant` says which descriptors are open in every step of start-up, that the BARs
and the bus master bit are there in the steps behind them, and how far the pools are cut:
every buffer has the size its number calls for, begins at a multiple of the alignment behind
the end of the one before and ends at or before `dma_buf_off` (`PoolsCut`). It is needed
because the allocator looks at `dma_buf_off` alone: that no two buffers overlap is a fact
about all earlier allocations. It holds for any number and size of slots, any alignment, and
any region and base address, and behind whatever the link does.

`TopSound` is the invariant of `jpeg_top` that holds in every cycle, behind any reset and
whatever the arbiters do. Its parts: `TopRange`, the range of every register that cannot wrap;
`OneAccess`, the host has one access at the registers; `AssignmentWaits`, an assigned slot is
idle and an assigned descriptor in the FIFO unless a reset came in between;
`TransfersServed`, a service that is active belongs to a slot that runs; `SlotsKept`, the
counters beside the stream FIFOs are their lengths and a slot that is not running has none of
the last image left; `NoneTwice`, the places of an image add up. A cycle changes several
queues at once, so conservation is shown by counting: `Count(queue, S)` of `QueueLemmas` for
every place, and one equation per queue for what a cycle pushes and pops.

`TopIsDecodeService` has the hardest step of the refinements, since one cycle does several
things at once. `ServesImages` adds to `TopSound` what the service relies on: only images are in
the queues, and a slot without an image has nothing to write. One cycle is then one `Serve`
(`CycleServes`): the FIFO of descriptors moves as the service's queue does (`QueueMoves`), a slot
that is assigned is at no image, because it is idle (`AssignmentWaits` of `TopSound`), and a status
that ends an image comes for a slot that has one (`EndsAnImage`, by `TransfersServed`): it is the
registered choice of the write arbiter, cycles old, that still has to name a running slot. A
cycle with the reset pulse is `Reset`. The assignment that a reset leaves standing over an empty
FIFO (`top_reset`) starts a slot with `NoImage`, which the service does not see: such a slot
never ends an image. The theorem does not need `LengthsSurvive`: even where pixels are dropped,
an image ends at most once.

`DriverSeesDecodeService` needs of `Ownership` that the manager commits only a whole descriptor
(`CommitsDescriptors`), so that `NoDesc` never gets into the device; with that, `DeviceServes` says
that queues and running slots hold descriptors, whether of this program or left over. The
registers and what a slot does between two images stutter.

The transfers are exact only under a hypothesis, and the theorems carry it: `LengthsSurvive`,
in the cycle in which the engine takes a descriptor the arbiter does not change its length.
The code does not guarantee this; `top_transfer` is a behaviour where it fails and pixels are
missing. What `TransferProofs` establishes is that nothing else is wrong:
`TopSpec /\ [][LengthsSurvive]_topVars => []TransfersExact`, for any number of decoders,
images of any length and FIFOs of any depth, so that holding the registers until the engine
is ready is a sufficient repair. The hypothesis is not empty: `LengthsSurviveOneBeat` proves
it of every instance whose stream FIFOs hold one beat, and for these the four properties are
also stated without it. `TransfersExact` says for each slot where the engine is in the source
and in the destination, that the beats in the input FIFO are the next ones of the slot's own
file, that the pixels in the output FIFO are the next ones of its image, and that the frame
holds exactly the pixels written so far (`Framed`); the counters cannot wrap because they are
the rest of these lengths.

`LinkInv` of the link has seven parts. `LinkTyped` types the messages by direction and says
that both adapters step once in a clock edge. Three parts count: a register read
(`ReadsCounted`), each DMA request (`DmaPlaced`) and the images (`ImagesCounted`) are each in
one of the two queues, on the register bus, with the accelerator or with the host; every
action moves one of them from one place to the next. `SwitchesInOrder` is why the adapter
does not throw on a register access: as long as the driver runs, no switch-off is in the
queue, and a switch-on is in front of every access that would find the clock stopped. It is
about positions in the queue, and needs `ReadsCounted`, because an answer to a read that
nobody sent would bring a finished driver back to its loop. `InOrder` says that timestamps
are sorted and lie between the last one seen and the host's time plus the latency; `OnTime`
relates the adapter's time to the last timestamp at each point of the two nested loops. Only
both together are inductive: a fast-forward is monotone because the next message is not
older than the last. Nothing relates the clock period to the latency or the interval, and
the number of identifiers, the queue length and the images are arbitrary.

`ReportInv` of the software decoders says what the loop over the segments knows: everything
it went past was legal (`Taken`), the kind of the image it keeps is that of the last frame
header (`Supported`), and it was told that a scan is decoded only behind one. A success is
therefore a statement about the whole file, `Decodable`, which is written without the state
of the program and lists what each of the two programs demands. It says nothing of the
scan, and neither do the programs.

`BufferInv` follows the bytes of the scan one by one. Which byte of the scan is which encoded
byte is said by counting, not by recursion: `DataBefore(scan, k)` is the number of bytes
before `k` that are not stuffed zeros, `Unstuffs` the relation between scan and bytes, which
`FilesAssumption` demands of every scan and TLC evaluates for the encoder of
`SoftwareDecoderProperties`. The byte the bit buffer remembers is the last byte of the scan
it was given; the case that needs care is the end, where the 0xFF of the next marker is
already in the buffer and the write offset steps back over it.

`ImageIsRight` is the geometry of the decoders. Its hypotheses are the properties the run
checks of the blocks, `DecoderSpec /\ []BlocksRight /\ []ScanIsFinished => []ImageRight`: what
a block decodes to is a matter of recursive functions over the bits, where it goes on the
image is not, and that part is proved for images of every width and height, the three modes,
blocks of any even edge, and both programs. The invariant `ImageInv` says that

- the width, height and kind that are kept are those of the image (`HeaderKept`); a file with
  two frame headers or two scans is not an encoded image (`Encodes`), so neither changes
  under the pixels already shown;
- the counters of the block loop stand for a number of MCUs (`Counters`): in 4:2:0,
  `block_num` runs through pairs of blocks and skips a row of blocks at the end of each row
  of MCUs, and is `4 * XBlocks * r + 4 * loop` behind `r` rows; this is where `Placed` is
  needed, because for an odd number of blocks in a row no such `r` exists;
- the blocks of the MCU at hand are the ones that were encoded (`BlocksSoFar`);
- the pixels of every MCU that is done show their samples (`Shown`).

The step that converts an MCU is split into what one call of `ConvertBlock` writes
(`ConvertWrites`), which pixels lie in which block (`CellInBlock`, from uniqueness of quotient
and remainder), where the four blocks of a 4:2:0 MCU lie, and which chrominance sample
belongs to a pixel (`SubIdxIs`). Together they say that an MCU writes its own pixels and no
other (`McuDrawn`), so that what was shown stays.

Only model-checked: `BlocksRight` and `ScanIsFinished`, because code tables, codes and symbols
are recursive functions over data, which the prover cannot do induction on; and everything that
needs fairness (`DriverEnds`, `AllImagesDone`, `EveryImageReturned`, `TimeGoesOn`,
`DecoderEnds`).

## 6. Not modelled

- The inside of a decoder core (`jpeg_core.v` and what it instantiates, and the RGB
  repacker). `JpegTop` takes a core's dimensions and output beats as inputs and
  constrains them to what a core delivers for a baseline file; what such a file decodes to is
  the subject of `SoftwareDecoder`. The hazards of the core are listed in `PROJECT.json`
  without properties.
- That `JpegTop` is `JpegDevice` step by step: one cycle of the former can be several steps of
  the latter. Both are shown to be a `DecodeService` instead, which does not see how a
  slot winds down, nor that a descriptor's addresses belong to its image (`SourceInOrder` and
  `ImageComplete` say that of `JpegTop`).
- The butterflies of the inverse DCT and the colour arithmetic, in Verilog and in C++:
  arithmetic without control.
- What the C model does behind a segment that leaves its file: it reads on outside of the
  buffer.
- On damaged files: what the C model does with a monochrome one, whose blocks it writes
  behind the end of its planes, and the overflow of the block number, an `int`, in a loop
  that never ends.
- In the SimBricks adapter: the throw for other places of BAR 1 than the word at offset 0
  (`verilator_adapter.cc:292`) and the error for other BARs, which leaves the message in the
  queue (`:264`, `:320`), because the driver makes no such access; SIGINT (`:408`), which
  sets `exiting` as `TERMINATE` does.
- The Verilator main loop and the AXI shims, which copy signals; the text of the attribute
  files and of the command line; build files, vendored headers and test images.
