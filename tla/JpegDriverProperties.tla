-------------------------- MODULE JpegDriverProperties --------------------------
(***************************************************************************)
(* What the driver of JpegDriver guarantees.                               *)
(***************************************************************************)
EXTENDS JpegDriver

(* Every variable of the driver stays in its range; a thread that is at     *)
(* work has a task.                                                         *)
SchedulerTypeOK ==
  /\ stage \in [Tasks -> Stages]
  /\ src_slot \in [Tasks -> SrcSlotIds \union {NoSlot}]
  /\ dst_slot \in [Tasks -> DstSlotIds \union {NoSlot}]
  /\ next_load_index \in 0..NumTasks
  /\ num_done \in Nat
  /\ free_src_slots \in Seq(SrcSlotIds)
  /\ free_dst_slots \in Seq(DstSlotIds)
  /\ ready_post \in Seq(Tasks)
  /\ waiting_sw_decode \in Seq(Tasks)
  /\ ready_sw_decode \in Seq(Tasks)
  /\ ready_hw_submit \in Seq(Tasks)
  /\ failed \in BOOLEAN
  /\ failure_message \in {"none", "completed in invalid state", "missing slot",
                          "image load failed", "software decode failed",
                          "invalid descriptor", "unknown task_id", "not in flight",
                          "timed out"}

(* The places of a thread where its job, or submitting, or cpl is in use. *)
Loading == {w \in Workers : pc[w] \in {"load", "loaded"}}
SwDecoding == {w \in Workers : pc[w] \in {"decode", "decoded"}}
Posting == {w \in Workers : pc[w] \in {"post", "posted"}}
Busy == Loading \union SwDecoding \union Posting
Submitting == manager \in {"poll", "recheck", "write", "commit", "submit"}

ThreadsTypeOK ==
  /\ asleep \subseteq Workers
  /\ pc \in [Workers -> WorkerPcs]
  /\ job \in [Workers -> Tasks \union {NoTask}]
  /\ \A w \in Busy : job[w] \in Tasks
  /\ manager \in ManagerPcs
  /\ cpl \in Descriptors \union {NoDesc}
  /\ manager \in {"spurious", "complete"} => cpl.id \in Tasks
  /\ submitting \in Tasks \union {NoTask}
  /\ Submitting => submitting \in Tasks
  /\ simulation_enabled \in BOOLEAN
  /\ workers_ok \in BOOLEAN
  /\ hw_ok \in BOOLEAN
  /\ exit_status \in {"running", "EXIT_SUCCESS", "EXIT_FAILURE"}

BuffersTypeOK ==
  /\ src_buf \in [SrcSlotIds -> Tasks \union {NoImage}]
  /\ dst_buf \in [DstSlotIds -> Tasks \union {NoImage}]
  /\ dumped \in [Tasks -> Tasks \union {NoImage}]

TypeOK == SchedulerTypeOK /\ DeviceTypeOK /\ ThreadsTypeOK /\ BuffersTypeOK

-----------------------------------------------------------------------------
(* Slots are neither shared nor leaked: each source slot is either in       *)
(* free_src_slots, once, or held by exactly one task, and so is each        *)
(* destination slot, whatever the order in which the threads take slots     *)
(* (AcquireCpuJob, TryAcquireHardwareSubmitTask, AssignSwDecodeJobsLocked)  *)
(* and give them back.                                                      *)
Distinct(queue) ==
  \A i, j \in DOMAIN queue : i # j => queue[i] # queue[j]

Partitioned(slots, free, slot) ==
  /\ Distinct(free)
  /\ \A t, u \in Tasks : t # u /\ slot[t] # NoSlot => slot[t] # slot[u]
  /\ \A t \in Tasks : slot[t] \notin Range(free)
  /\ \A s \in slots : s \in Range(free) \/ \E t \in Tasks : slot[t] = s

SlotsConserved ==
  /\ Partitioned(SrcSlotIds, free_src_slots, src_slot)
  /\ Partitioned(DstSlotIds, free_dst_slots, dst_slot)

(* What the device has been given: the descriptors in the FIFO and in slots *)
(* that still write pixels.  Before the manager has reset it they are those *)
(* of an earlier program.                                                   *)
Fresh == manager \notin {"start", "reset"}
RunningTasks == {slot_task[d] : d \in Running}
Taken == Range(desc_fifo) \union RunningTasks

(* A DMA buffer is in the hands of one party: a worker that loads, decodes  *)
(* or prints, the manager that offers a descriptor, a descriptor that waits *)
(* in the device, a slot that decodes.  The workers use their buffers       *)
(* outside mu_, and the slots use theirs with no lock at all.  Nor is an    *)
(* image printed from a buffer an earlier program's slot still writes to.   *)
(* Two uses are not in it, and the code does let them meet a worker that    *)
(* loads a file: a slot that has written its pixels reads the bytes behind  *)
(* the end of the image in a source buffer that is free already             *)
(* (jpeg_driver.cc:264), and a slot of an earlier program reads its source  *)
(* until the reset.  What they read is discarded.                           *)
UsesSrc == {w \in Workers : pc[w] \in {"load", "decode"}}
UsesDst == {w \in Workers : pc[w] \in {"decode", "post"}}
Offers == manager \in {"poll", "recheck", "write", "commit"}

WorkersApart ==
  /\ \A v, w \in UsesSrc : v # w => src_slot[job[v]] # src_slot[job[w]]
  /\ \A v, w \in UsesDst : v # w => dst_slot[job[v]] # dst_slot[job[w]]

TakenApart ==
  /\ Distinct(desc_fifo) /\ Range(desc_fifo) \intersect RunningTasks = {}
  /\ \A d, e \in Running : d # e => slot_task[d] # slot_task[e]
  /\ \A e, f \in Taken : e # f => e.src # f.src /\ e.dst # f.dst
  /\ \A w \in UsesSrc, e \in Taken : src_slot[job[w]] # e.src

OfferApart ==
  LET src == src_slot[submitting]
      dst == dst_slot[submitting]
  IN  /\ \A w \in UsesSrc : src_slot[job[w]] # src
      /\ \A w \in UsesDst : dst_slot[job[w]] # dst
      /\ \A e \in Taken : e.src # src /\ e.dst # dst

BuffersExclusive ==
  /\ WorkersApart
  /\ \A w \in UsesDst, e \in Taken : dst_slot[job[w]] # e.dst
  /\ Fresh => TakenApart
  /\ Offers => OfferApart

(* The checks the Scheduler and the threads make on each other never fire:  *)
(* no completion meets a task in the wrong stage, no job lacks its slots,   *)
(* and every completion the device returns is for a task in flight, even    *)
(* when the device starts with tasks of an earlier run.                     *)
NoInternalFailure ==
  failure_message \notin {"completed in invalid state", "missing slot",
                          "unknown task_id", "not in flight"}

(* No wakeup is lost: a thread is asleep in cv_ only while there is nothing *)
(* for it to do, so no notify_all is missing.                               *)
NoLostWakeup == asleep # {} => ~WakeCondition

(* In software mode a loaded task waits for a destination slot only while   *)
(* no slot is free: AssignSwDecodeJobsLocked leaves none idle.              *)
NoIdleDestination == waiting_sw_decode # <<>> => free_dst_slots = <<>>

(* Every task the Scheduler believes in flight is somewhere: in the         *)
(* descriptor FIFO, in a core, in the completion FIFO or in the manager's   *)
(* hand.  A task that is nowhere is never completed and the driver waits    *)
(* for it for ever.                                                         *)
InDevice(t) ==
  \/ \E i \in DOMAIN desc_fifo : desc_fifo[i].id = t
  \/ \E d \in Running : slot_task[d].id = t
  \/ \E i \in DOMAIN cpl_fifo : cpl_fifo[i].id = t
  \/ manager \in {"lookup", "complete"} /\ cpl.id = t

NoTaskLost ==
  \A t \in Tasks : ~failed /\ stage[t] = "kHwInflight" => InDevice(t)

(* Post-processing prints the pixels of its own image, not those of the     *)
(* task that had the buffer before or after it.                             *)
OwnImageDumped ==
  /\ \A t \in Tasks : stage[t] = "kDone" => dumped[t] = t
  /\ \A w \in Workers : pc[w] = "posted" => dumped[job[w]] = job[w]

(* EXIT_SUCCESS means that every image has been decoded and printed, and    *)
(* EXIT_FAILURE that a failure has been recorded.                           *)
ExitStatusHonest ==
  /\ exit_status = "EXIT_SUCCESS" => \A t \in Tasks : stage[t] = "kDone" /\ dumped[t] = t
  /\ exit_status = "EXIT_FAILURE" => failed

-----------------------------------------------------------------------------
(* A task goes through the stages of its mode in order, one at a time, and  *)
(* only a failure takes it out of line; a finished task stays finished.     *)
Pipeline ==
  IF Mode = "hw"
  THEN {<<"kPendingLoad", "kLoading">>, <<"kLoading", "kQueuedForHwSubmit">>,
        <<"kQueuedForHwSubmit", "kHwSubmitting">>, <<"kHwSubmitting", "kHwInflight">>,
        <<"kHwInflight", "kDecoded">>, <<"kDecoded", "kPostProcessing">>,
        <<"kPostProcessing", "kDone">>}
  ELSE {<<"kPendingLoad", "kLoading">>, <<"kLoading", "kQueuedForSwDecode">>,
        <<"kLoading", "kLoadedAwaitingDecode">>,
        <<"kLoadedAwaitingDecode", "kQueuedForSwDecode">>,
        <<"kQueuedForSwDecode", "kSwDecoding">>, <<"kSwDecoding", "kDecoded">>,
        <<"kDecoded", "kPostProcessing">>, <<"kPostProcessing", "kDone">>}

Advances(t) ==
  \/ stage'[t] = stage[t]
  \/ <<stage[t], stage'[t]>> \in Pipeline
  \/ failed' /\ stage'[t] = "kFailed" /\ stage[t] # "kDone"

StagesAdvance == [][\A t \in Tasks : Advances(t)]_stage

(* After a failure the Scheduler stands still: threads that are still at    *)
(* work report into it without effect, and no slot changes hands while they *)
(* use their buffers.                                                       *)
FrozenByFailure == [][failed => UNCHANGED schedulerVars]_vars

(* The driver comes to an end: with a failure, or with every image done.    *)
DriverEnds == <>(exit_status # "running")

(* Without faults of the environment it ends with every image done. *)
AllImagesDone == <>(exit_status = "EXIT_SUCCESS")

-----------------------------------------------------------------------------
(* The driver as an image service: stages between two hand-overs of a       *)
(* buffer are one status, and where a task is in the threads, the queues    *)
(* and the device is hidden.                                                *)
Status(st) ==
  CASE st = "kPendingLoad" -> "waiting"
    [] st \in {"kLoading", "kLoadedAwaitingDecode", "kQueuedForHwSubmit"} -> "loaded"
    [] st \in {"kHwSubmitting", "kHwInflight", "kQueuedForSwDecode", "kSwDecoding"} -> "decoding"
    [] st \in {"kDecoded", "kPostProcessing"} -> "decoded"
    [] st = "kDone" -> "served"
    [] st = "kFailed" -> "given up"

Service == INSTANCE ImageService WITH
  Images <- Tasks, Inputs <- SrcSlotIds, Outputs <- DstSlotIds,
  NoBuffer <- NoSlot, NoImage <- NoImage,
  status <- [t \in Tasks |-> Status(stage[t])],
  input <- src_slot, output <- dst_slot, shown <- dumped,
  gave_up <- failed, outcome <- exit_status

(* Every behaviour of the driver, in both modes, is one of ImageService:    *)
(* images are loaded in order, each into a free buffer, shown with their    *)
(* own pixels before they count as done, and the exit status tells which    *)
(* way the run ended.                                                       *)
ImplementsService == Service!Spec

(* The accelerator as the driver sees it, in terms of the service it is to  *)
(* be: a slot works while it runs, a completion read is an answer.          *)
Device == INSTANCE DecodeService WITH
  Images <- Descriptors, NoImage <- NoDesc, Decoders <- Decoders, Depth <- DescFifoDepth,
  queue <- desc_fifo,
  work <- [d \in Decoders |-> IF slot_state[d] = "SLOT_RUN" THEN slot_task[d] ELSE NoDesc],
  finished <- cpl_fifo, answer <- cpl

(* Whatever an earlier program left in it and whenever the manager resets   *)
(* it, the device begins descriptors in the order of their commits, each in *)
(* a slot that has none, and the completions the manager pops are those of  *)
(* the slots that ended, each once and in that order.                       *)
DeviceIsDecodeService == Device!Spec

-----------------------------------------------------------------------------
(* The inductive invariant behind the safety properties: who owns a task,   *)
(* and with it the slots the task holds.                                    *)

SrcStages == {"kLoading", "kLoadedAwaitingDecode", "kQueuedForHwSubmit",
              "kHwSubmitting", "kHwInflight", "kQueuedForSwDecode", "kSwDecoding"}
DstStages == {"kHwSubmitting", "kHwInflight", "kQueuedForSwDecode", "kSwDecoding",
              "kDecoded", "kPostProcessing"}

(* A task holds the slots its stage says; images load in order. *)
StageSlots ==
  ~failed =>
    /\ \A t \in Tasks : /\ HasSrc(t) <=> stage[t] \in SrcStages
                        /\ HasDst(t) <=> stage[t] \in DstStages
                        /\ stage[t] # "kFailed"
                        /\ t >= next_load_index => stage[t] = "kPendingLoad"

(* A queue holds tasks of one stage, each once: the entries the acquiring   *)
(* loops would skip do not occur.                                           *)
QueueOf(queue, stages, st) ==
  Distinct(queue) /\ \A t \in Range(queue) : stages[t] = st

QueuesFresh ==
  ~failed =>
    /\ QueueOf(ready_post, stage, "kDecoded")
    /\ QueueOf(waiting_sw_decode, stage, "kLoadedAwaitingDecode")
    /\ QueueOf(ready_sw_decode, stage, "kQueuedForSwDecode")
    /\ QueueOf(ready_hw_submit, stage, "kQueuedForHwSubmit")

(* Hardware tasks wait for a destination slot in ready_hw_submit. *)
WaitingInSoftwareOnly == Mode = "hw" => waiting_sw_decode = <<>>

(* What the Scheduler keeps true by itself, whoever calls it. *)
SchedulerSound ==
  /\ SchedulerTypeOK
  /\ SlotsConserved
  /\ StageSlots
  /\ QueuesFresh
  /\ NoIdleDestination
  /\ WaitingInSoftwareOnly

(* The task a worker is at work on is in the stage of that work, holds the  *)
(* slots the work needs, and is no other worker's.                          *)
WorkersOwn ==
  /\ \A v, w \in Busy : v # w => job[v] # job[w]
  /\ \A w \in Loading \union SwDecoding : HasSrc(job[w])
  /\ \A w \in SwDecoding \union Posting : HasDst(job[w])
  /\ ~failed => /\ \A w \in Loading : stage[job[w]] = "kLoading"
                /\ \A w \in SwDecoding : stage[job[w]] = "kSwDecoding"
                /\ \A w \in Posting : stage[job[w]] = "kPostProcessing"

(* So is the task the manager is submitting. *)
ManagerOwns ==
  Submitting =>
    /\ HasSrc(submitting) /\ HasDst(submitting)
    /\ ~failed => stage[submitting] = "kHwSubmitting"
    /\ manager = "commit" => mmio_desc = Descriptor(submitting)
    /\ \A w \in Busy : job[w] # submitting

(* The manager never holds a completion it has to reject, unless a failure  *)
(* has already been recorded.                                               *)
RejectsOnlyAfterFailure == manager \in {"unknown", "spurious"} => failed

(* Once the manager has reset the device, what is in it are the tasks in    *)
(* flight, each in one place and with the slots it holds.                   *)
InHand == IF manager \in {"lookup", "complete"} THEN {cpl} ELSE {}
Live == Range(desc_fifo) \union RunningTasks \union Range(cpl_fifo) \union InHand

InFlight(e) ==
  /\ e.id \in Tasks
  /\ e = Descriptor(e.id)
  /\ HasSrc(e.id) /\ HasDst(e.id)
  /\ ~failed => \/ stage[e.id] = "kHwInflight"
                \/ manager = "submit" /\ e.id = submitting
  /\ manager \in {"poll", "recheck", "write", "commit"} => e.id # submitting
  /\ \A w \in Busy : job[w] # e.id

OnePlaceEach ==
  /\ Distinct(desc_fifo)
  /\ Distinct(cpl_fifo)
  /\ \A d, e \in Running : d # e => slot_task[d] # slot_task[e]
  /\ Range(desc_fifo) \intersect RunningTasks = {}
  /\ Range(desc_fifo) \intersect Range(cpl_fifo) = {}
  /\ RunningTasks \intersect Range(cpl_fifo) = {}
  /\ InHand \intersect (Range(desc_fifo) \union RunningTasks \union Range(cpl_fifo)) = {}

DeviceOwns == Fresh => OnePlaceEach /\ \A e \in Live : InFlight(e)

Ownership ==
  /\ SchedulerSound
  /\ TypeOK
  /\ WorkersOwn
  /\ ManagerOwns
  /\ RejectsOnlyAfterFailure
  /\ DeviceOwns
  /\ NoInternalFailure
=============================================================================
