------------------------------ MODULE ServiceProofs ------------------------------
(***************************************************************************)
(* What the driver delivers: the pixels that are printed for an image are  *)
(* its own, the exit status is the truth, and every behaviour of threads,  *)
(* queues and device is one of ImageService.  The device it uses is one    *)
(* of DecodeService.                                                       *)
(***************************************************************************)
EXTENDS OwnershipProofs

-----------------------------------------------------------------------------
(* What is in the buffers.  The bytes of a task's file are in its source    *)
(* buffer from the end of the load to the end of the decode, the pixels of  *)
(* its image in its destination buffer from there to the end of its         *)
(* post-processing.  After a failure only a worker about to print its       *)
(* buffer still relies on what is in there.                                 *)
LoadedStages == {"kLoadedAwaitingDecode", "kQueuedForHwSubmit", "kHwSubmitting",
                 "kHwInflight", "kQueuedForSwDecode", "kSwDecoding"}
DecodedStages == {"kDecoded", "kPostProcessing"}

SrcHolds(t) == src_buf[src_slot[t]] = t
DstHolds(t) == dst_buf[dst_slot[t]] = t

TasksHold ==
  ~failed => \A t \in Tasks : /\ stage[t] \in LoadedStages => SrcHolds(t)
                              /\ stage[t] \in DecodedStages => DstHolds(t)

WorkersHold ==
  \A w \in Workers :
    /\ ~failed /\ pc[w] = "loaded" => SrcHolds(job[w])
    /\ ~failed /\ pc[w] = "decoded" => DstHolds(job[w])
    /\ pc[w] = "post" => DstHolds(job[w])
    /\ pc[w] = "posted" => dumped[job[w]] = job[w]

Returned == Range(cpl_fifo) \union InHand

DeviceHolds == ~failed /\ Fresh => \A e \in Returned : DstHolds(e.id)

DoneShown == \A t \in Tasks : stage[t] = "kDone" => dumped[t] = t

(* A device that has not been reset still writes into destination buffers,  *)
(* but no task has one yet.                                                 *)
NothingOut == ~Fresh => \A t \in Tasks : ~HasDst(t)

Contents == TasksHold /\ WorkersHold /\ DeviceHolds /\ DoneShown /\ NothingOut

-----------------------------------------------------------------------------
(* How the program ends: the counter agrees with the tasks, threads leave   *)
(* when there is nothing left to do, and the flags main() reads tell of a   *)
(* failure.                                                                 *)
Done == {t \in Tasks : stage[t] = "kDone"}

DoneCounted == num_done = Cardinality(Done)

LeavesAtEnd ==
  (\E w \in Workers : pc[w] \in {"leave", "stopped"}) => failed \/ AllWorkDoneLocked

FlagsHonest == ~workers_ok \/ ~hw_ok \/ exit_status = "EXIT_FAILURE" => failed

SuccessAllDone == exit_status = "EXIT_SUCCESS" => Done = Tasks

Ending == DoneCounted /\ LeavesAtEnd /\ FlagsHonest /\ SuccessAllDone

-----------------------------------------------------------------------------
(* Images load in order, and a failure ends every task that is not done.    *)
LoadedInOrder == \A t \in Tasks : t < next_load_index => stage[t] # "kPendingLoad"

FailureEnds ==
  failed => /\ \A t \in Tasks : stage[t] \in {"kDone", "kFailed"}
            /\ \A w \in Posting : stage[job[w]] = "kFailed"

Ordered == LoadedInOrder /\ FailureEnds


-----------------------------------------------------------------------------
(* Facts of the state before a step *)

(* The types, and that two tasks never share a buffer. *)
LEMMA BufferFacts ==
  ASSUME Ownership
  PROVE  /\ src_slot \in [Tasks -> SrcSlotIds \union {NoSlot}]
         /\ dst_slot \in [Tasks -> DstSlotIds \union {NoSlot}]
         /\ src_buf \in [SrcSlotIds -> Tasks \union {NoImage}]
         /\ dst_buf \in [DstSlotIds -> Tasks \union {NoImage}]
         /\ dumped \in [Tasks -> Tasks \union {NoImage}]
         /\ stage \in [Tasks -> Stages]
         /\ pc \in [Workers -> WorkerPcs]
         /\ job \in [Workers -> Tasks \union {NoTask}]
         /\ \A t, u \in Tasks : t # u /\ HasSrc(t) => src_slot[t] # src_slot[u]
         /\ \A t, u \in Tasks : t # u /\ HasDst(t) => dst_slot[t] # dst_slot[u]
BY DEF Ownership, SchedulerSound, SchedulerTypeOK, TypeOK, BuffersTypeOK, ThreadsTypeOK,
       SlotsConserved, Partitioned, HasSrc, HasDst

(* The tasks of workers: in whose hands they are and what they hold. *)
LEMMA JobFacts ==
  ASSUME Ownership
  PROVE  /\ \A w \in Busy : w \in Workers /\ job[w] \in Tasks
         /\ \A v, w \in Busy : v # w => job[v] # job[w]
         /\ \A w \in Workers : pc[w] \in {"load", "loaded"} =>
              /\ w \in Busy /\ HasSrc(job[w])
              /\ ~failed => stage[job[w]] = "kLoading"
         /\ \A w \in Workers : pc[w] \in {"decode", "decoded"} =>
              /\ w \in Busy /\ HasSrc(job[w]) /\ HasDst(job[w])
              /\ ~failed => stage[job[w]] = "kSwDecoding"
         /\ \A w \in Workers : pc[w] \in {"post", "posted"} =>
              /\ w \in Busy /\ HasDst(job[w])
              /\ ~failed => stage[job[w]] = "kPostProcessing"
BY DEF Ownership, TypeOK, ThreadsTypeOK, WorkersOwn, Busy, Loading, SwDecoding, Posting

(* The tasks in a device that has been reset. *)
LEMMA LiveFacts ==
  ASSUME Ownership, Fresh, NEW e \in Live
  PROVE  /\ e.id \in Tasks /\ e.src = src_slot[e.id] /\ e.dst = dst_slot[e.id]
         /\ HasSrc(e.id) /\ HasDst(e.id)
         /\ ~failed => stage[e.id] \in {"kHwSubmitting", "kHwInflight"}
         /\ \A w \in Busy : job[w] # e.id
<1>1. InFlight(e)
  BY DEF Ownership, DeviceOwns
<1>2. manager = "submit" /\ ~failed => stage[submitting] = "kHwSubmitting"
  BY DEF Ownership, ManagerOwns, Submitting
<1>3. QED
  BY <1>1, <1>2 DEF InFlight, Descriptor

(* While nothing has failed, the stage of a task says which slots it holds. *)
LEMMA StageFacts ==
  ASSUME Ownership, ~failed, NEW t \in Tasks
  PROVE  /\ stage[t] \in LoadedStages => HasSrc(t)
         /\ stage[t] \in DecodedStages => HasDst(t)
BY DEF Ownership, SchedulerSound, StageSlots, LoadedStages, DecodedStages, SrcStages, DstStages

(* The head of a queue is in the stage the queue is for. *)
LEMMA AcquireStages ==
  ASSUME Ownership, NEW t \in Tasks
  PROVE  /\ AcquirePostProcess(t) => stage[t] = "kDecoded"
         /\ AcquireSoftwareDecode(t) => stage[t] = "kQueuedForSwDecode"
         /\ AcquireLoad(t) => stage[t] = "kPendingLoad"
         /\ AcquireHardwareSubmit(t) => stage[t] = "kQueuedForHwSubmit"
<1>1. ASSUME AcquirePostProcess(t)
      PROVE  stage[t] = "kDecoded"
  <2>1. /\ ready_post # <<>> /\ t = Head(ready_post)
        /\ ready_post \in Seq(Tasks) /\ QueueOf(ready_post, stage, "kDecoded")
    BY <1>1, SoundQueues DEF AcquirePostProcess, AcquireAllowed, Ownership
  <2>2. QED
    BY <2>1, PopFacts DEF QueueOf
<1>2. ASSUME AcquireSoftwareDecode(t)
      PROVE  stage[t] = "kQueuedForSwDecode"
  <2>1. /\ ready_sw_decode # <<>> /\ t = Head(ready_sw_decode)
        /\ ready_sw_decode \in Seq(Tasks)
        /\ QueueOf(ready_sw_decode, stage, "kQueuedForSwDecode")
    BY <1>2, SoundQueues DEF AcquireSoftwareDecode, AcquireAllowed, SwJobPending, Ownership
  <2>2. QED
    BY <2>1, PopFacts DEF QueueOf
<1>3. ASSUME AcquireLoad(t)
      PROVE  stage[t] = "kPendingLoad"
  <2>1. t >= next_load_index /\ ~failed
    BY <1>3, SchedulerAssumption DEF AcquireLoad, Tasks, AcquireAllowed
  <2>2. QED
    BY <2>1 DEF Ownership, SchedulerSound, StageSlots
<1>4. ASSUME AcquireHardwareSubmit(t)
      PROVE  stage[t] = "kQueuedForHwSubmit"
  <2>1. /\ ready_hw_submit # <<>> /\ t = Head(ready_hw_submit)
        /\ ready_hw_submit \in Seq(Tasks)
        /\ QueueOf(ready_hw_submit, stage, "kQueuedForHwSubmit")
    BY <1>4, SoundQueues DEF AcquireHardwareSubmit, HwSubmitPossible, Ownership
  <2>2. QED
    BY <2>1, PopFacts DEF QueueOf
<1>5. QED
  BY <1>1, <1>2, <1>3, <1>4

-----------------------------------------------------------------------------
(* Steps that touch no buffer *)

(* A step that moves no task: its threads may go on, and completions may    *)
(* leave the device.                                                        *)
LEMMA SilentContents ==
  ASSUME Contents, UNCHANGED <<stage, src_slot, dst_slot, failed, bufferVars>>,
         \A w \in Workers : pc'[w] \in {"loaded", "decoded", "post", "posted"} =>
           pc'[w] = pc[w] /\ job'[w] = job[w],
         Fresh => Fresh',
         Fresh' => Returned' = {} \/ (Fresh /\ Returned' \subseteq Returned)
  PROVE  Contents'
<1>1. TasksHold' /\ DoneShown' /\ NothingOut'
  BY DEF Contents, TasksHold, SrcHolds, DstHolds, DoneShown, NothingOut, HasDst, bufferVars
<1>2. WorkersHold'
  BY DEF Contents, WorkersHold, SrcHolds, DstHolds, bufferVars
<1>3. DeviceHolds'
  BY DEF Contents, DeviceHolds, DstHolds, bufferVars
<1>4. QED
  BY <1>1, <1>2, <1>3 DEF Contents

(* A step that records a failure. *)
LEMMA FailingContents ==
  ASSUME Contents, failed', UNCHANGED <<dst_slot, bufferVars>>,
         \A t \in Tasks : stage'[t] = "kDone" => stage[t] = "kDone",
         \A w \in Workers : pc'[w] \in {"post", "posted"} =>
           pc'[w] = pc[w] /\ job'[w] = job[w],
         Fresh => Fresh'
  PROVE  Contents'
<1>1. TasksHold' /\ DoneShown' /\ NothingOut' /\ DeviceHolds'
  BY DEF Contents, TasksHold, DeviceHolds, DoneShown, NothingOut, HasDst, bufferVars
<1>2. WorkersHold'
  BY DEF Contents, WorkersHold, DstHolds, bufferVars
<1>3. QED
  BY <1>1, <1>2 DEF Contents

-----------------------------------------------------------------------------
(* AcquireCpuJob *)

LEMMA AcquirePostProcessContents ==
  ASSUME Ownership, Contents, NEW w \in Workers, NEW t \in Tasks,
         AcquirePostProcess(t), Begin(w, t, "post"),
         UNCHANGED <<deviceVars, managerVars, bufferVars>>
  PROVE  Contents'
<1>1. ~failed
  BY DEF AcquirePostProcess, AcquireAllowed
<1>2. stage[t] = "kDecoded"
  BY AcquireStages
<1>3. /\ stage' = [stage EXCEPT ![t] = "kPostProcessing"]
      /\ UNCHANGED <<src_slot, dst_slot, failed, src_buf, dst_buf, dumped>>
      /\ pc' = [pc EXCEPT ![w] = "post"] /\ job' = [job EXCEPT ![w] = t]
  BY DEF AcquirePostProcess, Begin, Goto, bufferVars
<1>4. DstHolds(t)
  BY <1>1, <1>2 DEF Contents, TasksHold, DecodedStages
<1>5. TasksHold' /\ DoneShown'
  BY <1>3, <1>4, BufferFacts
  DEF Contents, TasksHold, SrcHolds, DstHolds, DoneShown, LoadedStages, DecodedStages
<1>6. WorkersHold'
  BY <1>3, <1>4, BufferFacts DEF Contents, WorkersHold, SrcHolds, DstHolds
<1>7. DeviceHolds' /\ NothingOut'
  BY <1>3 DEF Contents, DeviceHolds, NothingOut, DstHolds, HasDst, Fresh, Returned, InHand,
     deviceVars, managerVars
<1>8. QED
  BY <1>5, <1>6, <1>7 DEF Contents

LEMMA AcquireSoftwareDecodeContents ==
  ASSUME Ownership, Contents, NEW w \in Workers, NEW t \in Tasks,
         AcquireSoftwareDecode(t), Begin(w, t, "decode"),
         UNCHANGED <<deviceVars, managerVars, bufferVars>>
  PROVE  Contents'
<1>1. ~failed
  BY DEF AcquireSoftwareDecode, AcquireAllowed
<1>2. stage[t] = "kQueuedForSwDecode"
  BY AcquireStages
<1>3. /\ stage' = [stage EXCEPT ![t] = "kSwDecoding"]
      /\ UNCHANGED <<src_slot, dst_slot, failed, src_buf, dst_buf, dumped>>
      /\ pc' = [pc EXCEPT ![w] = "decode"] /\ job' = [job EXCEPT ![w] = t]
  BY DEF AcquireSoftwareDecode, Begin, Goto, bufferVars
<1>4. TasksHold' /\ DoneShown'
  BY <1>2, <1>3, BufferFacts
  DEF Contents, TasksHold, SrcHolds, DstHolds, DoneShown, LoadedStages, DecodedStages
<1>5. WorkersHold'
  BY <1>3, BufferFacts DEF Contents, WorkersHold, SrcHolds, DstHolds
<1>6. DeviceHolds' /\ NothingOut'
  BY <1>3 DEF Contents, DeviceHolds, NothingOut, DstHolds, HasDst, Fresh, Returned, InHand,
     deviceVars, managerVars
<1>7. QED
  BY <1>4, <1>5, <1>6 DEF Contents

LEMMA AcquireLoadContents ==
  ASSUME Ownership, Contents, NEW w \in Workers, NEW t \in Tasks,
         AcquireLoad(t), Begin(w, t, "load"),
         UNCHANGED <<deviceVars, managerVars, bufferVars>>
  PROVE  Contents'
<1>1. /\ stage' = [stage EXCEPT ![t] = "kLoading"]
      /\ \A u \in Tasks \ {t} : src_slot'[u] = src_slot[u]
      /\ UNCHANGED <<dst_slot, failed, src_buf, dst_buf, dumped>>
      /\ pc' = [pc EXCEPT ![w] = "load"] /\ job' = [job EXCEPT ![w] = t]
      /\ ~failed
  BY BufferFacts DEF AcquireLoad, Begin, Goto, bufferVars, AcquireAllowed
<1>2. stage[t] = "kPendingLoad"
  BY AcquireStages
<1>3. \A v \in Workers : pc[v] = "loaded" => job[v] \in Tasks \ {t}
  BY <1>1, <1>2, JobFacts
<1>4. TasksHold' /\ DoneShown'
  BY <1>1, BufferFacts
  DEF Contents, TasksHold, SrcHolds, DstHolds, DoneShown, LoadedStages, DecodedStages
<1>5. WorkersHold'
  BY <1>1, <1>3, BufferFacts DEF Contents, WorkersHold, SrcHolds, DstHolds
<1>6. DeviceHolds' /\ NothingOut'
  BY <1>1 DEF Contents, DeviceHolds, NothingOut, DstHolds, HasDst, Fresh, Returned, InHand,
     deviceVars, managerVars
<1>7. QED
  BY <1>4, <1>5, <1>6 DEF Contents

(* The three ways AcquireCpuJob ends without a job, or with one. *)
LEMMA AcquireContents ==
  ASSUME Ownership, Contents, NEW w \in Workers, AcquireCpuJob(w)
  PROVE  Contents'
<1>1. \/ \E t \in Tasks : \/ AcquirePostProcess(t) /\ Begin(w, t, "post")
                          \/ AcquireSoftwareDecode(t) /\ Begin(w, t, "decode")
                          \/ AcquireLoad(t) /\ Begin(w, t, "load")
      \/ AcquireNothing /\ Goto(w, "leave") /\ UNCHANGED job
      \/ AcquireWait(w) /\ UNCHANGED workerVars
  BY DEF AcquireCpuJob
<1>2. UNCHANGED <<deviceVars, managerVars, bufferVars>>
  BY DEF AcquireCpuJob
<1>3. CASE \E t \in Tasks : \/ AcquirePostProcess(t) /\ Begin(w, t, "post")
                            \/ AcquireSoftwareDecode(t) /\ Begin(w, t, "decode")
                            \/ AcquireLoad(t) /\ Begin(w, t, "load")
  BY <1>2, <1>3, AcquirePostProcessContents, AcquireSoftwareDecodeContents,
     AcquireLoadContents
<1>4. CASE \/ AcquireNothing /\ Goto(w, "leave") /\ UNCHANGED job
           \/ AcquireWait(w) /\ UNCHANGED workerVars
  <2>1. UNCHANGED <<stage, src_slot, dst_slot, failed, bufferVars>>
    BY <1>2, <1>4 DEF AcquireNothing, AcquireWait, schedulerVars, taskVars
  <2>2. \A v \in Workers : pc'[v] \in {"loaded", "decoded", "post", "posted"} =>
           pc'[v] = pc[v] /\ job'[v] = job[v]
    BY <1>4, BufferFacts DEF Goto, workerVars
  <2>3. Fresh' = Fresh /\ Returned' = Returned
    BY <1>2 DEF Fresh, Returned, InHand, deviceVars, managerVars
  <2>4. QED
    BY <2>1, <2>2, <2>3, SilentContents
<1>5. QED
  BY <1>1, <1>3, <1>4

-----------------------------------------------------------------------------
(* A worker at work *)

LEMMA WorkerFailsContents ==
  ASSUME Ownership, Contents, NEW w \in Workers, NEW message, WorkerFails(w, message),
         UNCHANGED managerVars
  PROVE  Contents'
<1>1. /\ failed' /\ UNCHANGED <<dst_slot, bufferVars>>
      /\ pc' = [pc EXCEPT ![w] = "stopped"] /\ job' = job
  BY KeepsFail DEF WorkerFails, Goto
<1>2. \A t \in Tasks : stage'[t] = "kDone" => stage[t] = "kDone"
  BY DEF WorkerFails, Fail, Ignored, schedulerVars, taskVars
<1>3. \A v \in Workers : pc'[v] \in {"post", "posted"} => pc'[v] = pc[v] /\ job'[v] = job[v]
  BY <1>1, BufferFacts
<1>4. Fresh' = Fresh
  BY DEF Fresh, managerVars
<1>5. QED
  BY <1>1, <1>2, <1>3, <1>4, FailingContents

(* The file goes to a buffer no other task has. *)
LEMMA LoadContents ==
  ASSUME Ownership, Contents, NEW w \in Workers, LoadImageToDma(w)
  PROVE  Contents'
<1> DEFINE t == job[w]
<1>1. CASE \E message : WorkerFails(w, message)
  BY <1>1, WorkerFailsContents DEF LoadImageToDma
<1>2. CASE /\ HasSrc(t) /\ src_buf' = [src_buf EXCEPT ![src_slot[t]] = t]
           /\ Goto(w, "loaded")
           /\ UNCHANGED <<schedulerVars, asleep, job, dst_buf, dumped, workers_ok>>
  <2>1. /\ UNCHANGED <<stage, src_slot, dst_slot, failed, job, dst_buf, dumped>>
        /\ UNCHANGED <<deviceVars, managerVars>>
        /\ pc' = [pc EXCEPT ![w] = "loaded"] /\ pc[w] = "load"
    BY <1>2 DEF LoadImageToDma, schedulerVars, taskVars, Goto
  <2>2. t \in Tasks /\ src_slot[t] \in SrcSlotIds
    BY <1>2, <2>1, JobFacts, BufferFacts DEF HasSrc
  <2>3. ~failed => stage[t] = "kLoading"
    BY <2>1, JobFacts
  <2>4. src_buf'[src_slot[t]] = t
    BY <1>2, <2>2, BufferFacts
  <2>5. \A u \in Tasks \ {t} : src_buf[src_slot[u]] = u => src_buf'[src_slot[u]] = u
    BY <1>2, <2>2, BufferFacts
  <2>6. TasksHold'
    BY <2>1, <2>3, <2>5 DEF Contents, TasksHold, SrcHolds, DstHolds, LoadedStages,
       DecodedStages
  <2>7. \A v \in Workers \ {w} : pc[v] = "loaded" => job[v] \in Tasks \ {t}
    BY <2>1, JobFacts
  <2>8. WorkersHold'
    BY <2>1, <2>4, <2>5, <2>7, BufferFacts DEF Contents, WorkersHold, SrcHolds, DstHolds
  <2>9. DeviceHolds' /\ DoneShown' /\ NothingOut'
    BY <2>1 DEF Contents, DeviceHolds, DoneShown, NothingOut, DstHolds, HasDst, Fresh,
       Returned, InHand, deviceVars, managerVars
  <2>10. QED
    BY <2>6, <2>8, <2>9 DEF Contents
<1>3. QED
  BY <1>1, <1>2 DEF LoadImageToDma

(* The pixels go to a buffer no other task has, and no core writes. *)
LEMMA SoftwareDecodeContents ==
  ASSUME Ownership, Contents, NEW w \in Workers, SoftwareDecodeJpeg(w)
  PROVE  Contents'
<1> DEFINE t == job[w]
<1>1. CASE \E message : WorkerFails(w, message)
  BY <1>1, WorkerFailsContents DEF SoftwareDecodeJpeg
<1>2. CASE /\ HasSrc(t) /\ HasDst(t)
           /\ dst_buf' = [dst_buf EXCEPT ![dst_slot[t]] = src_buf[src_slot[t]]]
           /\ Goto(w, "decoded")
           /\ UNCHANGED <<schedulerVars, asleep, job, src_buf, dumped, workers_ok>>
  <2>1. /\ UNCHANGED <<stage, src_slot, dst_slot, failed, job, src_buf, dumped>>
        /\ UNCHANGED <<deviceVars, managerVars>>
        /\ pc' = [pc EXCEPT ![w] = "decoded"] /\ pc[w] = "decode"
    BY <1>2 DEF SoftwareDecodeJpeg, schedulerVars, taskVars, Goto
  <2>2. t \in Tasks /\ dst_slot[t] \in DstSlotIds
    BY <1>2, <2>1, JobFacts, BufferFacts DEF HasDst
  <2>3. ~failed => stage[t] = "kSwDecoding"
    BY <2>1, JobFacts
  <2>4. ~failed => dst_buf'[dst_slot[t]] = t
    BY <1>2, <2>2, <2>3, BufferFacts DEF Contents, TasksHold, SrcHolds, LoadedStages
  <2>5. \A u \in Tasks \ {t} : dst_buf[dst_slot[u]] = u => dst_buf'[dst_slot[u]] = u
    BY <1>2, <2>2, BufferFacts
  <2>6. TasksHold'
    BY <2>1, <2>3, <2>5 DEF Contents, TasksHold, SrcHolds, DstHolds, LoadedStages,
       DecodedStages
  <2>7. \A v \in Workers \ {w} : pc[v] \in {"decoded", "post"} => job[v] \in Tasks \ {t}
    BY <2>1, JobFacts
  <2>8. WorkersHold'
    BY <2>1, <2>4, <2>5, <2>7, BufferFacts DEF Contents, WorkersHold, SrcHolds, DstHolds
  <2>9. ~failed /\ Fresh => \A e \in Returned : e.id \in Tasks \ {t}
    BY <2>1, JobFacts, LiveFacts DEF Live, Returned
  <2>10. DeviceHolds'
    BY <2>1, <2>5, <2>9 DEF Contents, DeviceHolds, DstHolds, Fresh, Returned, InHand,
       deviceVars, managerVars
  <2>11. DoneShown' /\ NothingOut'
    BY <2>1 DEF Contents, DoneShown, NothingOut, HasDst, Fresh, managerVars
  <2>12. QED
    BY <2>6, <2>8, <2>10, <2>11 DEF Contents
<1>3. QED
  BY <1>1, <1>2 DEF SoftwareDecodeJpeg

(* What is printed is what the buffer holds. *)
LEMMA PostProcessContents ==
  ASSUME Ownership, Contents, NEW w \in Workers, PostProcess(w)
  PROVE  Contents'
<1> DEFINE t == job[w]
<1>1. CASE \E message : WorkerFails(w, message)
  BY <1>1, WorkerFailsContents DEF PostProcess
<1>2. CASE /\ HasDst(t) /\ dumped' = [dumped EXCEPT ![t] = dst_buf[dst_slot[t]]]
           /\ Goto(w, "posted")
           /\ UNCHANGED <<schedulerVars, asleep, job, src_buf, dst_buf, workers_ok>>
  <2>1. /\ UNCHANGED <<stage, src_slot, dst_slot, failed, job, src_buf, dst_buf>>
        /\ UNCHANGED <<deviceVars, managerVars>>
        /\ pc' = [pc EXCEPT ![w] = "posted"] /\ pc[w] = "post"
    BY <1>2 DEF PostProcess, schedulerVars, taskVars, Goto
  <2>2. t \in Tasks
    BY <2>1, JobFacts
  <2>3. dst_buf[dst_slot[t]] = t
    BY <2>1 DEF Contents, WorkersHold, DstHolds
  <2>4. dumped'[t] = t /\ \A u \in Tasks \ {t} : dumped'[u] = dumped[u]
    BY <1>2, <2>2, <2>3, BufferFacts
  <2>5. TasksHold' /\ DeviceHolds' /\ NothingOut'
    BY <2>1 DEF Contents, TasksHold, DeviceHolds, NothingOut, SrcHolds, DstHolds, HasDst,
       Fresh, Returned, InHand, deviceVars, managerVars
  <2>6. DoneShown'
    BY <2>1, <2>4 DEF Contents, DoneShown
  <2>7. \A v \in Workers : pc[v] = "posted" => job[v] \in Tasks
    BY JobFacts
  <2>8. WorkersHold'
    BY <2>1, <2>4, <2>7, BufferFacts DEF Contents, WorkersHold, SrcHolds, DstHolds
  <2>9. QED
    BY <2>5, <2>6, <2>8 DEF Contents
<1>3. QED
  BY <1>1, <1>2 DEF PostProcess

-----------------------------------------------------------------------------
(* The methods of the Scheduler that move one task on *)

(* Task t moves; no worker is left with it, and either its destination      *)
(* stays the same or the device has not returned it.                        *)
MovesOn(t) ==
  /\ UNCHANGED <<failed, src_buf, dst_buf, dumped>>
  /\ \A u \in Tasks \ {t} : /\ stage'[u] = stage[u]
                            /\ src_slot'[u] = src_slot[u]
                            /\ dst_slot'[u] = dst_slot[u]
  /\ stage'[t] \in LoadedStages => src_buf[src_slot'[t]] = t
  /\ stage'[t] \in DecodedStages => dst_buf[dst_slot'[t]] = t
  /\ stage'[t] # "kDone"
  /\ \A v \in Workers : pc'[v] \in {"loaded", "decoded", "post", "posted"} =>
       pc'[v] = pc[v] /\ job'[v] = job[v] /\ job[v] \in Tasks \ {t}
  /\ (Fresh' <=> Fresh) /\ Returned' \subseteq Returned
  /\ dst_slot'[t] = dst_slot[t] \/ (Fresh /\ \A e \in Returned : e.id # t)

LEMMA OneTaskContents ==
  ASSUME Ownership, Contents, ~failed, NEW t \in Tasks, MovesOn(t)
  PROVE  Contents'
<1>1. UNCHANGED <<failed, src_buf, dst_buf, dumped>>
  BY DEF MovesOn
<1>2. TasksHold' /\ DoneShown'
  BY <1>1 DEF MovesOn, Contents, TasksHold, DoneShown, SrcHolds, DstHolds
<1>3. WorkersHold'
  BY <1>1 DEF MovesOn, Contents, WorkersHold, SrcHolds, DstHolds
<1>4. Fresh => \A e \in Returned : e.id \in Tasks
  BY LiveFacts DEF Live, Returned
<1>5. DeviceHolds'
  BY <1>1, <1>4 DEF MovesOn, Contents, DeviceHolds, DstHolds
<1>6. NothingOut'
  BY DEF MovesOn, Contents, NothingOut, HasDst
<1>7. QED
  BY <1>2, <1>3, <1>5, <1>6 DEF Contents

LEMMA LoadCompletedContents ==
  ASSUME Ownership, Contents, ModeOK, NEW w \in Workers, pc[w] = "loaded", ~failed,
         LoadCompleted(job[w]), Goto(w, "acquire"),
         UNCHANGED <<job, deviceVars, managerVars, bufferVars>>
  PROVE  Contents'
<1> DEFINE t == job[w]
<1>1. /\ stage' = [stage EXCEPT ![t] = StageAfterLoad]
      /\ UNCHANGED <<src_slot, failed>>
      /\ pc' = [pc EXCEPT ![w] = "acquire"]
  BY DEF LoadCompleted, Goto
<1>2. t \in Tasks /\ w \in Busy
  BY JobFacts
<1>3. SrcHolds(t)
  BY DEF Contents, WorkersHold
<1>4. StageAfterLoad \notin DecodedStages /\ StageAfterLoad # "kDone"
  <2>1. StageAfterLoad \in {"kQueuedForHwSubmit", "kQueuedForSwDecode", "kLoadedAwaitingDecode"}
    BY DEF LoadCompleted
  <2>2. QED
    BY <2>1 DEF DecodedStages
<1>5. \A u \in Tasks \ {t} : dst_slot'[u] = dst_slot[u]
  BY BufferFacts DEF LoadCompleted
<1>6. \A v \in Workers : pc'[v] \in {"loaded", "decoded", "post", "posted"} =>
           pc'[v] = pc[v] /\ job'[v] = job[v] /\ job[v] \in Tasks \ {t}
  BY <1>1, <1>2, JobFacts, BufferFacts
<1>7. Fresh' = Fresh /\ Returned' = Returned
  BY DEF Fresh, Returned, InHand, deviceVars, managerVars
<1>8. dst_slot'[t] = dst_slot[t] \/ Fresh
  <2>1. Mode = "hw" => dst_slot' = dst_slot
    BY DEF LoadCompleted, StageAfterLoad
  <2>2. Mode # "hw" => Fresh
    BY DEF ModeOK, Fresh
  <2>3. QED
    BY <2>1, <2>2
<1>9. Fresh => \A e \in Returned : e.id # t
  BY <1>2, LiveFacts DEF Live, Returned
<1>10. \A u \in Tasks \ {t} : /\ stage'[u] = stage[u]
                              /\ src_slot'[u] = src_slot[u]
                              /\ dst_slot'[u] = dst_slot[u]
  BY <1>1, <1>5, BufferFacts
<1>11. stage'[t] = StageAfterLoad /\ src_buf[src_slot'[t]] = t
  BY <1>1, <1>2, <1>3, BufferFacts DEF SrcHolds
<1>12. UNCHANGED <<failed, src_buf, dst_buf, dumped>>
  BY <1>1 DEF bufferVars
<1>13. /\ stage'[t] \in LoadedStages => src_buf[src_slot'[t]] = t
       /\ stage'[t] \in DecodedStages => dst_buf[dst_slot'[t]] = t
       /\ stage'[t] # "kDone"
       /\ Returned' \subseteq Returned
  BY <1>4, <1>7, <1>11
<1>14. dst_slot'[t] = dst_slot[t] \/ (Fresh /\ \A e \in Returned : e.id # t)
  BY <1>8, <1>9
<1> HIDE DEF t
<1>15. MovesOn(t)
  BY <1>6, <1>7, <1>10, <1>12, <1>13, <1>14 DEF MovesOn
<1>16. QED
  BY <1>2, <1>15, OneTaskContents

(* Whoever completes the decode, its pixels are there. *)
LEMMA DecodeCompletedContents ==
  ASSUME Ownership, Contents, ~failed, NEW t \in Tasks, DecodeCompleted(t), DstHolds(t),
         UNCHANGED bufferVars,
         \A v \in Workers : pc'[v] \in {"loaded", "decoded", "post", "posted"} =>
           pc'[v] = pc[v] /\ job'[v] = job[v] /\ job[v] \in Tasks \ {t},
         Fresh' = Fresh, Returned' \subseteq Returned
  PROVE  Contents'
<1>1. /\ stage' = [stage EXCEPT ![t] = "kDecoded"]
      /\ src_slot' = [src_slot EXCEPT ![t] = NoSlot]
      /\ UNCHANGED <<dst_slot, failed>>
  BY DEF DecodeCompleted
<1>2. stage'[t] = "kDecoded" /\ "kDecoded" \notin LoadedStages
  BY <1>1, BufferFacts DEF LoadedStages
<1>3. \A u \in Tasks \ {t} : /\ stage'[u] = stage[u]
                             /\ src_slot'[u] = src_slot[u]
                             /\ dst_slot'[u] = dst_slot[u]
  BY <1>1, BufferFacts
<1>4. stage'[t] \in DecodedStages => dst_buf[dst_slot'[t]] = t
  BY <1>1 DEF DstHolds
<1>5. stage'[t] # "kDone" /\ (stage'[t] \in LoadedStages => src_buf[src_slot'[t]] = t)
  BY <1>2
<1>6. UNCHANGED <<failed, src_buf, dst_buf, dumped>>
  BY <1>1 DEF bufferVars
<1>7. dst_slot'[t] = dst_slot[t] \/ (Fresh /\ \A e \in Returned : e.id # t)
  BY <1>1
<1>8. MovesOn(t)
  BY <1>3, <1>4, <1>5, <1>6, <1>7 DEF MovesOn
<1>9. QED
  BY <1>8, OneTaskContents

(* Where the stage after post-processing and its slots come from. *)
LEMMA PostProcessCompletedMoves ==
  ASSUME SchedulerSound, ~failed, NEW t \in Tasks, HasDst(t), PostProcessCompleted(t)
  PROVE  /\ stage'[t] = "kDone" /\ dst_slot'[t] = NoSlot
         /\ \/ \A u \in Tasks \ {t} : stage'[u] = stage[u] /\ dst_slot'[u] = dst_slot[u]
            \/ /\ Mode = "sw"
               /\ \E h \in Tasks \ {t} :
                    /\ stage[h] = "kLoadedAwaitingDecode"
                    /\ stage'[h] = "kQueuedForSwDecode" /\ dst_slot'[h] = dst_slot[t]
                    /\ \A u \in Tasks \ {t, h} : /\ stage'[u] = stage[u]
                                                 /\ dst_slot'[u] = dst_slot[u]
<1> DEFINE dst == Append(free_dst_slots, dst_slot[t])
           h == Head(waiting_sw_decode)
<1>1. dst_slot[t] \in DstSlotIds
  BY DEF HasDst, SchedulerSound, SchedulerTypeOK
<1>2. stage \in [Tasks -> Stages] /\ dst_slot \in [Tasks -> DstSlotIds \union {NoSlot}]
  BY DEF SchedulerSound, SchedulerTypeOK
<1>3. CASE NoAssignment(dst, t)
  BY <1>2, <1>3 DEF NoAssignment
<1>4. CASE AssignSwDecodeJobsLocked(dst, t) /\ waiting_sw_decode = <<>>
  BY <1>1, <1>2, <1>4, AssignsNothing DEF SchedulerSound, NoAssignment
<1>5. CASE Mode = "sw" /\ AssignSwDecodeJobsLocked(dst, t) /\ waiting_sw_decode # <<>>
  <2>1. /\ stage' = [u \in Tasks |-> IF u = t THEN "kDone"
                                     ELSE IF u = h THEN "kQueuedForSwDecode"
                                     ELSE stage[u]]
        /\ dst_slot' = [u \in Tasks |-> IF u = t THEN NoSlot
                                        ELSE IF u = h THEN dst_slot[t] ELSE dst_slot[u]]
    BY <1>1, <1>5, AssignsOne DEF SchedulerSound
  <2>2. /\ waiting_sw_decode \in Seq(Tasks)
        /\ QueueOf(waiting_sw_decode, stage, "kLoadedAwaitingDecode")
    BY SoundQueues
  <2>3. h \in Tasks /\ stage[h] = "kLoadedAwaitingDecode"
    BY <1>5, <2>2, PopFacts DEF QueueOf
  <2>4. stage[t] # "kLoadedAwaitingDecode"
    BY DEF SchedulerSound, StageSlots, DstStages
  <2> HIDE DEF h
  <2>5. QED
    BY <1>5, <2>1, <2>3, <2>4
<1>6. QED
  BY <1>3, <1>4, <1>5 DEF PostProcessCompleted

LEMMA PostProcessCompletedContents ==
  ASSUME Ownership, Contents, ModeOK, NEW w \in Workers, pc[w] = "posted", ~failed,
         HasDst(job[w]), PostProcessCompleted(job[w]), Goto(w, "acquire"),
         UNCHANGED <<job, deviceVars, managerVars, bufferVars>>
  PROVE  Contents'
<1> DEFINE t == job[w]
<1>1. /\ UNCHANGED <<src_slot, failed, job, src_buf, dst_buf, dumped>>
      /\ pc' = [pc EXCEPT ![w] = "acquire"]
  BY DEF PostProcessCompleted, Goto, bufferVars
<1>2. t \in Tasks /\ w \in Busy /\ stage[t] = "kPostProcessing" /\ dumped[t] = t
  BY JobFacts DEF Contents, WorkersHold
<1>3. \A v \in Workers : pc'[v] \in {"loaded", "decoded", "post", "posted"} =>
           pc'[v] = pc[v] /\ job[v] \in Tasks \ {t} /\ stage[job[v]] # "kLoadedAwaitingDecode"
  BY <1>1, <1>2, JobFacts, BufferFacts
<1>4. Fresh => \A e \in Returned : /\ e.id \in Tasks \ {t}
                                   /\ stage[e.id] # "kLoadedAwaitingDecode"
  BY <1>2, LiveFacts DEF Live, Returned
<1>5. Fresh' = Fresh /\ Returned' = Returned
  BY DEF Fresh, Returned, InHand, deviceVars, managerVars
<1>6. SchedulerSound
  BY DEF Ownership
<1>7. /\ stage'[t] = "kDone" /\ dst_slot'[t] = NoSlot
      /\ \/ \A u \in Tasks \ {t} : stage'[u] = stage[u] /\ dst_slot'[u] = dst_slot[u]
         \/ /\ Mode = "sw"
            /\ \E h \in Tasks \ {t} :
                 /\ stage[h] = "kLoadedAwaitingDecode"
                 /\ stage'[h] = "kQueuedForSwDecode" /\ dst_slot'[h] = dst_slot[t]
                 /\ \A u \in Tasks \ {t, h} : /\ stage'[u] = stage[u]
                                              /\ dst_slot'[u] = dst_slot[u]
  BY <1>2, <1>6, PostProcessCompletedMoves
<1> HIDE DEF t
<1>8. CASE \A u \in Tasks \ {t} : stage'[u] = stage[u] /\ dst_slot'[u] = dst_slot[u]
  <2>1. TasksHold' /\ DoneShown' /\ NothingOut'
    BY <1>1, <1>2, <1>5, <1>7, <1>8 DEF Contents, TasksHold, DoneShown, NothingOut, SrcHolds,
       DstHolds, HasDst, LoadedStages, DecodedStages
  <2>2. WorkersHold'
    BY <1>1, <1>3, <1>8 DEF Contents, WorkersHold, SrcHolds, DstHolds
  <2>3. DeviceHolds'
    BY <1>1, <1>4, <1>5, <1>8 DEF Contents, DeviceHolds, DstHolds
  <2>4. QED
    BY <2>1, <2>2, <2>3 DEF Contents
<1>9. CASE /\ Mode = "sw"
           /\ \E h \in Tasks \ {t} :
                /\ stage[h] = "kLoadedAwaitingDecode"
                /\ stage'[h] = "kQueuedForSwDecode" /\ dst_slot'[h] = dst_slot[t]
                /\ \A u \in Tasks \ {t, h} : /\ stage'[u] = stage[u]
                                             /\ dst_slot'[u] = dst_slot[u]
  <2>1. PICK h \in Tasks \ {t} :
                /\ stage[h] = "kLoadedAwaitingDecode"
                /\ stage'[h] = "kQueuedForSwDecode" /\ dst_slot'[h] = dst_slot[t]
                /\ \A u \in Tasks \ {t, h} : /\ stage'[u] = stage[u]
                                             /\ dst_slot'[u] = dst_slot[u]
    BY <1>9
  <2>2. TasksHold' /\ DoneShown'
    BY <1>1, <1>2, <1>7, <2>1 DEF Contents, TasksHold, DoneShown, SrcHolds,
       DstHolds, LoadedStages, DecodedStages
  <2>3. WorkersHold'
    BY <1>1, <1>3, <2>1 DEF Contents, WorkersHold, SrcHolds, DstHolds
  <2>4. DeviceHolds'
    BY <1>1, <1>4, <1>5, <2>1 DEF Contents, DeviceHolds, DstHolds
  <2>5. NothingOut'
    BY <1>5, <1>9 DEF ModeOK, NothingOut, Fresh
  <2>6. QED
    BY <2>2, <2>3, <2>4, <2>5 DEF Contents
<1>10. QED
  BY <1>7, <1>8, <1>9

LEMMA CompleteJobContents ==
  ASSUME Ownership, Contents, ModeOK, NEW w \in Workers, CompleteJob(w)
  PROVE  Contents'
<1>1. /\ Goto(w, "acquire") /\ UNCHANGED <<job, deviceVars, managerVars, bufferVars>>
      /\ pc' = [pc EXCEPT ![w] = "acquire"]
  BY DEF CompleteJob, Goto
<1>2. \A v \in Workers : pc'[v] \in {"loaded", "decoded", "post", "posted"} =>
           v # w /\ pc'[v] = pc[v] /\ job'[v] = job[v]
  BY <1>1, BufferFacts
<1>3. Fresh' = Fresh /\ Returned' = Returned
  BY <1>1 DEF Fresh, Returned, InHand, deviceVars, managerVars
<1>4. CASE Ignored
  BY <1>1, <1>2, <1>3, <1>4, SilentContents DEF Ignored, schedulerVars, taskVars
<1>5. CASE Rejected
  BY <1>1, <1>2, <1>3, <1>5, FailingContents DEF Rejected, taskVars
<1>6. CASE pc[w] = "loaded" /\ ~failed /\ LoadCompleted(job[w])
  BY <1>1, <1>6, LoadCompletedContents
<1>7. CASE pc[w] = "decoded" /\ ~failed /\ DecodeCompleted(job[w])
  <2>1. job[w] \in Tasks /\ DstHolds(job[w])
    BY <1>7, JobFacts DEF Contents, WorkersHold
  <2>2. \A v \in Workers : pc'[v] \in {"loaded", "decoded", "post", "posted"} =>
           pc'[v] = pc[v] /\ job'[v] = job[v] /\ job[v] \in Tasks \ {job[w]}
    BY <1>2, <1>7, JobFacts
  <2>3. QED
    BY <1>1, <1>3, <1>7, <2>1, <2>2, DecodeCompletedContents
<1>8. CASE pc[w] = "posted" /\ ~failed /\ HasDst(job[w]) /\ PostProcessCompleted(job[w])
  BY <1>1, <1>8, PostProcessCompletedContents
<1>9. QED
  BY <1>4, <1>5, <1>6, <1>7, <1>8 DEF CompleteJob, CompleteLoad, CompleteSoftwareDecode,
     CompletePostProcess, DecodeEnds

LEMMA WorkerContents ==
  ASSUME Ownership, Contents, ModeOK, NEW w \in Workers, Worker(w)
  PROVE  Contents'
<1>1. CASE WorkerLeaves(w)
  <2>1. /\ UNCHANGED <<stage, src_slot, dst_slot, failed, job, bufferVars>>
        /\ UNCHANGED <<deviceVars, managerVars>>
        /\ pc' = [pc EXCEPT ![w] = "stopped"]
    BY <1>1 DEF WorkerLeaves, Goto, schedulerVars, taskVars
  <2>2. \A v \in Workers : pc'[v] \in {"loaded", "decoded", "post", "posted"} =>
           pc'[v] = pc[v] /\ job'[v] = job[v]
    BY <2>1, BufferFacts
  <2>3. Fresh' = Fresh /\ Returned' = Returned
    BY <2>1 DEF Fresh, Returned, InHand, deviceVars, managerVars
  <2>4. QED
    BY <2>1, <2>2, <2>3, SilentContents
<1>2. QED
  BY <1>1, AcquireContents, LoadContents, SoftwareDecodeContents, PostProcessContents,
     CompleteJobContents DEF Worker

-----------------------------------------------------------------------------
(* The hardware manager *)

(* A step that reads, or moves descriptors only. *)
LEMMA LooksContents ==
  ASSUME Ownership, Contents,
         \/ EnableSimulation \/ ResetDevice \/ LoopHead \/ TryPopCompletion \/ LookUpTask
         \/ CheckFailure \/ WriteRegisters \/ CommitDescriptor \/ DisableSimulation
         \/ ManagerLeaves
  PROVE  Contents'
<1>1. UNCHANGED <<stage, src_slot, dst_slot, failed, bufferVars, pc, job>>
  BY DEF EnableSimulation, ResetDevice, LoopHead, TryPopCompletion, LookUpTask, CheckFailure,
     WriteRegisters, CommitDescriptor, DisableSimulation, ManagerLeaves, OnlyManagerMoves,
     schedulerVars, taskVars, workerVars
<1>2. Fresh => Fresh'
  BY DEF EnableSimulation, ResetDevice, LoopHead, TryPopCompletion, LookUpTask, CheckFailure,
     WriteRegisters, CommitDescriptor, DisableSimulation, ManagerLeaves, At, Fresh
<1>3. Fresh' => Returned' = {} \/ (Fresh /\ Returned' \subseteq Returned)
  <2>1. CASE ResetDevice
    BY <2>1, EmptyFacts DEF ResetDevice, At, MmioReset, Returned, InHand
  <2>2. CASE TryPopCompletion
    <3>1. /\ Fresh /\ InHand = {}
          /\ \/ UNCHANGED cpl_fifo /\ InHand' = {}
             \/ /\ cpl_fifo # <<>> /\ cpl_fifo' = Tail(cpl_fifo)
                /\ InHand' = {Head(cpl_fifo)}
      BY <2>2 DEF TryPopCompletion, At, PopCompletion, Fresh, InHand, deviceVars
    <3>2. cpl_fifo \in Seq(Descriptors \union {NoDesc})
      BY DEF Ownership, TypeOK, DeviceTypeOK
    <3>3. cpl_fifo # <<>> =>
            Range(cpl_fifo) = Range(Tail(cpl_fifo)) \union {Head(cpl_fifo)}
      BY <3>2, PopFacts
    <3>4. QED
      BY <3>1, <3>3 DEF Returned
  <2>3. CASE EnableSimulation
    BY <2>3 DEF EnableSimulation, At, Fresh
  <2>4. CASE \/ LoopHead \/ LookUpTask \/ CheckFailure \/ WriteRegisters
             \/ CommitDescriptor \/ DisableSimulation \/ ManagerLeaves
    BY <2>4 DEF LoopHead, LookUpTask, CheckFailure, WriteRegisters, CommitDescriptor,
       DisableSimulation, ManagerLeaves, At, Fresh, Returned, InHand, deviceVars,
       WriteDescriptor, DescCommit
  <2>5. QED
    BY <2>1, <2>2, <2>3, <2>4
<1>4. QED
  BY <1>1, <1>2, <1>3, SilentContents

LEMMA RejectOrPollContents ==
  ASSUME Ownership, Contents, RejectCompletion \/ PollDescriptors
  PROVE  Contents'
<1>1. /\ UNCHANGED <<deviceVars, cpl, bufferVars, pc, job>>
      /\ Fresh' = Fresh /\ InHand' = {}
      /\ (\E message : Fail(message)) \/ UNCHANGED schedulerVars
  BY DEF RejectCompletion, PollDescriptors, OnlyManagerMoves, workerVars, At, Fresh, InHand
<1>2. CASE \E message : Fail(message)
  <2>1. failed' /\ UNCHANGED dst_slot
    BY <1>2, KeepsFail
  <2>2. \A t \in Tasks : stage'[t] = "kDone" => stage[t] = "kDone"
    BY <1>2 DEF Fail, Ignored, schedulerVars, taskVars
  <2>3. QED
    BY <1>1, <2>1, <2>2, FailingContents
<1>3. CASE UNCHANGED schedulerVars
  <2>1. UNCHANGED <<stage, src_slot, dst_slot, failed>>
    BY <1>3 DEF schedulerVars, taskVars
  <2>2. Fresh' => Returned' = {} \/ (Fresh /\ Returned' \subseteq Returned)
    BY <1>1 DEF Returned, deviceVars
  <2>3. QED
    BY <1>1, <2>1, <2>2, SilentContents
<1>4. QED
  BY <1>1, <1>2, <1>3

(* The completion in hand is for a task whose pixels are there. *)
LEMMA AcceptContents ==
  ASSUME Ownership, Contents, AcceptCompletion
  PROVE  Contents'
<1>1. /\ CompleteHardwareDecode(cpl.id)
      /\ UNCHANGED <<deviceVars, cpl, bufferVars, pc, job>>
      /\ manager = "complete" /\ manager' = "drain"
  BY DEF AcceptCompletion, At, OnlyManagerMoves, workerVars
<1>2. Fresh /\ Fresh' /\ cpl \in Returned /\ Returned' \subseteq Returned
  BY <1>1 DEF Fresh, Returned, InHand, deviceVars
<1>3. CASE Ignored
  BY <1>1, <1>2, <1>3, SilentContents DEF Ignored, schedulerVars, taskVars
<1>4. CASE Rejected
  BY <1>1, <1>2, <1>4, FailingContents DEF Rejected, taskVars
<1>5. CASE ~failed /\ DecodeCompleted(cpl.id)
  <2>1. cpl.id \in Tasks /\ \A w \in Busy : job[w] # cpl.id
    BY <1>2, LiveFacts DEF Live, Returned
  <2>2. DstHolds(cpl.id)
    BY <1>2, <1>5 DEF Contents, DeviceHolds
  <2>3. \A v \in Workers : pc'[v] \in {"loaded", "decoded", "post", "posted"} =>
           pc'[v] = pc[v] /\ job'[v] = job[v] /\ job[v] \in Tasks \ {cpl.id}
    BY <1>1, <2>1, JobFacts
  <2>4. QED
    BY <1>1, <1>2, <1>5, <2>1, <2>2, <2>3, DecodeCompletedContents
<1>6. QED
  BY <1>1, <1>3, <1>4, <1>5 DEF CompleteHardwareDecode

(* The task the manager takes from the queue is in nobody's hands. *)
LEMMA SubmitContents ==
  ASSUME Ownership, Contents, TryAcquireHardwareSubmitTask
  PROVE  Contents'
<1>1. /\ UNCHANGED <<deviceVars, cpl, src_buf, dst_buf, dumped, pc, job>>
      /\ manager = "acquire" /\ manager' \in {"poll", "loop"}
  BY DEF TryAcquireHardwareSubmitTask, At, OnlyManagerMoves, workerVars, bufferVars
<1>2. Fresh /\ Fresh' /\ Returned' = Returned
  BY <1>1 DEF Fresh, Returned, InHand, deviceVars
<1>3. CASE AcquireNoHardwareSubmit
  BY <1>1, <1>2, <1>3, SilentContents DEF AcquireNoHardwareSubmit, taskVars, bufferVars
<1>4. ASSUME NEW t \in Tasks, AcquireHardwareSubmit(t)
      PROVE  Contents'
  <2>1. ~failed
    BY <1>4 DEF AcquireHardwareSubmit, HwSubmitPossible
  <2>2. stage[t] = "kQueuedForHwSubmit"
    BY <1>4, AcquireStages
  <2>3. /\ \A v \in Busy : job[v] # t
        /\ \A e \in Returned : e.id # t
    BY <1>2, <2>1, <2>2, WaitingIsNobodys DEF HeldStages, Ownership, Owned, Live, Returned
  <2>4. /\ stage' = [stage EXCEPT ![t] = "kHwSubmitting"]
        /\ \A u \in Tasks \ {t} : dst_slot'[u] = dst_slot[u]
        /\ UNCHANGED <<src_slot, failed>>
    BY <1>4, BufferFacts DEF AcquireHardwareSubmit
  <2>5. stage'[t] = "kHwSubmitting" /\ src_buf[src_slot[t]] = t
    BY <2>1, <2>2, <2>4, BufferFacts DEF Contents, TasksHold, SrcHolds, LoadedStages
  <2>6. \A v \in Workers : pc'[v] \in {"loaded", "decoded", "post", "posted"} =>
           pc'[v] = pc[v] /\ job'[v] = job[v] /\ job[v] \in Tasks \ {t}
    BY <1>1, <2>3, JobFacts
  <2>7. MovesOn(t)
    BY <1>1, <1>2, <2>3, <2>4, <2>5, <2>6, BufferFacts DEF MovesOn, DecodedStages
  <2>8. QED
    BY <2>1, <2>7, OneTaskContents
<1>5. QED
  BY <1>3, <1>4 DEF TryAcquireHardwareSubmitTask

LEMMA FinishSubmitContents ==
  ASSUME Ownership, Contents, FinishSubmit
  PROVE  Contents'
<1> DEFINE t == submitting
<1>1. /\ CompleteHardwareSubmit(t)
      /\ UNCHANGED <<deviceVars, cpl, src_buf, dst_buf, dumped, pc, job>>
      /\ manager = "submit" /\ manager' = "loop"
  BY DEF FinishSubmit, At, OnlyManagerMoves, workerVars, bufferVars
<1>2. Fresh /\ Fresh' /\ Returned' = Returned
  BY <1>1 DEF Fresh, Returned, InHand, deviceVars
<1>3. t \in Tasks /\ \A w \in Busy : job[w] # t
  BY <1>1 DEF Ownership, ManagerOwns, Submitting, TypeOK, ThreadsTypeOK
<1>4. CASE Ignored
  BY <1>1, <1>2, <1>4, SilentContents DEF Ignored, schedulerVars, taskVars, bufferVars
<1>5. CASE Rejected
  BY <1>1, <1>2, <1>5, FailingContents DEF Rejected, taskVars, bufferVars
<1>6. CASE /\ ~failed /\ stage[t] = "kHwSubmitting"
           /\ stage' = [stage EXCEPT ![t] = "kHwInflight"]
           /\ UNCHANGED <<src_slot, dst_slot, failed>>
  <2>1. stage'[t] = "kHwInflight" /\ src_buf[src_slot[t]] = t
    BY <1>3, <1>6, BufferFacts DEF Contents, TasksHold, SrcHolds, LoadedStages
  <2>2. \A v \in Workers : pc'[v] \in {"loaded", "decoded", "post", "posted"} =>
           pc'[v] = pc[v] /\ job'[v] = job[v] /\ job[v] \in Tasks \ {t}
    BY <1>1, <1>3, JobFacts
  <2>3. MovesOn(t)
    BY <1>1, <1>2, <1>6, <2>1, <2>2, BufferFacts DEF MovesOn, DecodedStages
  <2> HIDE DEF t
  <2>4. QED
    BY <1>3, <1>6, <2>3, OneTaskContents
<1>7. QED
  BY <1>1, <1>4, <1>5, <1>6 DEF CompleteHardwareSubmit, DecodeEnds

LEMMA ManagerContents ==
  ASSUME Ownership, Contents, Manager
  PROVE  Contents'
BY LooksContents, RejectOrPollContents, AcceptContents, SubmitContents, FinishSubmitContents
DEF Manager

-----------------------------------------------------------------------------
(* The decoder cores *)

(* A core writes the pixels of its task to the task's own buffer. *)
LEMMA FinishDecodeContents ==
  ASSUME Ownership, Contents, NEW d \in Decoders, Accelerator(d), FinishDecode(d), Fresh,
         dst_buf' = [dst_buf EXCEPT ![slot_task[d].dst] = src_buf[slot_task[d].src]]
  PROVE  Contents'
<1> DEFINE t == slot_task[d].id
<1>1. /\ UNCHANGED <<stage, src_slot, dst_slot, failed, src_buf, dumped, pc, job, manager, cpl>>
      /\ slot_task[d] \in Live
  BY DEF Accelerator, schedulerVars, taskVars, workerVars, managerVars, FinishDecode, Live,
     RunningTasks, Running
<1>2. /\ t \in Tasks /\ HasSrc(t) /\ HasDst(t)
      /\ slot_task[d].src = src_slot[t] /\ slot_task[d].dst = dst_slot[t]
      /\ ~failed => stage[t] \in {"kHwSubmitting", "kHwInflight"}
      /\ \A w \in Busy : job[w] # t
  BY <1>1, LiveFacts
<1>3. dst_slot[t] \in DstSlotIds
  BY <1>2, BufferFacts DEF HasDst
<1>4. ~failed => dst_buf'[dst_slot[t]] = t
  BY <1>2, <1>3, BufferFacts DEF Contents, TasksHold, SrcHolds, LoadedStages
<1>5. \A u \in Tasks \ {t} : dst_buf[dst_slot[u]] = u => dst_buf'[dst_slot[u]] = u
  BY <1>2, <1>3, BufferFacts
<1>6. TasksHold' /\ DoneShown'
  BY <1>1, <1>2, <1>5 DEF Contents, TasksHold, DoneShown, SrcHolds, DstHolds, DecodedStages
<1>7. \A v \in Workers : pc[v] \in {"decoded", "post"} => job[v] \in Tasks \ {t}
  BY <1>2, JobFacts
<1>8. WorkersHold'
  BY <1>1, <1>5, <1>7 DEF Contents, WorkersHold, SrcHolds, DstHolds
<1>9. Returned' \subseteq Returned \union {slot_task[d]}
  <2>1. InHand' = InHand
    BY <1>1 DEF InHand
  <2>2. /\ cpl_fifo \in Seq(Descriptors \union {NoDesc})
        /\ slot_task[d] \in Descriptors \union {NoDesc}
    BY DEF Ownership, TypeOK, DeviceTypeOK
  <2>3. Range(Append(cpl_fifo, slot_task[d])) = Range(cpl_fifo) \union {slot_task[d]}
    BY <2>2, PushFacts
  <2>4. cpl_fifo' \in {cpl_fifo, Append(cpl_fifo, slot_task[d])}
    BY DEF FinishDecode
  <2>5. QED
    BY <2>1, <2>3, <2>4 DEF Returned
<1>10. ~failed => \A e \in Returned : e.id \in Tasks /\ dst_buf[dst_slot[e.id]] = e.id
  BY LiveFacts DEF Live, Returned, Contents, DeviceHolds, DstHolds
<1>11. ~failed => \A e \in Returned' : dst_buf'[dst_slot[e.id]] = e.id
  BY <1>4, <1>5, <1>9, <1>10
<1>12. DeviceHolds' /\ NothingOut'
  BY <1>1, <1>11 DEF DeviceHolds, DstHolds, NothingOut, Fresh
<1>13. QED
  BY <1>6, <1>8, <1>12 DEF Contents

(* A device that is still at the tasks of an earlier run writes somewhere,  *)
(* but there is nothing yet to overwrite.                                   *)
LEMMA LeftOverContents ==
  ASSUME Ownership, Contents, NEW d \in Decoders, Accelerator(d), ~Fresh
  PROVE  Contents'
<1>1. UNCHANGED <<stage, src_slot, dst_slot, failed, src_buf, dumped, pc, job, manager>>
  BY DEF Accelerator, schedulerVars, taskVars, workerVars, managerVars
<1>2. \A t \in Tasks : ~HasDst(t)
  BY DEF Contents, NothingOut
<1>3. TasksHold' /\ DoneShown'
  BY <1>1, <1>2, StageFacts DEF Contents, TasksHold, DoneShown, SrcHolds
<1>4. WorkersHold'
  BY <1>1, <1>2, JobFacts DEF Contents, WorkersHold, SrcHolds
<1>5. DeviceHolds' /\ NothingOut'
  BY <1>1, <1>2 DEF DeviceHolds, NothingOut, Fresh, HasDst
<1>6. QED
  BY <1>3, <1>4, <1>5 DEF Contents

LEMMA AcceleratorContents ==
  ASSUME Ownership, Contents, NEW d \in Decoders, Accelerator(d)
  PROVE  Contents'
<1>1. CASE ~Fresh
  BY <1>1, LeftOverContents
<1>2. CASE Fresh /\ (StartDecode(d) \/ DrainSource(d) \/ ReleaseSlot(d)) /\ UNCHANGED dst_buf
  <2>1. /\ UNCHANGED <<stage, src_slot, dst_slot, failed, bufferVars, pc, job>>
        /\ Fresh' = Fresh /\ Returned' = Returned
    BY <1>2 DEF Accelerator, schedulerVars, taskVars, workerVars, managerVars, bufferVars,
       StartDecode, DrainSource, ReleaseSlot, Fresh, Returned, InHand
  <2>2. QED
    BY <1>2, <2>1, SilentContents
<1>3. CASE Fresh /\ FinishDecode(d)
  <2>1. dst_buf' = [dst_buf EXCEPT ![slot_task[d].dst] = src_buf[slot_task[d].src]]
    BY <1>3 DEF Accelerator, Fresh, FinishDecode, StartDecode, DrainSource, ReleaseSlot
  <2>2. QED
    BY <1>3, <2>1, FinishDecodeContents
<1>4. QED
  BY <1>1, <1>2, <1>3 DEF Accelerator

-----------------------------------------------------------------------------
(* The buffers hold what they should, at every step. *)

LEMMA ContentsInit ==
  ASSUME Init
  PROVE  Contents
<1>1. /\ stage = [t \in Tasks |-> "kPendingLoad"]
      /\ dst_slot = [t \in Tasks |-> NoSlot]
      /\ pc = [w \in Workers |-> "acquire"]
  BY DEF Init, SchedulerInit
<1>2. TasksHold /\ DoneShown /\ NothingOut
  BY <1>1 DEF TasksHold, DoneShown, NothingOut, LoadedStages, DecodedStages, HasDst
<1>3. WorkersHold
  BY <1>1 DEF WorkersHold
<1>4. DeviceHolds
  <2>1. Fresh => cpl_fifo = <<>> /\ InHand = {}
    BY SchedulerAssumption DEF Init, Fresh, InHand, DeviceInit
  <2>2. QED
    BY <2>1, EmptyFacts DEF DeviceHolds, Returned
<1>5. QED
  BY <1>2, <1>3, <1>4 DEF Contents

LEMMA ContentsNext ==
  ASSUME Ownership, ModeOK, Contents, Next
  PROVE  Contents'
<1>1. CASE Main \/ Exited
  BY <1>1 DEF Main, Exited, vars, schedulerVars, taskVars, bufferVars, workerVars,
     managerVars, deviceVars, Contents, TasksHold, WorkersHold, DeviceHolds, DoneShown,
     NothingOut, SrcHolds, DstHolds, HasDst, Fresh, Returned, InHand
<1>2. QED
  BY <1>1, WorkerContents, ManagerContents, AcceleratorContents DEF Next

LEMMA ContentsStep ==
  ASSUME Ownership, ModeOK, Contents, [Next]_vars
  PROVE  Ownership' /\ ModeOK' /\ Contents'
<1>1. CASE Next
  BY <1>1, OwnershipNext, ModeNext, ContentsNext DEF Ownership, TypeOK
<1>2. CASE UNCHANGED vars
  <2>1. Contents'
    BY <1>2 DEF vars, schedulerVars, taskVars, bufferVars, workerVars, managerVars,
       deviceVars, Contents, TasksHold, WorkersHold, DeviceHolds, DoneShown, NothingOut,
       SrcHolds, DstHolds, HasDst, Fresh, Returned, InHand
  <2>2. ModeOK'
    BY <1>2 DEF vars, workerVars, managerVars, ModeOK, SwDecoding
  <2>3. QED
    BY <1>2, <2>1, <2>2, OwnershipStutter
<1>3. QED
  BY <1>1, <1>2

(* What is in the buffers at every step: LoadImageToDma, DecodeFrame, the   *)
(* cores and PostProcess use them outside mu_, and yet a task finds in its  *)
(* slots what the stage before it left there.                               *)
THEOREM ContentsInvariant == Spec => [](Ownership /\ ModeOK /\ Contents)
<1>1. Init => Ownership /\ ModeOK /\ Contents
  BY OwnershipInit, ModeInit, ContentsInit
<1>2. Ownership /\ ModeOK /\ Contents /\ [Next]_vars => (Ownership /\ ModeOK /\ Contents)'
  BY ContentsStep
<1>3. QED
  BY <1>1, <1>2, PTL DEF Spec

(* The pixels PostProcess prints for an image come from a buffer that holds *)
(* that image: no load, software decode or core has overwritten it, though  *)
(* all of them work outside mu_ and buffers go from task to task.           *)
THEOREM OwnImagesDumped == Spec => []OwnImageDumped
<1>1. Contents => OwnImageDumped
  BY DEF Contents, DoneShown, WorkersHold, OwnImageDumped
<1>2. QED
  BY <1>1, ContentsInvariant, PTL

-----------------------------------------------------------------------------
(* The kinds of steps, seen from the Scheduler *)

Quiet == UNCHANGED <<taskVars, failed>>

Prints(w) ==
  /\ pc[w] = "post" /\ HasDst(job[w])
  /\ dumped' = [dumped EXCEPT ![job[w]] = dst_buf[dst_slot[job[w]]]]
  /\ UNCHANGED exit_status

Submitted(t) ==
  /\ stage[t] = "kHwSubmitting"
  /\ stage' = [stage EXCEPT ![t] = "kHwInflight"]
  /\ UNCHANGED <<src_slot, dst_slot, next_load_index, num_done, failed>>

(* A method of the Scheduler that moves task t on. *)
MovesTask(t) ==
  \/ AcquirePostProcess(t)
  \/ AcquireSoftwareDecode(t)
  \/ AcquireLoad(t)
  \/ Mode = "hw" /\ AcquireHardwareSubmit(t)
  \/ ~failed /\ stage[t] = "kLoading" /\ LoadCompleted(t)
  \/ ~failed /\ Submitted(t)
  \/ ~failed /\ stage[t] \in {"kSwDecoding", "kHwInflight"} /\ DecodeCompleted(t)
  \/ /\ ~failed /\ stage[t] = "kPostProcessing" /\ HasDst(t) /\ dumped[t] = t
     /\ PostProcessCompleted(t)

FailsNow == ~failed /\ \E message : Fail(message)

StepKind ==
  \/ Quiet /\ UNCHANGED <<dumped, exit_status>>
  \/ Quiet /\ \E w \in Workers : Prints(w)
  \/ Main
  \/ UNCHANGED <<dumped, exit_status>> /\ \E t \in Tasks : MovesTask(t)
  \/ UNCHANGED <<dumped, exit_status>> /\ FailsNow

LEMMA FailKind ==
  ASSUME NEW message, Fail(message)
  PROVE  Quiet \/ FailsNow
BY DEF Fail, Ignored, schedulerVars, Quiet, FailsNow

LEMMA WorkerKind ==
  ASSUME Ownership, Contents, NoInternalFailure', NEW w \in Workers, Worker(w)
  PROVE  StepKind
<1>1. CASE AcquireCpuJob(w)
  BY <1>1 DEF AcquireCpuJob, AcquireNothing, AcquireWait, bufferVars, mainVars,
     schedulerVars, StepKind, Quiet, MovesTask
<1>2. CASE LoadImageToDma(w) \/ SoftwareDecodeJpeg(w) \/ PostProcess(w)
  <2>1. CASE \E message : WorkerFails(w, message)
    <3>1. UNCHANGED <<dumped, exit_status>> /\ \E message : Fail(message)
      BY <1>2, <2>1 DEF WorkerFails, bufferVars, LoadImageToDma, SoftwareDecodeJpeg,
         PostProcess
    <3>2. QED
      BY <3>1, FailKind DEF StepKind
  <2>2. CASE /\ UNCHANGED <<schedulerVars, exit_status>>
             /\ UNCHANGED dumped \/ Prints(w)
    BY <2>2 DEF StepKind, Quiet, schedulerVars
  <2>3. QED
    BY <1>2, <2>1, <2>2 DEF LoadImageToDma, SoftwareDecodeJpeg, PostProcess, Prints
<1>3. CASE CompleteJob(w)
  <2>1. /\ UNCHANGED <<dumped, exit_status>> /\ job[w] \in Tasks
        /\ pc[w] = "posted" => dumped[job[w]] = job[w]
    BY <1>3, JobFacts DEF CompleteJob, bufferVars, mainVars, Contents, WorkersHold
  <2>2. ~Rejected
    BY DEF Rejected, NoInternalFailure
  <2>3. Ignored \/ MovesTask(job[w])
    BY <1>3, <2>1, <2>2 DEF CompleteJob, CompleteLoad, CompleteSoftwareDecode,
       CompletePostProcess, DecodeEnds, MovesTask
  <2>4. Ignored => Quiet
    BY DEF Ignored, Quiet, schedulerVars
  <2>5. QED
    BY <2>1, <2>3, <2>4 DEF StepKind
<1>4. CASE WorkerLeaves(w)
  BY <1>4 DEF WorkerLeaves, bufferVars, schedulerVars, StepKind, Quiet
<1>5. QED
  BY <1>1, <1>2, <1>3, <1>4 DEF Worker

LEMMA ManagerKind ==
  ASSUME Ownership, ModeOK, Contents, NoInternalFailure', Manager
  PROVE  StepKind
<1>1. UNCHANGED <<dumped, exit_status>>
  BY DEF Manager, EnableSimulation, ResetDevice, LoopHead,
     TryPopCompletion, LookUpTask, RejectCompletion, AcceptCompletion, CheckFailure,
     TryAcquireHardwareSubmitTask, PollDescriptors, WriteRegisters,
     CommitDescriptor, FinishSubmit, DisableSimulation, ManagerLeaves, OnlyManagerMoves,
     bufferVars, mainVars
<1>2. Mode = "hw"
  BY DEF ModeOK, Manager, EnableSimulation, ResetDevice, LoopHead,
     TryPopCompletion, LookUpTask, RejectCompletion, AcceptCompletion, CheckFailure,
     TryAcquireHardwareSubmitTask, PollDescriptors, WriteRegisters,
     CommitDescriptor, FinishSubmit, DisableSimulation, ManagerLeaves, At
<1>3. ~Rejected
  BY DEF Rejected, NoInternalFailure
<1>4. Ignored => Quiet
  BY DEF Ignored, Quiet, schedulerVars
<1>5. CASE AcceptCompletion
  <2>1. Ignored \/ MovesTask(cpl.id)
    BY <1>3, <1>5 DEF AcceptCompletion, CompleteHardwareDecode, DecodeEnds, MovesTask
  <2>2. cpl.id \in Tasks
    BY <1>5 DEF AcceptCompletion, At, Ownership, TypeOK, ThreadsTypeOK
  <2>3. QED
    BY <1>1, <1>4, <2>1, <2>2 DEF StepKind
<1>6. CASE FinishSubmit
  <2>1. Ignored \/ MovesTask(submitting)
    BY <1>3, <1>6 DEF FinishSubmit, CompleteHardwareSubmit, DecodeEnds, MovesTask, Submitted
  <2>2. submitting \in Tasks
    BY <1>6 DEF FinishSubmit, At, Ownership, TypeOK, ThreadsTypeOK, Submitting
  <2>3. QED
    BY <1>1, <1>4, <2>1, <2>2 DEF StepKind
<1>7. CASE TryAcquireHardwareSubmitTask
  BY <1>1, <1>2, <1>7 DEF TryAcquireHardwareSubmitTask, AcquireNoHardwareSubmit, StepKind,
     Quiet, MovesTask
<1>8. CASE RejectCompletion \/ PollDescriptors
  <2>1. UNCHANGED schedulerVars \/ \E message : Fail(message)
    BY <1>8 DEF RejectCompletion, PollDescriptors
  <2>2. QED
    BY <1>1, <2>1, FailKind DEF StepKind, Quiet, schedulerVars
<1>9. CASE ~(\/ RejectCompletion \/ PollDescriptors \/ AcceptCompletion
             \/ FinishSubmit \/ TryAcquireHardwareSubmitTask)
  <2>1. UNCHANGED schedulerVars
    BY <1>9 DEF Manager, EnableSimulation, ResetDevice, LoopHead,
       TryPopCompletion, LookUpTask, CheckFailure, WriteRegisters,
       CommitDescriptor, DisableSimulation, ManagerLeaves
  <2>2. QED
    BY <1>1, <2>1 DEF StepKind, Quiet, schedulerVars
<1>10. QED
  BY <1>5, <1>6, <1>7, <1>8, <1>9

LEMMA StepKinds ==
  ASSUME Ownership, ModeOK, Contents, Next
  PROVE  StepKind
<1>1. NoInternalFailure'
  BY OwnershipNext DEF Ownership
<1>2. CASE (\E d \in Decoders : Accelerator(d)) \/ Exited
  BY <1>2 DEF Accelerator, Exited, vars, schedulerVars, bufferVars, mainVars, StepKind, Quiet
<1>3. CASE Main
  BY <1>3 DEF StepKind
<1>4. QED
  BY <1>1, <1>2, <1>3, WorkerKind, ManagerKind DEF Next

-----------------------------------------------------------------------------
(* What moving a task does to the counters *)

(* A move counts a task as done exactly when the task becomes done, and a   *)
(* load takes the task the index names.                                     *)
LEMMA MoveFacts ==
  ASSUME Ownership, NEW t \in Tasks, MovesTask(t)
  PROVE  /\ ~failed /\ ~failed' /\ stage[t] # "kDone"
         /\ \A u \in Tasks \ {t} : stage'[u] = "kDone" <=> stage[u] = "kDone"
         /\ stage'[t] = "kDone" => num_done' = num_done + 1
         /\ stage'[t] # "kDone" => num_done' = num_done
         /\ \/ next_load_index' = next_load_index
            \/ /\ next_load_index' = next_load_index + 1 /\ t = next_load_index
               /\ stage'[t] = "kLoading"
<1>1. CASE AcquirePostProcess(t) \/ AcquireSoftwareDecode(t) \/ AcquireHardwareSubmit(t)
  BY <1>1, AcquireStages, BufferFacts DEF AcquirePostProcess, AcquireSoftwareDecode,
     AcquireHardwareSubmit, AcquireAllowed, HwSubmitPossible
<1>2. CASE AcquireLoad(t)
  BY <1>2, AcquireStages, BufferFacts DEF AcquireLoad, AcquireAllowed
<1>3. CASE ~failed /\ stage[t] = "kLoading" /\ LoadCompleted(t)
  BY <1>3, BufferFacts DEF LoadCompleted, StageAfterLoad
<1>4. CASE ~failed /\ Submitted(t)
  BY <1>4, BufferFacts DEF Submitted
<1>5. CASE ~failed /\ stage[t] \in {"kSwDecoding", "kHwInflight"} /\ DecodeCompleted(t)
  BY <1>5, BufferFacts DEF DecodeCompleted
<1>6. CASE /\ ~failed /\ stage[t] = "kPostProcessing" /\ HasDst(t)
           /\ PostProcessCompleted(t)
  <2>1. SchedulerSound /\ UNCHANGED <<next_load_index, failed>> /\ num_done' = num_done + 1
    BY <1>6 DEF Ownership, PostProcessCompleted
  <2>2. QED
    BY <1>6, <2>1, PostProcessCompletedMoves
<1>7. QED
  BY <1>1, <1>2, <1>3, <1>4, <1>5, <1>6 DEF MovesTask

LEMMA TasksFinite == IsFiniteSet(Tasks) /\ Cardinality(Tasks) = NumTasks
<1>1. /\ 0 \in Int /\ NumTasks - 1 \in Int /\ ~(0 > NumTasks - 1)
      /\ NumTasks - 1 - 0 + 1 = NumTasks
  BY SchedulerAssumption
<1>2. QED
  BY <1>1, FS_Interval DEF Tasks

(* The counter and the set of done tasks grow together. *)
LEMMA DoneStep ==
  ASSUME Ownership, DoneCounted, StepKind
  PROVE  /\ DoneCounted' /\ Done \subseteq Done' /\ Done' \subseteq Tasks
         /\ AllWorkDoneLocked => AllWorkDoneLocked' /\ Done' = Tasks
<1>1. Done \subseteq Tasks /\ Done' \subseteq Tasks
  BY DEF Done
<1>2. AllWorkDoneLocked => Done = Tasks
  BY <1>1, TasksFinite, FS_Subset DEF AllWorkDoneLocked, DoneCounted
<1>3. CASE Done' = Done /\ num_done' = num_done
  BY <1>1, <1>2, <1>3 DEF DoneCounted, AllWorkDoneLocked
<1>4. ASSUME NEW t \in Tasks \ Done, Done' = Done \union {t}, num_done' = num_done + 1
      PROVE  DoneCounted'
  <2>1. IsFiniteSet(Done)
    BY <1>1, TasksFinite, FS_Subset
  <2>2. QED
    BY <1>4, <2>1, FS_AddElement DEF DoneCounted
<1>5. \/ Done' = Done /\ num_done' = num_done
      \/ \E t \in Tasks \ Done : Done' = Done \union {t} /\ num_done' = num_done + 1
  <2>1. CASE Quiet \/ Main
    BY <2>1 DEF Quiet, Main, schedulerVars, taskVars, Done
  <2>2. CASE FailsNow
    BY <2>2 DEF FailsNow, Fail, Ignored, Done
  <2>3. ASSUME NEW t \in Tasks, MovesTask(t)
        PROVE  \/ Done' = Done /\ num_done' = num_done
               \/ t \notin Done /\ Done' = Done \union {t} /\ num_done' = num_done + 1
    BY <2>3, MoveFacts DEF Done
  <2>4. QED
    BY <2>1, <2>2, <2>3 DEF StepKind
<1>6. QED
  BY <1>1, <1>2, <1>3, <1>4, <1>5

-----------------------------------------------------------------------------
(* How the program ends *)

LEMMA EndingInit ==
  ASSUME Init
  PROVE  Ending
<1>1. /\ stage = [t \in Tasks |-> "kPendingLoad"] /\ num_done = 0
      /\ pc = [w \in Workers |-> "acquire"]
      /\ workers_ok /\ hw_ok /\ exit_status = "running"
  BY DEF Init, SchedulerInit
<1>2. Done = {}
  BY <1>1 DEF Done
<1>3. DoneCounted
  BY <1>1, <1>2, FS_EmptySet DEF DoneCounted
<1>4. QED
  BY <1>1, <1>3 DEF Ending, LeavesAtEnd, FlagsHonest, SuccessAllDone

LEMMA FailedStays ==
  ASSUME Ownership, StepKind, failed
  PROVE  failed'
<1>1. ASSUME NEW t \in Tasks, MovesTask(t)
      PROVE  FALSE
  BY <1>1, MoveFacts
<1>2. QED
  BY <1>1 DEF StepKind, Quiet, Main, FailsNow, schedulerVars

LEMMA EndingNext ==
  ASSUME Ownership, StepKind, Ending, Next
  PROVE  Ending'
<1>1. /\ DoneCounted' /\ Done \subseteq Done' /\ Done' \subseteq Tasks
      /\ AllWorkDoneLocked => AllWorkDoneLocked' /\ Done' = Tasks
  BY DoneStep DEF Ending
<1>2. failed => failed'
  BY FailedStays
<1>3. LeavesAtEnd'
  <2>1. ASSUME NEW w \in Workers, pc'[w] \in {"leave", "stopped"},
               pc[w] \notin {"leave", "stopped"}
        PROVE  failed' \/ AllWorkDoneLocked
    <3>1. PICK v \in Workers : Worker(v)
      BY <2>1 DEF Next, Manager, EnableSimulation, ResetDevice, LoopHead,
         TryPopCompletion, LookUpTask, RejectCompletion, AcceptCompletion, CheckFailure,
         TryAcquireHardwareSubmitTask, PollDescriptors, WriteRegisters,
         CommitDescriptor, FinishSubmit, DisableSimulation, ManagerLeaves,
         OnlyManagerMoves, workerVars, Accelerator, Main, Exited, vars
    <3>2. CASE AcquireCpuJob(v)
      <4>1. AcquireNothing
        BY <2>1, <3>2, BufferFacts DEF AcquireCpuJob, Begin, Goto, workerVars
      <4>2. QED
        BY <1>2, <4>1 DEF AcquireNothing, AcquireAllowed
    <3>3. CASE LoadImageToDma(v) \/ SoftwareDecodeJpeg(v) \/ PostProcess(v)
      <4>1. \E message : Fail(message)
        BY <2>1, <3>3, BufferFacts DEF LoadImageToDma, SoftwareDecodeJpeg, PostProcess,
           WorkerFails, Goto
      <4>2. QED
        BY <4>1, KeepsFail
    <3>4. CASE CompleteJob(v) \/ WorkerLeaves(v)
      BY <2>1, <3>4, BufferFacts DEF CompleteJob, WorkerLeaves, Goto
    <3>5. QED
      BY <3>1, <3>2, <3>3, <3>4 DEF Worker
  <2>2. QED
    BY <1>1, <1>2, <2>1 DEF Ending, LeavesAtEnd
<1>4. FlagsHonest'
  <2>1. CASE Main
    BY <1>2, <2>1 DEF Main, Ending, FlagsHonest
  <2>2. CASE \E w \in Workers : Worker(w)
    <3>1. PICK w \in Workers : Worker(w)
      BY <2>2
    <3>2. /\ UNCHANGED <<hw_ok, exit_status>>
          /\ \/ UNCHANGED workers_ok
             \/ \E message : Fail(message)
             \/ workers_ok' = (workers_ok /\ ~failed)
      BY <3>1 DEF Worker, AcquireCpuJob, LoadImageToDma, SoftwareDecodeJpeg, PostProcess,
         WorkerFails, CompleteJob, WorkerLeaves, mainVars
    <3>3. QED
      BY <1>2, <3>2, KeepsFail DEF Ending, FlagsHonest
  <2>3. CASE Manager
    <3>1. UNCHANGED <<workers_ok, exit_status>> /\ (UNCHANGED hw_ok \/ hw_ok' = ~failed)
      BY <2>3 DEF Manager, EnableSimulation, ResetDevice, LoopHead,
         TryPopCompletion, LookUpTask, RejectCompletion, AcceptCompletion, CheckFailure,
         TryAcquireHardwareSubmitTask, PollDescriptors, WriteRegisters,
         CommitDescriptor, FinishSubmit, DisableSimulation, ManagerLeaves,
         OnlyManagerMoves, mainVars
    <3>2. QED
      BY <1>2, <3>1 DEF Ending, FlagsHonest
  <2>4. CASE (\E d \in Decoders : Accelerator(d)) \/ Exited
    BY <1>2, <2>4 DEF Accelerator, Exited, vars, mainVars, Ending, FlagsHonest
  <2>5. QED
    BY <2>1, <2>2, <2>3, <2>4 DEF Next
<1>5. SuccessAllDone'
  <2>1. CASE Main /\ exit_status' = "EXIT_SUCCESS"
    <3>1. ~failed /\ \E w \in Workers : pc[w] = "stopped"
      BY <2>1, DriverAssumption DEF Main
    <3>2. QED
      BY <1>1, <3>1 DEF Ending, LeavesAtEnd, SuccessAllDone
  <2>2. CASE UNCHANGED exit_status
    BY <1>1, <2>2 DEF Ending, SuccessAllDone
  <2>3. CASE exit_status' # "EXIT_SUCCESS"
    BY <2>3 DEF SuccessAllDone
  <2>4. QED
    BY <2>1, <2>2, <2>3 DEF StepKind, Prints
<1>6. QED
  BY <1>1, <1>3, <1>4, <1>5 DEF Ending

-----------------------------------------------------------------------------
(* Order, and what a failure leaves behind *)

LEMMA OrderedInit ==
  ASSUME Init
  PROVE  Ordered
BY SchedulerAssumption DEF Init, SchedulerInit, Ordered, LoadedInOrder, FailureEnds, Tasks

LEMMA OrderedNext ==
  ASSUME Ownership, ModeOK, Contents, StepKind, Ordered, Next
  PROVE  Ordered'
<1>1. LoadedInOrder'
  <2>1. \A u \in Tasks : stage'[u] = "kPendingLoad" => stage[u] = "kPendingLoad"
    BY NextAdvances DEF Advances, Pipeline
  <2>2. CASE next_load_index' = next_load_index
    BY <2>1, <2>2 DEF Ordered, LoadedInOrder
  <2>3. ASSUME NEW t \in Tasks, next_load_index' = next_load_index + 1,
               t = next_load_index, stage'[t] = "kLoading"
        PROVE  LoadedInOrder'
    <3>1. \A u \in Tasks : u < next_load_index' => u = t \/ u < next_load_index
      BY <2>3, SchedulerAssumption DEF Tasks
    <3>2. QED
      BY <2>1, <2>3, <3>1 DEF Ordered, LoadedInOrder
  <2>4. QED
    BY <2>2, <2>3, MoveFacts DEF StepKind, Quiet, Main, FailsNow, Fail, Ignored, schedulerVars,
       taskVars
<1>2. FailureEnds'
  <2> SUFFICES ASSUME failed'
               PROVE  FailureEnds'
    BY DEF FailureEnds
  <2>1. ~failed => FailsNow
    BY MoveFacts DEF StepKind, Quiet, Main, schedulerVars
  <2>2. \A u \in Tasks : /\ ~failed => stage'[u] \in {"kDone", "kFailed"}
                         /\ ~failed /\ stage[u] # "kDone" => stage'[u] = "kFailed"
                         /\ failed => stage'[u] = stage[u]
    <3>1. failed => UNCHANGED stage
      BY MoveFacts DEF StepKind, Quiet, Main, FailsNow, schedulerVars, taskVars
    <3>2. QED
      BY <2>1, <3>1 DEF FailsNow, Fail, Ignored
  <2>3. \A w \in Posting' : w \in Posting /\ job'[w] = job[w]
    <3>1. CASE Manager \/ (\E d \in Decoders : Accelerator(d)) \/ Main \/ Exited
      BY <3>1 DEF Manager, EnableSimulation, ResetDevice, LoopHead,
         TryPopCompletion, LookUpTask, RejectCompletion, AcceptCompletion, CheckFailure,
         TryAcquireHardwareSubmitTask, PollDescriptors, WriteRegisters,
         CommitDescriptor, FinishSubmit, DisableSimulation, ManagerLeaves,
         OnlyManagerMoves, workerVars, Accelerator, Main, Exited, vars, Posting
    <3>2. CASE \E v \in Workers : Worker(v)
      <4>1. PICK v \in Workers : Worker(v)
        BY <3>2
      <4>2. CASE AcquireCpuJob(v)
        <5>1. \A t : ~AcquirePostProcess(t)
          BY DEF AcquirePostProcess, AcquireAllowed
        <5>2. QED
          BY <4>2, <5>1, BufferFacts DEF AcquireCpuJob, Begin, Goto, workerVars, Posting
      <4>3. CASE LoadImageToDma(v) \/ SoftwareDecodeJpeg(v) \/ PostProcess(v)
        BY <4>3, BufferFacts DEF LoadImageToDma, SoftwareDecodeJpeg, PostProcess,
           WorkerFails, Goto, Posting
      <4>4. CASE CompleteJob(v) \/ WorkerLeaves(v)
        BY <4>4, BufferFacts DEF CompleteJob, WorkerLeaves, Goto, Posting
      <4>5. QED
        BY <4>1, <4>2, <4>3, <4>4 DEF Worker
    <3>3. QED
      BY <3>1, <3>2 DEF Next
  <2>4. \A w \in Posting : job[w] \in Tasks /\ (~failed => stage[job[w]] = "kPostProcessing")
    BY JobFacts DEF Posting
  <2>5. QED
    BY <2>2, <2>3, <2>4 DEF Ordered, FailureEnds
<1>3. QED
  BY <1>1, <1>2 DEF Ordered

-----------------------------------------------------------------------------
(* All of it is invariant. *)

Delivery == Ownership /\ ModeOK /\ Contents /\ Ending /\ Ordered

LEMMA DeliveryInvariant == Spec => []Delivery
<1>1. Init => Delivery
  BY OwnershipInit, ModeInit, ContentsInit, EndingInit, OrderedInit DEF Delivery
<1>2. Delivery /\ [Next]_vars => Delivery'
  <2>1. ASSUME Delivery, Next
        PROVE  Delivery'
    BY <2>1, ContentsStep, StepKinds, EndingNext, OrderedNext DEF Delivery
  <2>2. ASSUME Delivery, UNCHANGED vars
        PROVE  Delivery'
    <3>1. Ownership' /\ ModeOK' /\ Contents'
      BY <2>2, ContentsStep DEF Delivery
    <3>2. Ending' /\ Ordered'
      BY <2>2 DEF Delivery, vars, schedulerVars, taskVars, workerVars, mainVars, Ending,
         DoneCounted, Done, LeavesAtEnd, AllWorkDoneLocked, FlagsHonest, SuccessAllDone,
         Ordered, LoadedInOrder, FailureEnds, Posting
    <3>3. QED
      BY <3>1, <3>2 DEF Delivery
  <2>3. QED
    BY <2>1, <2>2
<1>3. QED
  BY <1>1, <1>2, PTL DEF Spec

(* main() returns EXIT_SUCCESS only when every image is done and has been   *)
(* printed, and EXIT_FAILURE only when a failure has been recorded: no      *)
(* thread leaves early, and none overwrites the flag of another.            *)
THEOREM ExitStatusIsHonest == Spec => []ExitStatusHonest
<1>1. Delivery => ExitStatusHonest
  BY DEF Delivery, Ending, SuccessAllDone, FlagsHonest, Done, Contents, DoneShown,
     ExitStatusHonest
<1>2. QED
  BY <1>1, DeliveryInvariant, PTL

-----------------------------------------------------------------------------
(* The driver implements ImageService. *)

LEMMA StatusFacts ==
  /\ Status("kPendingLoad") = "waiting"
  /\ Status("kLoading") = "loaded"
  /\ Status("kLoadedAwaitingDecode") = "loaded"
  /\ Status("kQueuedForHwSubmit") = "loaded"
  /\ Status("kHwSubmitting") = "decoding"
  /\ Status("kHwInflight") = "decoding"
  /\ Status("kQueuedForSwDecode") = "decoding"
  /\ Status("kSwDecoding") = "decoding"
  /\ Status("kDecoded") = "decoded"
  /\ Status("kPostProcessing") = "decoded"
  /\ Status("kDone") = "served"
  /\ Status("kFailed") = "given up"
BY DEF Status

StatusOf == [t \in Tasks |-> Status(stage[t])]

LEMMA ServiceInit ==
  ASSUME Init
  PROVE  Service!Init
<1>1. /\ stage = [t \in Tasks |-> "kPendingLoad"]
      /\ src_slot = [t \in Tasks |-> NoSlot]
      /\ dst_slot = [t \in Tasks |-> NoSlot]
      /\ dumped = [t \in Tasks |-> NoImage]
      /\ failed = FALSE /\ exit_status = "running"
  BY DEF Init, SchedulerInit
<1>2. StatusOf = [t \in Tasks |-> "waiting"]
  BY <1>1, StatusFacts DEF StatusOf
<1>3. QED
  BY <1>1, <1>2 DEF Service!Init, StatusOf

LEMMA StatusMoves ==
  ASSUME Ownership, NEW t \in Tasks, \A u \in Tasks \ {t} : stage'[u] = stage[u]
  PROVE  /\ StatusOf' = [StatusOf EXCEPT ![t] = Status(stage'[t])]
         /\ Status(stage'[t]) = Status(stage[t]) => StatusOf' = StatusOf
BY DEF StatusOf

(* The head of a pool is in no task's hands. *)
LEMMA FreeFacts ==
  ASSUME Ownership
  PROVE  /\ free_src_slots # <<>> =>
              /\ Head(free_src_slots) \in SrcSlotIds
              /\ \A t \in Tasks : src_slot[t] # Head(free_src_slots)
         /\ free_dst_slots # <<>> =>
              /\ Head(free_dst_slots) \in DstSlotIds
              /\ \A t \in Tasks : dst_slot[t] # Head(free_dst_slots)
<1>1. free_src_slots \in Seq(SrcSlotIds) /\ free_dst_slots \in Seq(DstSlotIds)
  BY DEF Ownership, SchedulerSound, SchedulerTypeOK
<1>2. \A t \in Tasks : /\ src_slot[t] \notin Range(free_src_slots)
                       /\ dst_slot[t] \notin Range(free_dst_slots)
  BY DEF Ownership, SchedulerSound, SlotsConserved, Partitioned
<1>3. free_src_slots # <<>> => /\ Head(free_src_slots) \in SrcSlotIds
                               /\ Head(free_src_slots) \in Range(free_src_slots)
  BY <1>1, PopFacts
<1>4. free_dst_slots # <<>> => /\ Head(free_dst_slots) \in DstSlotIds
                               /\ Head(free_dst_slots) \in Range(free_dst_slots)
  BY <1>1, PopFacts
<1>5. QED
  BY <1>2, <1>3, <1>4

(* Loading takes the next image in order and a free input. *)
LEMMA LoadTakes ==
  ASSUME Delivery, NEW t \in Tasks, AcquireLoad(t), UNCHANGED <<dumped, exit_status>>
  PROVE  Service!Next
<1> DEFINE b == Head(free_src_slots)
<1>1. /\ ~failed /\ ~failed' /\ UNCHANGED <<dst_slot, failed>> /\ t = next_load_index
      /\ src_slot' = [src_slot EXCEPT ![t] = b]
      /\ stage' = [stage EXCEPT ![t] = "kLoading"]
      /\ free_src_slots # <<>>
  BY DEF AcquireLoad, AcquireAllowed, CanLoad
<1>2. b \in SrcSlotIds /\ \A u \in Tasks : src_slot[u] # b
  BY <1>1, FreeFacts DEF Delivery
<1>3. stage[t] = "kPendingLoad" /\ StatusOf[t] = "waiting"
  BY AcquireStages, StatusFacts DEF StatusOf, Delivery
<1>4. \A u \in Tasks : u < t => StatusOf[u] # "waiting"
  <2>1. \A u \in Tasks : u < t => stage[u] \in Stages \ {"kPendingLoad"}
    BY <1>1, BufferFacts DEF Delivery, Ordered, LoadedInOrder
  <2>2. \A st \in Stages \ {"kPendingLoad"} : Status(st) # "waiting"
    BY StatusFacts DEF Stages
  <2>3. QED
    BY <2>1, <2>2 DEF StatusOf
<1>5. StatusOf' = [StatusOf EXCEPT ![t] = "loaded"]
  <2>1. stage'[t] = "kLoading" /\ \A u \in Tasks \ {t} : stage'[u] = stage[u]
    BY <1>1, BufferFacts DEF Delivery
  <2>2. QED
    <3>1. StatusOf' = [StatusOf EXCEPT ![t] = Status(stage'[t])]
      BY <2>1, StatusMoves DEF Delivery
    <3>2. QED
      BY <2>1, <3>1, StatusFacts
<1> HIDE DEF b
<1>6. Service!Take(t, b)
  BY <1>1, <1>2, <1>3, <1>4, <1>5 DEF Service!Take, Service!Free, StatusOf
<1>7. QED
  BY <1>2, <1>6 DEF Service!Next

(* A free destination goes to a loaded task. *)
LEMMA Pairs ==
  ASSUME Delivery, ~failed, NEW t \in Tasks, NEW to, free_dst_slots # <<>>,
         StatusOf[t] = "loaded", Status(to) = "decoding",
         stage' = [stage EXCEPT ![t] = to],
         dst_slot' = [dst_slot EXCEPT ![t] = Head(free_dst_slots)],
         UNCHANGED <<src_slot, failed, dumped, exit_status>>
  PROVE  Service!Next
<1> DEFINE b == Head(free_dst_slots)
<1>1. b \in DstSlotIds /\ \A u \in Tasks : dst_slot[u] # b
  BY FreeFacts DEF Delivery
<1>2. StatusOf' = [StatusOf EXCEPT ![t] = "decoding"]
  <2>1. stage'[t] = to /\ \A u \in Tasks \ {t} : stage'[u] = stage[u]
    BY BufferFacts DEF Delivery
  <2>2. QED
    BY <2>1, StatusMoves DEF Delivery
<1>3. dst_slot' = [dst_slot EXCEPT ![t] = b]
  OBVIOUS
<1> HIDE DEF b
<1>4. Service!Pair(t, b)
  BY <1>1, <1>2, <1>3 DEF Service!Pair, Service!Free, StatusOf
<1>5. QED
  BY <1>1, <1>4 DEF Service!Next

(* A step the service does not see. *)
LEMMA Hidden ==
  ASSUME StatusOf' = StatusOf, UNCHANGED <<src_slot, dst_slot, failed, dumped, exit_status>>
  PROVE  UNCHANGED Service!serviceVars
BY DEF Service!serviceVars, StatusOf

LEMMA LoadCompletedServes ==
  ASSUME Delivery, ~failed, NEW t \in Tasks, stage[t] = "kLoading", LoadCompleted(t),
         UNCHANGED <<dumped, exit_status>>
  PROVE  Service!Next \/ UNCHANGED Service!serviceVars
<1>1. /\ stage' = [stage EXCEPT ![t] = StageAfterLoad] /\ UNCHANGED <<src_slot, failed>>
      /\ StatusOf[t] = "loaded" /\ Status(stage[t]) = "loaded"
  BY StatusFacts DEF LoadCompleted, StatusOf
<1>2. CASE StageAfterLoad \in {"kQueuedForHwSubmit", "kLoadedAwaitingDecode"}
  <2>1. UNCHANGED dst_slot
    BY <1>2 DEF LoadCompleted
  <2>2. StatusOf' = StatusOf
    <3>1. stage'[t] = StageAfterLoad /\ \A u \in Tasks \ {t} : stage'[u] = stage[u]
      BY <1>1, BufferFacts DEF Delivery
    <3>2. Status(stage'[t]) = Status(stage[t])
      BY <1>1, <1>2, <3>1, StatusFacts
    <3>3. QED
      BY <3>1, <3>2, StatusMoves DEF Delivery
  <2>3. QED
    BY <1>1, <2>1, <2>2, Hidden
<1>3. CASE StageAfterLoad = "kQueuedForSwDecode"
  <2>1. dst_slot' = [dst_slot EXCEPT ![t] = Head(free_dst_slots)]
    BY <1>3 DEF LoadCompleted
  <2>2. free_dst_slots # <<>>
    BY <1>3, SchedulerAssumption DEF StageAfterLoad
  <2>3. QED
    BY <1>1, <1>3, <2>1, <2>2, Pairs, StatusFacts
<1>4. QED
  BY <1>2, <1>3 DEF LoadCompleted

LEMMA DecodeCompletedServes ==
  ASSUME Delivery, ~failed, NEW t \in Tasks, stage[t] \in {"kSwDecoding", "kHwInflight"},
         DecodeCompleted(t), UNCHANGED <<dumped, exit_status>>
  PROVE  Service!Next
<1>1. /\ stage' = [stage EXCEPT ![t] = "kDecoded"]
      /\ src_slot' = [src_slot EXCEPT ![t] = NoSlot]
      /\ UNCHANGED <<dst_slot, failed>>
  BY DEF DecodeCompleted
<1>2. StatusOf[t] = "decoding" /\ StatusOf' = [StatusOf EXCEPT ![t] = "decoded"]
  <2>1. stage'[t] = "kDecoded" /\ \A u \in Tasks \ {t} : stage'[u] = stage[u]
    BY <1>1, BufferFacts DEF Delivery
  <2>2. StatusOf' = [StatusOf EXCEPT ![t] = "decoded"]
    <3>1. StatusOf' = [StatusOf EXCEPT ![t] = Status(stage'[t])]
      BY <2>1, StatusMoves DEF Delivery
    <3>2. QED
      BY <2>1, <3>1, StatusFacts
  <2>3. QED
    BY <2>2, StatusFacts DEF StatusOf
<1>3. Service!Decode(t)
  BY <1>1, <1>2 DEF Service!Decode, StatusOf
<1>4. QED
  BY <1>3 DEF Service!Next

(* A task is done; its buffer is free or goes to one that waits.            *)
LEMMA PostProcessCompletedServes ==
  ASSUME Delivery, ~failed, NEW t \in Tasks, stage[t] = "kPostProcessing", HasDst(t),
         dumped[t] = t, PostProcessCompleted(t), UNCHANGED <<dumped, exit_status>>
  PROVE  Service!Next
<1>1. UNCHANGED <<src_slot, failed>> /\ SchedulerSound
  BY DEF PostProcessCompleted, Delivery, Ownership
<1>2. /\ stage'[t] = "kDone" /\ dst_slot'[t] = NoSlot
      /\ \/ \A u \in Tasks \ {t} : stage'[u] = stage[u] /\ dst_slot'[u] = dst_slot[u]
         \/ /\ Mode = "sw"
            /\ \E h \in Tasks \ {t} :
                 /\ stage[h] = "kLoadedAwaitingDecode"
                 /\ stage'[h] = "kQueuedForSwDecode" /\ dst_slot'[h] = dst_slot[t]
                 /\ \A u \in Tasks \ {t, h} : /\ stage'[u] = stage[u]
                                              /\ dst_slot'[u] = dst_slot[u]
  BY <1>1, PostProcessCompletedMoves
<1>3. /\ dst_slot \in [Tasks -> DstSlotIds \union {NoSlot}]
      /\ dst_slot' \in [Tasks -> DstSlotIds \union {NoSlot}]
  <2>1. SchedulerSound'
    BY <1>1, SoundCompletePostProcess DEF CompletePostProcess
  <2>2. QED
    BY <1>1, <2>1 DEF SchedulerSound, SchedulerTypeOK
<1>4. StatusOf[t] = "decoded" /\ StatusOf'[t] = "served"
  BY <1>2, StatusFacts DEF StatusOf
<1>5. CASE \A u \in Tasks \ {t} : stage'[u] = stage[u] /\ dst_slot'[u] = dst_slot[u]
  <2>1. StatusOf' = [StatusOf EXCEPT ![t] = "served"]
    BY <1>4, <1>5 DEF StatusOf
  <2>2. dst_slot' = [dst_slot EXCEPT ![t] = NoSlot]
    BY <1>2, <1>3, <1>5
  <2>3. Service!Serve(t)
    BY <1>1, <1>4, <2>1, <2>2 DEF Service!Serve, StatusOf
  <2>4. QED
    BY <2>3 DEF Service!Next
<1>6. ASSUME NEW h \in Tasks \ {t}, stage[h] = "kLoadedAwaitingDecode",
             stage'[h] = "kQueuedForSwDecode", dst_slot'[h] = dst_slot[t],
             \A u \in Tasks \ {t, h} : stage'[u] = stage[u] /\ dst_slot'[u] = dst_slot[u]
      PROVE  Service!Next
  <2>1. StatusOf[h] = "loaded" /\ StatusOf'[h] = "decoding"
    BY <1>6, StatusFacts DEF StatusOf
  <2>2. StatusOf' = [StatusOf EXCEPT ![t] = "served", ![h] = "decoding"]
    BY <1>4, <1>6, <2>1 DEF StatusOf
  <2>3. dst_slot' = [dst_slot EXCEPT ![t] = NoSlot, ![h] = dst_slot[t]]
    BY <1>2, <1>3, <1>6
  <2>4. Service!Serve(t)
    BY <1>1, <1>4, <2>1, <2>2, <2>3 DEF Service!Serve, StatusOf
  <2>5. QED
    BY <2>4 DEF Service!Next
<1>7. QED
  BY <1>2, <1>5, <1>6

(* Each kind of step of the driver is a step of the service, or none. *)
LEMMA MovesServe ==
  ASSUME Delivery, NEW t \in Tasks, MovesTask(t), UNCHANGED <<dumped, exit_status>>
  PROVE  Service!Next \/ UNCHANGED Service!serviceVars
<1>1. ~failed
  BY MoveFacts DEF Delivery
<1>2. CASE AcquirePostProcess(t) \/ AcquireSoftwareDecode(t) \/ Submitted(t)
  <2>1. \/ stage[t] = "kDecoded" /\ stage' = [stage EXCEPT ![t] = "kPostProcessing"]
        \/ stage[t] = "kQueuedForSwDecode" /\ stage' = [stage EXCEPT ![t] = "kSwDecoding"]
        \/ stage[t] = "kHwSubmitting" /\ stage' = [stage EXCEPT ![t] = "kHwInflight"]
    BY <1>2, AcquireStages DEF AcquirePostProcess, AcquireSoftwareDecode, Submitted, Delivery
  <2>2. /\ Status(stage'[t]) = Status(stage[t])
        /\ \A u \in Tasks \ {t} : stage'[u] = stage[u]
    BY <2>1, BufferFacts, StatusFacts DEF Delivery
  <2>3. StatusOf' = StatusOf
    BY <2>2, StatusMoves DEF Delivery
  <2>4. UNCHANGED <<src_slot, dst_slot, failed>>
    BY <1>2 DEF AcquirePostProcess, AcquireSoftwareDecode, Submitted
  <2>5. QED
    BY <2>3, <2>4, Hidden
<1>3. CASE AcquireLoad(t)
  BY <1>3, LoadTakes
<1>4. CASE AcquireHardwareSubmit(t)
  <2>1. /\ stage' = [stage EXCEPT ![t] = "kHwSubmitting"]
        /\ dst_slot' = [dst_slot EXCEPT ![t] = Head(free_dst_slots)]
        /\ UNCHANGED <<src_slot, failed>> /\ free_dst_slots # <<>>
    BY <1>4 DEF AcquireHardwareSubmit, HwSubmitPossible
  <2>2. StatusOf[t] = "loaded" /\ Status("kHwSubmitting") = "decoding"
    BY <1>4, AcquireStages, StatusFacts DEF StatusOf, Delivery
  <2>3. QED
    BY <1>1, <2>1, <2>2, Pairs
<1>5. CASE ~failed /\ stage[t] = "kLoading" /\ LoadCompleted(t)
  BY <1>5, LoadCompletedServes
<1>6. CASE ~failed /\ stage[t] \in {"kSwDecoding", "kHwInflight"} /\ DecodeCompleted(t)
  BY <1>6, DecodeCompletedServes
<1>7. CASE /\ ~failed /\ stage[t] = "kPostProcessing" /\ HasDst(t) /\ dumped[t] = t
           /\ PostProcessCompleted(t)
  BY <1>7, PostProcessCompletedServes
<1>8. QED
  BY <1>2, <1>3, <1>4, <1>5, <1>6, <1>7 DEF MovesTask

LEMMA PrintsShow ==
  ASSUME Delivery, Quiet, NEW w \in Workers, Prints(w)
  PROVE  Service!Next
<1> DEFINE t == job[w]
<1>1. /\ t \in Tasks /\ w \in Posting /\ HasDst(t)
      /\ ~failed => stage[t] = "kPostProcessing"
  BY JobFacts DEF Prints, Posting, Delivery
<1>2. failed => stage[t] = "kFailed"
  BY <1>1 DEF Delivery, Ordered, FailureEnds
<1>3. StatusOf[t] \in {"decoded", "given up"}
  BY <1>1, <1>2, StatusFacts DEF StatusOf
<1>4. dst_buf[dst_slot[t]] = t
  BY DEF Prints, Delivery, Contents, WorkersHold, DstHolds
<1>5. dumped' = [dumped EXCEPT ![t] = t] /\ UNCHANGED exit_status
  BY <1>4 DEF Prints
<1>6. StatusOf' = StatusOf /\ UNCHANGED <<src_slot, dst_slot, failed>>
  BY DEF Quiet, taskVars, StatusOf
<1> HIDE DEF t
<1>7. Service!Show(t)
  BY <1>1, <1>3, <1>5, <1>6 DEF Service!Show, HasDst, StatusOf
<1>8. QED
  BY <1>1, <1>7 DEF Service!Next

LEMMA FailsGiveUp ==
  ASSUME Delivery, FailsNow, UNCHANGED <<dumped, exit_status>>
  PROVE  Service!Next
<1>1. /\ ~failed /\ failed' = TRUE /\ UNCHANGED <<src_slot, dst_slot>>
      /\ stage' = [t \in Tasks |-> IF stage[t] = "kDone" THEN "kDone" ELSE "kFailed"]
  BY DEF FailsNow, Fail, Ignored
<1>2. \A st \in Stages : Status(st) = "served" <=> st = "kDone"
  BY StatusFacts DEF Stages
<1>3. \A t \in Tasks : StatusOf'[t] = IF StatusOf[t] = "served" THEN "served" ELSE "given up"
  BY <1>1, <1>2, BufferFacts, StatusFacts DEF StatusOf, Delivery
<1>4. StatusOf' = [t \in Tasks |-> IF StatusOf[t] = "served" THEN "served" ELSE "given up"]
  BY <1>3 DEF StatusOf
<1>5. Service!GiveUp
  BY <1>1, <1>4 DEF Service!GiveUp, StatusOf
<1>6. QED
  BY <1>5 DEF Service!Next

LEMMA MainEnds ==
  ASSUME Delivery, Delivery', Main
  PROVE  Service!Next
<1>1. /\ UNCHANGED <<stage, src_slot, dst_slot, dumped, failed>> /\ exit_status = "running"
      /\ exit_status' \in {"EXIT_SUCCESS", "EXIT_FAILURE"}
  BY DEF Main, schedulerVars, taskVars, bufferVars
<1>2. exit_status' = "EXIT_SUCCESS" => \A t \in Tasks : stage[t] = "kDone"
  BY <1>1 DEF Delivery, Ending, SuccessAllDone, Done
<1>3. exit_status' = "EXIT_FAILURE" => failed
  BY <1>1 DEF Delivery, Ending, FlagsHonest
<1>4. exit_status' = "EXIT_SUCCESS" => \A t \in Tasks : StatusOf[t] = "served"
  BY <1>2, StatusFacts DEF StatusOf
<1>5. StatusOf' = StatusOf
  BY <1>1 DEF StatusOf
<1>6. Service!End
  BY <1>1, <1>3, <1>4, <1>5 DEF Service!End, StatusOf
<1>7. QED
  BY <1>6 DEF Service!Next

(* Every behaviour of the threads, the queues and the device, in both       *)
(* modes, is one of ImageService under the refinement mapping of Service.   *)
THEOREM DriverIsService == Spec => ImplementsService
<1>1. Init => Service!Init
  BY ServiceInit
<1>2. Delivery /\ Delivery' /\ [Next]_vars => [Service!Next]_(Service!serviceVars)
  <2>1. ASSUME UNCHANGED vars
        PROVE  UNCHANGED Service!serviceVars
    BY <2>1, Hidden DEF vars, schedulerVars, taskVars, bufferVars, mainVars, StatusOf
  <2>2. ASSUME Delivery, Delivery', Next
        PROVE  Service!Next \/ UNCHANGED Service!serviceVars
    <3>1. StepKind
      BY <2>2, StepKinds DEF Delivery
    <3>2. CASE Quiet /\ UNCHANGED <<dumped, exit_status>>
      BY <3>2, Hidden DEF Quiet, taskVars, StatusOf
    <3>3. QED
      BY <2>2, <3>1, <3>2, PrintsShow, MainEnds, MovesServe, FailsGiveUp DEF StepKind
  <2>3. QED
    BY <2>1, <2>2
<1>3. QED
  BY <1>1, <1>2, DeliveryInvariant, PTL DEF Spec, ImplementsService, Service!Spec

-----------------------------------------------------------------------------
(* The accelerator under the driver is a decode service.  What goes into    *)
(* the FIFOs and the slots are descriptors: an earlier program's, or those  *)
(* the manager has written whole before it commits them.                    *)
DeviceServes ==
  /\ desc_fifo \in Seq(Descriptors) /\ cpl_fifo \in Seq(Descriptors)
  /\ \A d \in Running : slot_task[d] \in Descriptors

OnlyRegisters == UNCHANGED <<desc_fifo, cpl_fifo, slot_state, slot_task, cpl>>

HostSteps ==
  \/ DescCommit /\ UNCHANGED cpl /\ mmio_desc \in Descriptors
  \/ PopCompletion /\ cpl' = Head(cpl_fifo)
  \/ MmioReset /\ UNCHANGED cpl

LEMMA CommitsDescriptors ==
  ASSUME Ownership, manager = "commit"
  PROVE  mmio_desc \in Descriptors
<1>1. /\ submitting \in Tasks /\ HasSrc(submitting) /\ HasDst(submitting)
      /\ mmio_desc = Descriptor(submitting)
      /\ src_slot \in [Tasks -> SrcSlotIds \union {NoSlot}]
      /\ dst_slot \in [Tasks -> DstSlotIds \union {NoSlot}]
  BY DEF Ownership, ManagerOwns, TypeOK, ThreadsTypeOK, Submitting, SchedulerTypeOK
<1>2. Descriptor(submitting) \in [id : Tasks, src : SrcSlotIds, dst : DstSlotIds]
  BY <1>1 DEF Descriptor, HasSrc, HasDst
<1>3. [id : Tasks, src : SrcSlotIds, dst : DstSlotIds] \subseteq Descriptors
  BY DriverAssumption
<1> HIDE DEF Descriptor
<1>4. QED
  BY <1>1, <1>2, <1>3, Zenon

(* What a step of the driver is to the device. *)
LEMMA DeviceSteps ==
  ASSUME Ownership, Next
  PROVE  \/ OnlyRegisters
         \/ HostSteps
         \/ \E d \in Decoders : SlotStep(d) /\ UNCHANGED cpl
<1>1. ASSUME NEW w \in Workers, Worker(w)
      PROVE  OnlyRegisters
  BY <1>1 DEF Worker, AcquireCpuJob, LoadImageToDma, SoftwareDecodeJpeg, PostProcess,
     CompleteJob, WorkerLeaves, managerVars, deviceVars, OnlyRegisters
<1>2. ASSUME Manager
      PROVE  OnlyRegisters \/ HostSteps
  <2>1. CASE CommitDescriptor
    BY <2>1, CommitsDescriptors DEF CommitDescriptor, At, HostSteps
  <2>2. CASE WriteRegisters
    BY <2>2 DEF WriteRegisters, WriteDescriptor, OnlyRegisters
  <2>3. CASE ResetDevice \/ TryPopCompletion
    BY <2>3 DEF ResetDevice, TryPopCompletion, HostSteps, deviceVars, OnlyRegisters
  <2>4. CASE ~(CommitDescriptor \/ WriteRegisters \/ ResetDevice \/ TryPopCompletion)
    BY <1>2, <2>4 DEF Manager, EnableSimulation, LoopHead, LookUpTask, RejectCompletion,
       AcceptCompletion, CheckFailure, TryAcquireHardwareSubmitTask, PollDescriptors,
       FinishSubmit, DisableSimulation, ManagerLeaves, deviceVars, OnlyRegisters
  <2>5. QED
    BY <2>1, <2>2, <2>3, <2>4
<1>3. ASSUME NEW d \in Decoders, Accelerator(d)
      PROVE  SlotStep(d) /\ UNCHANGED cpl
  BY <1>3 DEF Accelerator, SlotStep, managerVars
<1>4. ASSUME Main \/ Exited
      PROVE  OnlyRegisters
  BY <1>4 DEF Main, Exited, vars, managerVars, deviceVars, OnlyRegisters
<1>5. QED
  BY <1>1, <1>2, <1>3, <1>4 DEF Next
(* The images the decoders are at. *)
WorkOf == [d \in Decoders |-> IF slot_state[d] = "SLOT_RUN" THEN slot_task[d] ELSE NoDesc]

LEMMA Served ==
  ASSUME NEW o \in Device!Optional(Descriptors), NEW b \in Device!Optional(Decoders),
         NEW e \in Device!Optional(Decoders), NEW asks \in BOOLEAN,
         o # <<>> => Len(desc_fifo) < DescFifoDepth,
         b # <<>> => desc_fifo # <<>> /\ WorkOf[b[1]] = NoDesc,
         e # <<>> => WorkOf[e[1]] # NoDesc,
         asks => cpl_fifo # <<>>,
         desc_fifo' = Device!Rest(desc_fifo, b # <<>>) \o o,
         \A d \in Decoders : WorkOf'[d] = CASE b = <<d>> -> Head(desc_fifo)
                                           [] e = <<d>> -> NoDesc
                                           [] OTHER -> WorkOf[d],
         cpl_fifo' = Device!Rest(cpl_fifo, asks) \o
           (IF e # <<>> /\ Len(cpl_fifo) < DescFifoDepth THEN <<WorkOf[e[1]]>> ELSE <<>>),
         cpl' = IF asks THEN Head(cpl_fifo) ELSE cpl
  PROVE  Device!Next
<1>1. WorkOf' = [d \in Decoders |-> CASE b = <<d>> -> Head(desc_fifo)
                                      [] e = <<d>> -> NoDesc
                                      [] OTHER -> WorkOf[d]]
  BY DEF WorkOf
<1>2. Device!Serve(o, b, e, asks)
  BY <1>1 DEF Device!Serve, WorkOf
<1>3. QED
  BY <1>2 DEF Device!Next

LEMMA WorkFacts ==
  ASSUME DeviceServes, NEW d \in Decoders
  PROVE  /\ WorkOf[d] = IF slot_state[d] = "SLOT_RUN" THEN slot_task[d] ELSE NoDesc
         /\ slot_state[d] = "SLOT_RUN" => slot_task[d] \in Descriptors
         /\ WorkOf[d] # NoDesc <=> slot_state[d] = "SLOT_RUN"
BY DeviceAssumption DEF WorkOf, DeviceServes, Running

LEMMA Unseen ==
  ASSUME OnlyRegisters
  PROVE  UNCHANGED Device!decodeVars /\ (DeviceServes => DeviceServes')
BY DEF OnlyRegisters, Device!decodeVars, DeviceServes, Running

LEMMA CommitServes ==
  ASSUME DeviceServes, DescCommit, UNCHANGED cpl, mmio_desc \in Descriptors
  PROVE  DeviceServes' /\ Device!Next
<1> DEFINE order == IF DescNumFree > 0 THEN <<mmio_desc>> ELSE <<>>
<1>1. PICK o : o = order
  OBVIOUS
<1>2. /\ Len(desc_fifo) \in Nat /\ DescFifoDepth \in Nat
      /\ o # <<>> => Len(desc_fifo) < DescFifoDepth
  BY <1>1, DeviceAssumption DEF DeviceServes, DescNumFree
<1>3. desc_fifo' = desc_fifo \o o
  BY <1>1, AppendIsConcat, ConcatEmptySeq DEF DescCommit, DeviceServes
<1>4. DeviceServes'
  BY DEF DescCommit, DeviceServes, Running
<1>5. o \in Device!Optional(Descriptors)
  BY <1>1 DEF Device!Optional
<1>6. \A d \in Decoders : WorkOf'[d] = WorkOf[d]
  BY DEF DescCommit, WorkOf
<1>7. PICK none : none = <<>> /\ none \in Device!Optional(Decoders)
  BY DEF Device!Optional
<1>8. PICK no : no = FALSE /\ no \in BOOLEAN
  OBVIOUS
<1>9. /\ desc_fifo' = Device!Rest(desc_fifo, none # <<>>) \o o
      /\ cpl' = IF no THEN Head(cpl_fifo) ELSE cpl
  BY <1>3, <1>7, <1>8 DEF Device!Rest
<1>10. cpl_fifo' = Device!Rest(cpl_fifo, no) \o
         (IF none # <<>> /\ Len(cpl_fifo) < DescFifoDepth THEN <<WorkOf[none[1]]>> ELSE <<>>)
  BY <1>7, <1>8, ConcatEmptySeq DEF Device!Rest, DescCommit, DeviceServes
<1>11. \A d \in Decoders : WorkOf'[d] = CASE none = <<d>> -> Head(desc_fifo)
                                          [] none = <<d>> -> NoDesc
                                          [] OTHER -> WorkOf[d]
  BY <1>6, <1>7
<1> HIDE DEF order
<1>12. Device!Next
  BY <1>2, <1>5, <1>7, <1>8, <1>9, <1>10, <1>11, Served
<1>13. QED
  BY <1>4, <1>12
LEMMA PopServes ==
  ASSUME DeviceServes, PopCompletion, cpl' = Head(cpl_fifo)
  PROVE  DeviceServes' /\ Device!Next
<1>1. PICK none : none = <<>> /\ none \in Device!Optional(Decoders)
                  /\ none \in Device!Optional(Descriptors)
  BY DEF Device!Optional
<1>2. PICK yes : yes = TRUE /\ yes \in BOOLEAN
  OBVIOUS
<1>3. /\ desc_fifo' = Device!Rest(desc_fifo, none # <<>>) \o none
      /\ cpl' = IF yes THEN Head(cpl_fifo) ELSE cpl
      /\ yes => cpl_fifo # <<>>
  BY <1>1, <1>2, ConcatEmptySeq DEF Device!Rest, PopCompletion, DeviceServes
<1>4. cpl_fifo' = Device!Rest(cpl_fifo, yes) \o
        (IF none # <<>> /\ Len(cpl_fifo) < DescFifoDepth THEN <<WorkOf[none[1]]>> ELSE <<>>)
  <2>1. cpl_fifo' = Tail(cpl_fifo) /\ Tail(cpl_fifo) \in Seq(Descriptors)
    BY DEF PopCompletion, DeviceServes
  <2>2. QED
    BY <1>1, <1>2, <2>1, ConcatEmptySeq DEF Device!Rest
<1>5. \A d \in Decoders : WorkOf'[d] = CASE none = <<d>> -> Head(desc_fifo)
                                         [] none = <<d>> -> NoDesc
                                         [] OTHER -> WorkOf[d]
  BY <1>1 DEF PopCompletion, WorkOf
<1>6. DeviceServes'
  BY DEF PopCompletion, DeviceServes, Running
<1>7. Device!Next
  BY <1>1, <1>2, <1>3, <1>4, <1>5, Served
<1>8. QED
  BY <1>6, <1>7

LEMMA DeviceForgets ==
  ASSUME MmioReset, UNCHANGED cpl
  PROVE  DeviceServes' /\ Device!Next
<1>1. \A d \in Decoders : slot_state'[d] # "SLOT_RUN"
  BY DEF MmioReset
<1>2. DeviceServes'
  BY <1>1 DEF MmioReset, DeviceServes, Running
<1>3. WorkOf' = [d \in Decoders |-> NoDesc]
  BY <1>1 DEF WorkOf
<1>4. Device!Reset
  BY <1>3 DEF MmioReset, Device!Reset, WorkOf
<1>5. QED
  BY <1>2, <1>4 DEF Device!Next

LEMMA StartServes ==
  ASSUME DeviceServes, DeviceTypeOK, NEW d \in Decoders, StartDecode(d), UNCHANGED cpl
  PROVE  DeviceServes' /\ Device!Next
<1>1. PICK none : none = <<>> /\ none \in Device!Optional(Decoders)
                  /\ none \in Device!Optional(Descriptors)
  BY DEF Device!Optional
<1>2. PICK no : no = FALSE /\ no \in BOOLEAN
  OBVIOUS
<1>3. PICK b : b = <<d>> /\ b \in Device!Optional(Decoders)
  BY DEF Device!Optional
<1>4. /\ desc_fifo # <<>> /\ desc_fifo \in Seq(Descriptors)
      /\ Head(desc_fifo) \in Descriptors /\ Tail(desc_fifo) \in Seq(Descriptors)
  BY DEF StartDecode, DeviceServes
<1>5. /\ slot_state'[d] = "SLOT_RUN" /\ slot_task'[d] = Head(desc_fifo)
      /\ slot_state[d] = "SLOT_IDLE"
      /\ \A s \in Decoders \ {d} : slot_state'[s] = slot_state[s] /\ slot_task'[s] = slot_task[s]
  BY DEF StartDecode, DeviceTypeOK
<1>6. DeviceServes'
  BY <1>4, <1>5 DEF StartDecode, DeviceServes, Running
<1>7. b # <<>> => desc_fifo # <<>> /\ WorkOf[b[1]] = NoDesc
  BY <1>3, <1>4, <1>5 DEF WorkOf
<1>8. /\ desc_fifo' = Device!Rest(desc_fifo, b # <<>>) \o none
      /\ cpl' = IF no THEN Head(cpl_fifo) ELSE cpl
  BY <1>1, <1>2, <1>3, <1>4, ConcatEmptySeq DEF Device!Rest, StartDecode
<1>9. cpl_fifo' = Device!Rest(cpl_fifo, no) \o
        (IF none # <<>> /\ Len(cpl_fifo) < DescFifoDepth THEN <<WorkOf[none[1]]>> ELSE <<>>)
  BY <1>1, <1>2, ConcatEmptySeq DEF Device!Rest, StartDecode, DeviceServes
<1>10. ASSUME NEW s \in Decoders
       PROVE  WorkOf'[s] = CASE b = <<s>> -> Head(desc_fifo)
                             [] none = <<s>> -> NoDesc
                             [] OTHER -> WorkOf[s]
  <2>1. b = <<s>> <=> s = d
    BY <1>3
  <2>2. none # <<s>>
    BY <1>1
  <2>3. WorkOf'[s] = IF s = d THEN Head(desc_fifo) ELSE WorkOf[s]
    BY <1>5 DEF WorkOf
  <2>4. QED
    BY <2>1, <2>2, <2>3
<1>11. Device!Next
  BY <1>1, <1>2, <1>3, <1>7, <1>8, <1>9, <1>10, Served
<1>12. QED
  BY <1>6, <1>11

LEMMA FinishServes ==
  ASSUME DeviceServes, DeviceTypeOK, NEW d \in Decoders, FinishDecode(d), UNCHANGED cpl
  PROVE  DeviceServes' /\ Device!Next
<1>1. PICK none : none = <<>> /\ none \in Device!Optional(Decoders)
                  /\ none \in Device!Optional(Descriptors)
  BY DEF Device!Optional
<1>2. PICK no : no = FALSE /\ no \in BOOLEAN
  OBVIOUS
<1>3. PICK e : e = <<d>> /\ e \in Device!Optional(Decoders)
  BY DEF Device!Optional
<1>4. /\ slot_state[d] = "SLOT_RUN" /\ slot_state'[d] # "SLOT_RUN"
      /\ \A s \in Decoders \ {d} : slot_state'[s] = slot_state[s]
      /\ UNCHANGED <<slot_task, desc_fifo>>
  BY DEF FinishDecode, DeviceTypeOK
<1>5. slot_task[d] \in Descriptors /\ WorkOf[d] = slot_task[d] /\ WorkOf[d] # NoDesc
  BY <1>4, WorkFacts
<1>6. e # <<>> => WorkOf[e[1]] # NoDesc
  BY <1>3, <1>5
<1>7. /\ desc_fifo' = Device!Rest(desc_fifo, none # <<>>) \o none
      /\ cpl' = IF no THEN Head(cpl_fifo) ELSE cpl
  BY <1>1, <1>2, <1>4, ConcatEmptySeq DEF Device!Rest, DeviceServes
<1>8. cpl_fifo' = Device!Rest(cpl_fifo, no) \o
        (IF e # <<>> /\ Len(cpl_fifo) < DescFifoDepth THEN <<WorkOf[e[1]]>> ELSE <<>>)
  <2>1. cpl_fifo' = IF Len(cpl_fifo) < DescFifoDepth THEN Append(cpl_fifo, slot_task[d])
                    ELSE cpl_fifo
    BY DEF FinishDecode
  <2>2. e # <<>> /\ WorkOf[e[1]] = slot_task[d]
    BY <1>3, <1>5
  <2>3. QED
    BY <1>2, <1>5, <2>1, <2>2, AppendIsConcat, ConcatEmptySeq DEF Device!Rest, DeviceServes
<1>9. ASSUME NEW s \in Decoders
      PROVE  WorkOf'[s] = CASE none = <<s>> -> Head(desc_fifo)
                            [] e = <<s>> -> NoDesc
                            [] OTHER -> WorkOf[s]
  <2>1. e = <<s>> <=> s = d
    BY <1>3
  <2>2. none # <<s>>
    BY <1>1
  <2>3. WorkOf'[s] = IF s = d THEN NoDesc ELSE WorkOf[s]
    BY <1>4 DEF WorkOf
  <2>4. QED
    BY <2>1, <2>2, <2>3
<1>10. DeviceServes'
  BY <1>4, <1>5 DEF FinishDecode, DeviceServes, Running
<1>11. Device!Next
  BY <1>1, <1>2, <1>3, <1>6, <1>7, <1>8, <1>9, Served
<1>12. QED
  BY <1>10, <1>11

(* What a slot does between two images the host does not see. *)
LEMMA WindsDown ==
  ASSUME DeviceServes, DeviceTypeOK, NEW d \in Decoders, DrainSource(d) \/ ReleaseSlot(d),
         UNCHANGED cpl
  PROVE  DeviceServes' /\ UNCHANGED Device!decodeVars
<1>1. /\ slot_state[d] # "SLOT_RUN" /\ slot_state'[d] # "SLOT_RUN"
      /\ \A s \in Decoders \ {d} : slot_state'[s] = slot_state[s]
      /\ UNCHANGED <<slot_task, desc_fifo, cpl_fifo>>
  BY DEF DrainSource, ReleaseSlot, DeviceTypeOK
<1>2. WorkOf' = WorkOf
  BY <1>1 DEF WorkOf
<1>3. QED
  BY <1>1, <1>2 DEF DeviceServes, Running, Device!decodeVars, WorkOf

(* Every behaviour of the driver, with whatever an earlier program left in  *)
(* the device, is one of DecodeService seen from the FIFOs and the slots.   *)
THEOREM DriverSeesDecodeService == Spec => DeviceIsDecodeService
<1>1. Init => DeviceServes /\ Device!Init
  <2> SUFFICES ASSUME Init
               PROVE  DeviceServes /\ Device!Init
    OBVIOUS
  <2>1. /\ desc_fifo \in {<<>>, <<Stale>>} /\ cpl_fifo \in {<<>>, <<Stale>>}
        /\ \A d \in Decoders : slot_state[d] = "SLOT_RUN" => slot_task[d] = Stale
    BY DEF Init, DeviceLeftOver, DeviceInit
  <2>2. /\ desc_fifo \in Seq(Descriptors) /\ cpl_fifo \in Seq(Descriptors)
        /\ Len(desc_fifo) <= DescFifoDepth /\ Len(cpl_fifo) <= DescFifoDepth
    <3>1. Stale \in Descriptors /\ DescFifoDepth \in Nat \ {0}
      BY DriverAssumption, DeviceAssumption
    <3>2. ASSUME NEW q \in {<<>>, <<Stale>>}
          PROVE  q \in Seq(Descriptors) /\ Len(q) <= DescFifoDepth
      <4>1. CASE q = <<>>
        BY <3>1, <4>1
      <4>2. CASE q = <<Stale>>
        BY <3>1, <4>2
      <4>3. QED
        BY <3>2, <4>1, <4>2
    <3>3. QED
      BY <2>1, <3>2
  <2>3. WorkOf \in [Decoders -> Descriptors \union {NoDesc}]
    BY <2>1, DriverAssumption DEF WorkOf
  <2>4. cpl = NoDesc
    BY DEF Init
  <2>5. QED
    BY <2>1, <2>2, <2>3, <2>4, DriverAssumption DEF DeviceServes, Running, Device!Init, WorkOf
<1>2. Ownership /\ DeviceServes /\ [Next]_vars =>
        DeviceServes' /\ [Device!Next]_(Device!decodeVars)
  <2> SUFFICES ASSUME Ownership, DeviceServes, [Next]_vars
               PROVE  DeviceServes' /\ [Device!Next]_(Device!decodeVars)
    OBVIOUS
  <2>1. CASE UNCHANGED vars
    <3>1. OnlyRegisters
      BY <2>1 DEF vars, deviceVars, managerVars, OnlyRegisters
    <3>2. QED
      BY <3>1, Unseen
  <2>2. CASE Next
    <3>1. DeviceTypeOK
      BY DEF Ownership, TypeOK
    <3>2. CASE OnlyRegisters
      BY <3>2, Unseen
    <3>3. CASE HostSteps
      BY <3>3, CommitServes, PopServes, DeviceForgets DEF HostSteps
    <3>4. ASSUME NEW d \in Decoders, SlotStep(d), UNCHANGED cpl
          PROVE  DeviceServes' /\ [Device!Next]_(Device!decodeVars)
      BY <3>1, <3>4, StartServes, FinishServes, WindsDown DEF SlotStep
    <3>5. QED
      BY <2>2, <3>2, <3>3, <3>4, DeviceSteps
  <2>3. QED
    BY <2>1, <2>2
<1>3. QED
  BY <1>1, <1>2, OwnershipInvariant, PTL DEF Spec, DeviceIsDecodeService, Device!Spec
=============================================================================
