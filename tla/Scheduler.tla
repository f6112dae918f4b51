------------------------------ MODULE Scheduler ------------------------------
(***************************************************************************)
(* The class jpeg::Scheduler of src_sw/jpeg_driver.cc: the monitor that    *)
(* hands image tasks to the CPU workers and to the hardware manager.       *)
(*                                                                         *)
(* Every public method runs under the mutex mu_, so each is one atomic     *)
(* action here; the threads that call them are in JpegDriver.  A method    *)
(* that acquires a job is one action per kind of result.  The condition    *)
(* variable cv_ is the set of threads asleep in it: notify_all empties the *)
(* set, and a woken thread evaluates AcquireCpuJob again from the top.     *)
(***************************************************************************)
EXTENDS Integers, Sequences, FiniteSets, Functions

CONSTANTS
  Mode,      \* mode_: "hw" for BackendMode::kHardware, "sw" for kSoftware
  NumTasks,  \* tasks_.size(), the number of image paths on the command line
  SrcSlots,  \* src_slot_count, the source buffers of the pool
  DstSlots   \* dst_slot_count, the destination buffers of the pool

(* main() refuses more images than 16-bit task ids can name, and needs one *)
(* image path; both pools have a fixed, positive number of slots.          *)
ASSUME SchedulerAssumption ==
  /\ Mode \in {"hw", "sw"}
  /\ NumTasks \in Nat /\ 0 < NumTasks /\ NumTasks <= 65536
  /\ SrcSlots \in Nat \ {0}
  /\ DstSlots \in Nat \ {0}

Tasks == 0..(NumTasks - 1)
SrcSlotIds == 0..(SrcSlots - 1)
DstSlotIds == 0..(DstSlots - 1)
NoSlot == -1  \* an empty std::optional

Stages == {"kPendingLoad", "kLoading", "kLoadedAwaitingDecode",
           "kQueuedForHwSubmit", "kHwSubmitting", "kHwInflight",
           "kQueuedForSwDecode", "kSwDecoding", "kDecoded",
           "kPostProcessing", "kDone", "kFailed"}

VARIABLES
  stage,              \* tasks_[t].stage
  src_slot,           \* tasks_[t].src_slot
  dst_slot,           \* tasks_[t].dst_slot
  next_load_index,
  num_done,
  free_src_slots,
  free_dst_slots,
  ready_post,
  waiting_sw_decode,
  ready_sw_decode,
  ready_hw_submit,
  failed,
  failure_message,    \* which call site failed, not its wording
  asleep              \* threads inside cv_.wait

taskVars == <<stage, src_slot, dst_slot, next_load_index, num_done>>
queueVars == <<free_src_slots, free_dst_slots, ready_post, waiting_sw_decode,
               ready_sw_decode, ready_hw_submit>>
schedulerVars == <<taskVars, queueVars, failed, failure_message>>

SchedulerInit ==
  /\ stage = [t \in Tasks |-> "kPendingLoad"]
  /\ src_slot = [t \in Tasks |-> NoSlot]
  /\ dst_slot = [t \in Tasks |-> NoSlot]
  /\ next_load_index = 0
  /\ num_done = 0
  /\ free_src_slots = [i \in 1..SrcSlots |-> i - 1]
  /\ free_dst_slots = [i \in 1..DstSlots |-> i - 1]
  /\ ready_post = <<>>
  /\ waiting_sw_decode = <<>>
  /\ ready_sw_decode = <<>>
  /\ ready_hw_submit = <<>>
  /\ failed = FALSE
  /\ failure_message = "none"
  /\ asleep = {}

(* Mutant of AllWorkDoneLocked: counts loaded images instead of done ones.  *)
AllWorkLoaded == next_load_index = NumTasks

AllWorkDoneLocked == num_done = NumTasks

HasReadyCpuJobLocked ==
  \/ ready_post # <<>>
  \/ Mode = "sw" /\ ready_sw_decode # <<>>
  \/ next_load_index < NumTasks /\ free_src_slots # <<>>

NotifyAll == asleep' = {}

(* The wait predicate of cv_.wait in AcquireCpuJob. *)
WakeCondition == failed \/ AllWorkDoneLocked \/ HasReadyCpuJobLocked

-----------------------------------------------------------------------------
(* The acquiring loops pop a queue until they meet an entry whose task is   *)
(* in the stage the queue is for.  What is left of the queue when they do:  *)
(* the entry found is its head.                                             *)
SkipTo(queue, valid) ==
  LET hits == {i \in DOMAIN queue : queue[i] \in valid}
  IN  IF hits = {} THEN <<>>
      ELSE SubSeq(queue, CHOOSE i \in hits : \A j \in hits : i <= j, Len(queue))

HasSrc(t) == src_slot[t] # NoSlot
HasDst(t) == dst_slot[t] # NoSlot

PostReady == {t \in Tasks : stage[t] = "kDecoded" /\ HasDst(t)}
SwReady == {t \in Tasks : stage[t] = "kQueuedForSwDecode" /\ HasSrc(t) /\ HasDst(t)}
HwReady == {t \in Tasks : stage[t] = "kQueuedForHwSubmit" /\ HasSrc(t)}

PostQueue == SkipTo(ready_post, PostReady)
SwQueue == IF Mode = "sw" THEN SkipTo(ready_sw_decode, SwReady) ELSE ready_sw_decode

(* What AcquireCpuJob has thrown out of a queue before it goes on to the    *)
(* next kind of job.                                                        *)
SwJobPending == Mode = "sw" /\ SwQueue # <<>>

AcquireAllowed == ~failed /\ ~AllWorkDoneLocked

(* AcquireCpuJob() returns std::nullopt. *)
AcquireNothing ==
  /\ ~AcquireAllowed
  /\ UNCHANGED <<schedulerVars, asleep>>

(* AcquireCpuJob() returns a post-processing job for t. *)
AcquirePostProcess(t) ==
  /\ AcquireAllowed
  /\ PostQueue # <<>>
  /\ t = Head(PostQueue)
  /\ ready_post' = Tail(PostQueue)
  /\ stage' = [stage EXCEPT ![t] = "kPostProcessing"]
  /\ UNCHANGED <<src_slot, dst_slot, next_load_index, num_done, free_src_slots,
                 free_dst_slots, waiting_sw_decode, ready_sw_decode,
                 ready_hw_submit, failed, failure_message, asleep>>

(* AcquireCpuJob() returns a software decode job for t. *)
AcquireSoftwareDecode(t) ==
  /\ AcquireAllowed
  /\ PostQueue = <<>>
  /\ SwJobPending
  /\ t = Head(SwQueue)
  /\ ready_post' = <<>>
  /\ ready_sw_decode' = Tail(SwQueue)
  /\ stage' = [stage EXCEPT ![t] = "kSwDecoding"]
  /\ UNCHANGED <<src_slot, dst_slot, next_load_index, num_done, free_src_slots,
                 free_dst_slots, waiting_sw_decode, ready_hw_submit, failed,
                 failure_message, asleep>>

CanLoad == next_load_index < NumTasks /\ free_src_slots # <<>>

(* AcquireCpuJob() returns a load job for t, the next image in order. *)
AcquireLoad(t) ==
  /\ AcquireAllowed
  /\ PostQueue = <<>>
  /\ ~SwJobPending
  /\ CanLoad
  /\ t = next_load_index
  /\ ready_post' = <<>>
  /\ ready_sw_decode' = SwQueue
  /\ next_load_index' = next_load_index + 1
  /\ src_slot' = [src_slot EXCEPT ![t] = Head(free_src_slots)]
  /\ free_src_slots' = Tail(free_src_slots)
  /\ stage' = [stage EXCEPT ![t] = "kLoading"]
  /\ UNCHANGED <<dst_slot, num_done, free_dst_slots, waiting_sw_decode,
                 ready_hw_submit, failed, failure_message, asleep>>

(* AcquireCpuJob() finds nothing to do: thread w goes to sleep in cv_.      *)
AcquireWait(w) ==
  /\ AcquireAllowed
  /\ PostQueue = <<>>
  /\ ~SwJobPending
  /\ ~CanLoad
  /\ ready_post' = <<>>
  /\ ready_sw_decode' = SwQueue
  /\ asleep' = asleep \union {w}
  /\ UNCHANGED <<taskVars, free_src_slots, free_dst_slots, waiting_sw_decode,
                 ready_hw_submit, failed, failure_message>>

-----------------------------------------------------------------------------
HwQueue == SkipTo(ready_hw_submit, HwReady)

HwSubmitPossible == ~failed /\ free_dst_slots # <<>> /\ HwQueue # <<>>

(* TryAcquireHardwareSubmitTask() returns t, which now owns a destination. *)
AcquireHardwareSubmit(t) ==
  /\ HwSubmitPossible
  /\ t = Head(HwQueue)
  /\ ready_hw_submit' = Tail(HwQueue)
  /\ dst_slot' = [dst_slot EXCEPT ![t] = Head(free_dst_slots)]
  /\ free_dst_slots' = Tail(free_dst_slots)
  /\ stage' = [stage EXCEPT ![t] = "kHwSubmitting"]
  /\ UNCHANGED <<src_slot, next_load_index, num_done, free_src_slots, ready_post,
                 waiting_sw_decode, ready_sw_decode, failed, failure_message,
                 asleep>>

(* Mutant of AcquireNoHardwareSubmit: drops the queue when no slot is free. *)
AcquireNoHardwareSubmitDrops ==
  /\ ~HwSubmitPossible
  /\ ready_hw_submit' = <<>>
  /\ UNCHANGED <<taskVars, free_src_slots, free_dst_slots, ready_post,
                 waiting_sw_decode, ready_sw_decode, failed, failure_message,
                 asleep>>

(* TryAcquireHardwareSubmitTask() returns nullptr; the loop drops stale     *)
(* entries only while a destination slot is free.                           *)
AcquireNoHardwareSubmit ==
  /\ ~HwSubmitPossible
  /\ ready_hw_submit' = IF ~failed /\ free_dst_slots # <<>> THEN <<>> ELSE ready_hw_submit
  /\ UNCHANGED <<taskVars, free_src_slots, free_dst_slots, ready_post,
                 waiting_sw_decode, ready_sw_decode, failed, failure_message,
                 asleep>>

-----------------------------------------------------------------------------
(* The CompleteX methods.  Each ignores the call once failed_ is set, and   *)
(* sets failed_ when the task is not in the stage the call is for.          *)
Rejected ==
  /\ failed' = TRUE
  /\ failure_message' = "completed in invalid state"
  /\ NotifyAll
  /\ UNCHANGED <<taskVars, queueVars>>

Ignored == UNCHANGED <<schedulerVars, asleep>>

(* CompleteLoad: a hardware task queues for submission; a software task     *)
(* takes a destination slot now or waits for one.                           *)
StageAfterLoad ==
  CASE Mode = "hw" -> "kQueuedForHwSubmit"
    [] Mode = "sw" /\ free_dst_slots # <<>> -> "kQueuedForSwDecode"
    [] Mode = "sw" /\ free_dst_slots = <<>> -> "kLoadedAwaitingDecode"

LoadCompleted(t) ==
  /\ stage' = [stage EXCEPT ![t] = StageAfterLoad]
  /\ \/ /\ StageAfterLoad = "kQueuedForHwSubmit"
        /\ ready_hw_submit' = Append(ready_hw_submit, t)
        /\ UNCHANGED <<dst_slot, free_dst_slots, ready_sw_decode, waiting_sw_decode>>
     \/ /\ StageAfterLoad = "kQueuedForSwDecode"
        /\ dst_slot' = [dst_slot EXCEPT ![t] = Head(free_dst_slots)]
        /\ free_dst_slots' = Tail(free_dst_slots)
        /\ ready_sw_decode' = Append(ready_sw_decode, t)
        /\ UNCHANGED <<ready_hw_submit, waiting_sw_decode>>
     \/ /\ StageAfterLoad = "kLoadedAwaitingDecode"
        /\ waiting_sw_decode' = Append(waiting_sw_decode, t)
        /\ UNCHANGED <<dst_slot, free_dst_slots, ready_sw_decode, ready_hw_submit>>
  /\ NotifyAll
  /\ UNCHANGED <<src_slot, next_load_index, num_done, free_src_slots,
                 ready_post, failed, failure_message>>

CompleteLoad(t) ==
  \/ failed /\ Ignored
  \/ ~failed /\ ~(stage[t] = "kLoading" /\ HasSrc(t)) /\ Rejected
  \/ ~failed /\ stage[t] = "kLoading" /\ HasSrc(t) /\ LoadCompleted(t)

(* Mutant of DecodeCompleted: keeps the source slot in the task. *)
DecodeCompletedKeepsSlot(t) ==
  /\ free_src_slots' = Append(free_src_slots, src_slot[t])
  /\ stage' = [stage EXCEPT ![t] = "kDecoded"]
  /\ ready_post' = Append(ready_post, t)
  /\ NotifyAll
  /\ UNCHANGED <<src_slot, dst_slot, next_load_index, num_done, free_dst_slots,
                 waiting_sw_decode, ready_sw_decode, ready_hw_submit, failed,
                 failure_message>>

(* Mutant of DecodeCompleted: releases the destination slot as well. *)
DecodeCompletedFreesBoth(t) ==
  /\ free_src_slots' = Append(free_src_slots, src_slot[t])
  /\ free_dst_slots' = Append(free_dst_slots, dst_slot[t])
  /\ src_slot' = [src_slot EXCEPT ![t] = NoSlot]
  /\ stage' = [stage EXCEPT ![t] = "kDecoded"]
  /\ ready_post' = Append(ready_post, t)
  /\ NotifyAll
  /\ UNCHANGED <<dst_slot, next_load_index, num_done, waiting_sw_decode,
                 ready_sw_decode, ready_hw_submit, failed, failure_message>>

(* The common effect of a finished decode: the source slot is free again    *)
(* and the task is ready for post-processing.                               *)
DecodeCompleted(t) ==
  /\ free_src_slots' = Append(free_src_slots, src_slot[t])
  /\ src_slot' = [src_slot EXCEPT ![t] = NoSlot]
  /\ stage' = [stage EXCEPT ![t] = "kDecoded"]
  /\ ready_post' = Append(ready_post, t)
  /\ NotifyAll
  /\ UNCHANGED <<dst_slot, next_load_index, num_done, free_dst_slots,
                 waiting_sw_decode, ready_sw_decode, ready_hw_submit, failed,
                 failure_message>>

DecodeEnds(t, from) == stage[t] = from /\ HasSrc(t) /\ HasDst(t)

(* Mutant of CompleteSoftwareDecode: does not look at failed_ first. *)
CompleteSoftwareDecodeAlways(t) ==
  \/ ~DecodeEnds(t, "kSwDecoding") /\ Rejected
  \/ DecodeEnds(t, "kSwDecoding") /\ DecodeCompleted(t)

CompleteSoftwareDecode(t) ==
  \/ failed /\ Ignored
  \/ ~failed /\ ~DecodeEnds(t, "kSwDecoding") /\ Rejected
  \/ ~failed /\ DecodeEnds(t, "kSwDecoding") /\ DecodeCompleted(t)

CompleteHardwareDecode(t) ==
  \/ failed /\ Ignored
  \/ ~failed /\ ~DecodeEnds(t, "kHwInflight") /\ Rejected
  \/ ~failed /\ DecodeEnds(t, "kHwInflight") /\ DecodeCompleted(t)

(* The only completion that wakes nobody: it makes no CPU job ready. *)
CompleteHardwareSubmit(t) ==
  \/ failed /\ Ignored
  \/ ~failed /\ ~DecodeEnds(t, "kHwSubmitting") /\ Rejected
  \/ /\ ~failed
     /\ DecodeEnds(t, "kHwSubmitting")
     /\ stage' = [stage EXCEPT ![t] = "kHwInflight"]
     /\ UNCHANGED <<src_slot, dst_slot, next_load_index, num_done, queueVars,
                    failed, failure_message, asleep>>

-----------------------------------------------------------------------------
(* AssignSwDecodeJobsLocked, run with the destination queue dst: while dst  *)
(* and waiting_sw_decode both have entries, pop a waiting task and, unless  *)
(* its entry is stale, pair it with the next free slot.  The i-th entry     *)
(* that is not stale meets the i-th free slot; the loop ends with the last  *)
(* slot, or with the last entry.                                            *)
Assignable ==
  {i \in DOMAIN waiting_sw_decode :
     stage[waiting_sw_decode[i]] = "kLoadedAwaitingDecode" /\ HasSrc(waiting_sw_decode[i])}

Turn(i) == Cardinality({j \in Assignable : j <= i})

Matched(dst) == {i \in Assignable : Turn(i) <= Len(dst)}

Popped(dst) ==
  IF Cardinality(Assignable) < Len(dst) THEN DOMAIN waiting_sw_decode
  ELSE {i \in DOMAIN waiting_sw_decode : \E j \in Matched(dst) : i <= j}

MatchedAt(dst, k) == CHOOSE i \in Matched(dst) : Turn(i) = k

(* Hardware mode: the destination slot just goes back to the pool.  done is *)
(* the task whose post-processing has ended.                                *)
NoAssignment(dst, done) ==
  /\ stage' = [stage EXCEPT ![done] = "kDone"]
  /\ dst_slot' = [dst_slot EXCEPT ![done] = NoSlot]
  /\ free_dst_slots' = dst
  /\ UNCHANGED <<waiting_sw_decode, ready_sw_decode>>

AssignSwDecodeJobsLocked(dst, done) ==
  LET n == Cardinality(Matched(dst))
      winners == {waiting_sw_decode[i] : i \in Matched(dst)}
      slotOf(t) == dst[Turn(CHOOSE i \in Matched(dst) : waiting_sw_decode[i] = t)]
  IN  /\ stage' = [t \in Tasks |-> IF t = done THEN "kDone"
                                   ELSE IF t \in winners THEN "kQueuedForSwDecode"
                                   ELSE stage[t]]
      /\ dst_slot' = [t \in Tasks |-> IF t = done THEN NoSlot
                                      ELSE IF t \in winners THEN slotOf(t)
                                      ELSE dst_slot[t]]
      /\ free_dst_slots' = SubSeq(dst, n + 1, Len(dst))
      /\ waiting_sw_decode' = SubSeq(waiting_sw_decode, Cardinality(Popped(dst)) + 1,
                                     Len(waiting_sw_decode))
      /\ ready_sw_decode' = ready_sw_decode \o
                              [k \in 1..n |-> waiting_sw_decode[MatchedAt(dst, k)]]

(* Mutant of PostProcessCompleted: wakes nobody. *)
PostProcessCompletedSilently(t) ==
  LET dst == Append(free_dst_slots, dst_slot[t])
  IN  /\ IF Mode = "sw" THEN AssignSwDecodeJobsLocked(dst, t) ELSE NoAssignment(dst, t)
      /\ num_done' = num_done + 1
      /\ UNCHANGED <<src_slot, next_load_index, free_src_slots, ready_post,
                     ready_hw_submit, failed, failure_message, asleep>>

(* Mutant of PostProcessCompleted: reads the slot after it has reset it. *)
PostProcessCompletedResetFirst(t) ==
  LET dst == Append(free_dst_slots, NoSlot)
  IN  /\ NoAssignment(dst, t)
      /\ num_done' = num_done + 1
      /\ NotifyAll
      /\ UNCHANGED <<src_slot, next_load_index, free_src_slots, ready_post,
                     ready_hw_submit, failed, failure_message>>

(* The destination slot is free again and, in software mode, goes straight  *)
(* to a task that waits for one.                                            *)
PostProcessCompleted(t) ==
  LET dst == Append(free_dst_slots, dst_slot[t])
  IN  /\ IF Mode = "sw" THEN AssignSwDecodeJobsLocked(dst, t) ELSE NoAssignment(dst, t)
      /\ num_done' = num_done + 1
      /\ NotifyAll
      /\ UNCHANGED <<src_slot, next_load_index, free_src_slots, ready_post,
                     ready_hw_submit, failed, failure_message>>

CompletePostProcess(t) ==
  \/ failed /\ Ignored
  \/ ~failed /\ ~(stage[t] = "kPostProcessing" /\ HasDst(t)) /\ Rejected
  \/ ~failed /\ stage[t] = "kPostProcessing" /\ HasDst(t) /\ PostProcessCompleted(t)

-----------------------------------------------------------------------------
(* Mutant of Fail: ends the tasks that are done as well. *)
FailEveryTask(message) ==
  \/ failed /\ Ignored
  \/ /\ ~failed
     /\ failed' = TRUE
     /\ failure_message' = message
     /\ stage' = [t \in Tasks |-> "kFailed"]
     /\ NotifyAll
     /\ UNCHANGED <<src_slot, dst_slot, next_load_index, num_done, queueVars>>

(* Mutant of Fail: wakes nobody. *)
FailSilently(message) ==
  \/ failed /\ Ignored
  \/ /\ ~failed
     /\ failed' = TRUE
     /\ failure_message' = message
     /\ stage' = [t \in Tasks |-> IF stage[t] = "kDone" THEN "kDone" ELSE "kFailed"]
     /\ UNCHANGED <<src_slot, dst_slot, next_load_index, num_done, queueVars, asleep>>

(* Fail(message): the first failure wins and ends every unfinished task.    *)
Fail(message) ==
  \/ failed /\ Ignored
  \/ /\ ~failed
     /\ failed' = TRUE
     /\ failure_message' = message
     /\ stage' = [t \in Tasks |-> IF stage[t] = "kDone" THEN "kDone" ELSE "kFailed"]
     /\ NotifyAll
     /\ UNCHANGED <<src_slot, dst_slot, next_load_index, num_done, queueVars>>

IsFinished == failed \/ AllWorkDoneLocked
=============================================================================
