----------------------------- MODULE OwnershipProofs -----------------------------
(***************************************************************************)
(* Who owns a task, and with it the task's buffers: at any time at most    *)
(* one worker, the manager that submits it, or the device.  Ownership is   *)
(* inductive; type correctness, the conservation of the slots and the      *)
(* exclusive use of the buffers follow from it, and what no step of the    *)
(* driver may do: move a task out of line, or change the Scheduler after a *)
(* failure.                                                                *)
(***************************************************************************)
EXTENDS SchedulerProofs

-----------------------------------------------------------------------------
Owned == WorkersOwn /\ ManagerOwns /\ RejectsOnlyAfterFailure /\ DeviceOwns

-----------------------------------------------------------------------------
(* What a method of the Scheduler leaves alone *)

HeldStages == {"kLoading", "kSwDecoding", "kPostProcessing", "kHwSubmitting", "kHwInflight"}

(* A step on behalf of task t does not touch the tasks others are at work   *)
(* on.                                                                      *)
Keeps(t) ==
  /\ failed => failed'
  /\ \A u \in Tasks \ {t} :
       failed \/ stage[u] \in HeldStages =>
         /\ src_slot'[u] = src_slot[u]
         /\ dst_slot'[u] = dst_slot[u]
         /\ failed' \/ stage'[u] = stage[u]

LEMMA KeepsStutter ==
  ASSUME UNCHANGED schedulerVars
  PROVE  \A t : Keeps(t)
BY DEF schedulerVars, taskVars, Keeps

LEMMA KeepsFail ==
  ASSUME NEW message, Fail(message)
  PROVE  /\ \A t : Keeps(t)
         /\ failed' /\ UNCHANGED <<src_slot, dst_slot>>
         /\ failure_message' \in {message, failure_message}
         /\ failed => failure_message' = failure_message
BY DEF Fail, Ignored, schedulerVars, taskVars, Keeps

LEMMA KeepsAcquire ==
  ASSUME SchedulerSound, NEW t \in Tasks,
         \/ AcquirePostProcess(t) \/ AcquireSoftwareDecode(t) \/ AcquireLoad(t)
         \/ AcquireHardwareSubmit(t)
  PROVE  Keeps(t)
<1>1. UNCHANGED failed /\ \A u \in Tasks \ {t} : /\ src_slot'[u] = src_slot[u]
                                                 /\ dst_slot'[u] = dst_slot[u]
                                                 /\ stage'[u] = stage[u]
  BY DEF AcquirePostProcess, AcquireSoftwareDecode, AcquireLoad, AcquireHardwareSubmit,
         SchedulerSound, SchedulerTypeOK
<1>2. QED
  BY <1>1 DEF Keeps

LEMMA KeepsComplete ==
  ASSUME SchedulerSound, NEW t \in Tasks,
         \/ CompleteLoad(t) \/ CompleteSoftwareDecode(t) \/ CompleteHardwareDecode(t)
         \/ CompleteHardwareSubmit(t)
  PROVE  Keeps(t)
<1>1. CASE Ignored
  BY <1>1, KeepsStutter DEF Ignored
<1>2. CASE Rejected
  BY <1>2 DEF Rejected, taskVars, Keeps
<1>3. CASE LoadCompleted(t) \/ DecodeCompleted(t)
  <2>1. UNCHANGED failed /\ \A u \in Tasks \ {t} : /\ src_slot'[u] = src_slot[u]
                                                   /\ dst_slot'[u] = dst_slot[u]
                                                   /\ stage'[u] = stage[u]
    BY <1>3 DEF LoadCompleted, DecodeCompleted, SchedulerSound, SchedulerTypeOK
  <2>2. QED
    BY <2>1 DEF Keeps
<1>4. CASE /\ stage' = [stage EXCEPT ![t] = "kHwInflight"]
           /\ UNCHANGED <<src_slot, dst_slot, failed>>
  BY <1>4 DEF Keeps, SchedulerSound, SchedulerTypeOK
<1>5. QED
  BY <1>1, <1>2, <1>3, <1>4 DEF CompleteLoad, CompleteSoftwareDecode,
     CompleteHardwareDecode, CompleteHardwareSubmit

(* The task that AssignSwDecodeJobsLocked hands the slot to is nobody's.    *)
LEMMA KeepsPostProcess ==
  ASSUME SchedulerSound, NEW t \in Tasks, CompletePostProcess(t)
  PROVE  Keeps(t)
<1>1. CASE Ignored
  BY <1>1, KeepsStutter DEF Ignored
<1>2. CASE Rejected
  BY <1>2 DEF Rejected, taskVars, Keeps
<1>3. CASE ~failed /\ HasDst(t) /\ PostProcessCompleted(t)
  <2> DEFINE dst == Append(free_dst_slots, dst_slot[t])
             h == Head(waiting_sw_decode)
  <2>1. dst_slot[t] \in DstSlotIds
    BY <1>3 DEF HasDst, SchedulerSound, SchedulerTypeOK
  <2>2. UNCHANGED <<src_slot, failed>>
    BY <1>3 DEF PostProcessCompleted
  <2>3. /\ stage \in [Tasks -> Stages]
        /\ dst_slot \in [Tasks -> DstSlotIds \union {NoSlot}]
    BY DEF SchedulerSound, SchedulerTypeOK
  <2>4. CASE NoAssignment(dst, t)
    BY <2>2, <2>3, <2>4 DEF NoAssignment, Keeps
  <2>5. CASE AssignSwDecodeJobsLocked(dst, t) /\ waiting_sw_decode = <<>>
    BY <2>1, <2>4, <2>5, AssignsNothing DEF SchedulerSound
  <2>6. CASE AssignSwDecodeJobsLocked(dst, t) /\ waiting_sw_decode # <<>>
    <3>1. /\ stage' = [u \in Tasks |-> IF u = t THEN "kDone"
                                       ELSE IF u = h THEN "kQueuedForSwDecode"
                                       ELSE stage[u]]
          /\ dst_slot' = [u \in Tasks |-> IF u = t THEN NoSlot
                                          ELSE IF u = h THEN dst_slot[t] ELSE dst_slot[u]]
      BY <1>3, <2>1, <2>6, AssignsOne DEF SchedulerSound
    <3>2. h \in Tasks /\ stage[h] = "kLoadedAwaitingDecode"
      <4>1. /\ waiting_sw_decode \in Seq(Tasks) /\ waiting_sw_decode # <<>>
            /\ QueueOf(waiting_sw_decode, stage, "kLoadedAwaitingDecode")
        BY <1>3, <2>6, SoundQueues
      <4>2. QED
        BY <4>1, PopFacts DEF QueueOf
    <3> HIDE DEF h
    <3>3. \A u \in Tasks \ {t} : stage[u] \in HeldStages => u # h
      BY <3>2 DEF HeldStages
    <3>4. QED
      BY <1>3, <2>2, <3>1, <3>3 DEF Keeps
  <2>7. QED
    BY <1>3, <2>4, <2>5, <2>6 DEF PostProcessCompleted
<1>4. QED
  BY <1>1, <1>2, <1>3 DEF CompletePostProcess

-----------------------------------------------------------------------------
(* What a step leaves of the claims on a task *)

(* The claims of workers on tasks the step does not touch. *)
LEMMA WorkersKeep ==
  ASSUME WorkersOwn, ThreadsTypeOK, NEW t, Keeps(t), NEW w \in Busy, job[w] # t
  PROVE  /\ w \in Loading \union SwDecoding => src_slot'[job[w]] # NoSlot
         /\ w \in SwDecoding \union Posting => dst_slot'[job[w]] # NoSlot
         /\ ~failed' => /\ w \in Loading => stage'[job[w]] = "kLoading"
                        /\ w \in SwDecoding => stage'[job[w]] = "kSwDecoding"
                        /\ w \in Posting => stage'[job[w]] = "kPostProcessing"
<1> DEFINE u == job[w]
<1>1. u \in Tasks \ {t} /\ job[w] = u
  BY DEF ThreadsTypeOK
<1>2. /\ w \in Loading \/ w \in SwDecoding \/ w \in Posting
      /\ w \in Loading \union SwDecoding => src_slot[u] # NoSlot
      /\ w \in SwDecoding \union Posting => dst_slot[u] # NoSlot
      /\ ~failed => /\ w \in Loading => stage[u] = "kLoading"
                    /\ w \in SwDecoding => stage[u] = "kSwDecoding"
                    /\ w \in Posting => stage[u] = "kPostProcessing"
  BY DEF WorkersOwn, Busy, HasSrc, HasDst
<1>3. failed \/ stage[u] \in HeldStages
  BY <1>2 DEF HeldStages
<1>4. /\ src_slot'[u] = src_slot[u] /\ dst_slot'[u] = dst_slot[u]
      /\ failed' \/ stage'[u] = stage[u]
      /\ failed => failed'
  BY <1>1, <1>3 DEF Keeps
<1> HIDE DEF u
<1>5. QED
  BY <1>2, <1>4 DEF u

(* The claim of the manager. *)
LEMMA ManagerKeeps ==
  ASSUME ManagerOwns, ThreadsTypeOK, Submitting, NEW t, Keeps(t), submitting # t
  PROVE  /\ HasSrc(submitting) /\ src_slot'[submitting] # NoSlot
         /\ HasDst(submitting) /\ dst_slot'[submitting] # NoSlot
         /\ src_slot'[submitting] = src_slot[submitting]
         /\ dst_slot'[submitting] = dst_slot[submitting]
         /\ ~failed' => stage'[submitting] = "kHwSubmitting"
BY DEF ManagerOwns, ThreadsTypeOK, Keeps, HeldStages, HasSrc, HasDst

(* The claim of the device. *)
LEMMA DeviceKeeps ==
  ASSUME ManagerOwns, NEW e, InFlight(e), Submitting => submitting \in Tasks,
         NEW t, Keeps(t), e.id # t
  PROVE  /\ e.id \in Tasks
         /\ src_slot'[e.id] = src_slot[e.id] /\ src_slot'[e.id] # NoSlot
         /\ dst_slot'[e.id] = dst_slot[e.id] /\ dst_slot'[e.id] # NoSlot
         /\ e = [id |-> e.id, src |-> src_slot'[e.id], dst |-> dst_slot'[e.id]]
         /\ ~failed' => stage'[e.id] = stage[e.id]
         /\ ~failed' => \/ stage[e.id] = "kHwInflight"
                        \/ manager = "submit" /\ e.id = submitting
<1> DEFINE u == e.id
<1>1. /\ u \in Tasks \ {t}
      /\ e = [id |-> u, src |-> src_slot[u], dst |-> dst_slot[u]]
      /\ src_slot[u] # NoSlot /\ dst_slot[u] # NoSlot
      /\ ~failed => \/ stage[u] = "kHwInflight"
                    \/ manager = "submit" /\ u = submitting
  BY DEF InFlight, Descriptor, HasSrc, HasDst
<1>2. failed \/ stage[u] \in HeldStages
  <2>1. manager = "submit" /\ u = submitting /\ ~failed => stage[u] = "kHwSubmitting"
    BY DEF ManagerOwns, Submitting
  <2>2. QED
    BY <1>1, <2>1 DEF HeldStages
<1>3. /\ src_slot'[u] = src_slot[u] /\ dst_slot'[u] = dst_slot[u]
      /\ failed' \/ stage'[u] = stage[u]
      /\ failed => failed'
  BY <1>1, <1>2 DEF Keeps
<1> HIDE DEF u
<1>4. QED
  BY <1>1, <1>3 DEF u

-----------------------------------------------------------------------------
(* The CPU workers *)

(* A step of worker w on behalf of task t, a task that is in nobody else's  *)
(* hands.                                                                   *)
LEMMA WorkerStepOwns ==
  ASSUME Owned, ThreadsTypeOK, NEW w \in Workers, NEW t, Keeps(t),
         UNCHANGED <<managerVars, deviceVars>>,
         \A v \in Workers \ {w} : pc'[v] = pc[v] /\ job'[v] = job[v],
         \A v \in Busy \ {w} : job[v] # t,
         Submitting => submitting # t,
         Fresh => \A e \in Live : e.id # t,
         w \in Busy' => job'[w] = t,
         w \in Loading' \union SwDecoding' => src_slot'[t] # NoSlot,
         w \in SwDecoding' \union Posting' => dst_slot'[t] # NoSlot,
         ~failed' => /\ w \in Loading' => stage'[t] = "kLoading"
                     /\ w \in SwDecoding' => stage'[t] = "kSwDecoding"
                     /\ w \in Posting' => stage'[t] = "kPostProcessing"
  PROVE  Owned'
<1>1. \A v \in Workers \ {w} : /\ v \in Loading' <=> v \in Loading
                               /\ v \in SwDecoding' <=> v \in SwDecoding
                               /\ v \in Posting' <=> v \in Posting
                               /\ v \in Busy' <=> v \in Busy
  BY DEF Loading, SwDecoding, Posting, Busy
<1>2. Busy' \subseteq Workers /\ Loading' \subseteq Busy' /\ SwDecoding' \subseteq Busy'
      /\ Posting' \subseteq Busy'
  BY DEF Loading, SwDecoding, Posting, Busy
<1>3. WorkersOwn'
  <2>1. \A v, x \in Busy' : v # x => job'[v] # job'[x]
    <3>1. \A v, x \in Busy : v # x => job[v] # job[x]
      BY DEF Owned, WorkersOwn
    <3>2. QED
      BY <1>1, <1>2, <3>1
  <2>2. ASSUME NEW v \in Busy'
        PROVE  /\ v \in Loading' \union SwDecoding' => src_slot'[job'[v]] # NoSlot
               /\ v \in SwDecoding' \union Posting' => dst_slot'[job'[v]] # NoSlot
               /\ ~failed' => /\ v \in Loading' => stage'[job'[v]] = "kLoading"
                              /\ v \in SwDecoding' => stage'[job'[v]] = "kSwDecoding"
                              /\ v \in Posting' => stage'[job'[v]] = "kPostProcessing"
    <3>1. CASE v = w
      BY <3>1, <2>2
    <3>2. CASE v # w
      <4>1. v \in Busy /\ job'[v] = job[v] /\ job[v] # t
        BY <3>2, <2>2, <1>1, <1>2
      <4>2. QED
        BY <4>1, <3>2, <1>1, <1>2, WorkersKeep DEF Owned
    <3>3. QED
      BY <3>1, <3>2
  <2>3. QED
    BY <2>1, <2>2, <1>2 DEF WorkersOwn, HasSrc, HasDst
<1>4. \A u : (\A v \in Busy : job[v] # u) /\ u # t => \A v \in Busy' : job'[v] # u
  BY <1>1, <1>2
<1>5. ManagerOwns'
  <2> SUFFICES ASSUME Submitting'
               PROVE  /\ HasSrc(submitting)' /\ HasDst(submitting)'
                      /\ ~failed' => stage'[submitting'] = "kHwSubmitting"
                      /\ manager' = "commit" => mmio_desc' = Descriptor(submitting)'
                      /\ \A v \in Busy' : job'[v] # submitting'
    BY DEF ManagerOwns
  <2>1. Submitting /\ submitting' = submitting /\ manager' = manager /\ mmio_desc' = mmio_desc
    BY DEF Submitting, managerVars, deviceVars
  <2>2. /\ src_slot'[submitting] # NoSlot
        /\ dst_slot'[submitting] # NoSlot
        /\ src_slot'[submitting] = src_slot[submitting]
        /\ dst_slot'[submitting] = dst_slot[submitting]
        /\ ~failed' => stage'[submitting] = "kHwSubmitting"
    BY <2>1, ManagerKeeps DEF Owned
  <2>3. manager = "commit" => mmio_desc = Descriptor(submitting)
    BY <2>1 DEF Owned, ManagerOwns
  <2>4. \A v \in Busy' : job'[v] # submitting
    BY <1>4, <2>1 DEF Owned, ManagerOwns
  <2>5. QED
    BY <2>1, <2>2, <2>3, <2>4 DEF HasSrc, HasDst, Descriptor
<1>6. RejectsOnlyAfterFailure'
  BY DEF Owned, RejectsOnlyAfterFailure, managerVars, Keeps
<1>7. DeviceOwns'
  <2> SUFFICES ASSUME Fresh'
               PROVE  OnePlaceEach' /\ \A e \in Live' : InFlight(e)'
    BY DEF DeviceOwns
  <2>1. Fresh /\ Live' = Live /\ (OnePlaceEach' <=> OnePlaceEach)
    BY DEF Fresh, Live, RunningTasks, Running, InHand, OnePlaceEach, managerVars, deviceVars
  <2>2. OnePlaceEach /\ \A e \in Live : InFlight(e)
    BY <2>1 DEF Owned, DeviceOwns
  <2>3. ASSUME NEW e \in Live
        PROVE  InFlight(e)'
    <3>1. InFlight(e) /\ e.id # t
      BY <2>1, <2>2, <2>3
    <3>2. /\ e.id \in Tasks
          /\ src_slot'[e.id] # NoSlot
          /\ dst_slot'[e.id] # NoSlot
          /\ e = [id |-> e.id, src |-> src_slot'[e.id], dst |-> dst_slot'[e.id]]
          /\ ~failed' => stage'[e.id] = stage[e.id]
          /\ ~failed' => \/ stage[e.id] = "kHwInflight"
                         \/ manager = "submit" /\ e.id = submitting
      BY <3>1, DeviceKeeps DEF Owned, ThreadsTypeOK
    <3>3. \A v \in Busy' : job'[v] # e.id
      BY <3>1, <1>4 DEF InFlight
    <3>4. manager \in {"poll", "recheck", "write", "commit"} => e.id # submitting
      BY <3>1 DEF InFlight
    <3>5. QED
      BY <3>2, <3>3, <3>4 DEF InFlight, HasSrc, HasDst, Descriptor, managerVars
  <2>4. QED
    BY <2>1, <2>2, <2>3
<1>8. QED
  BY <1>3, <1>5, <1>6, <1>7 DEF Owned

(* The job of a worker is in nobody else's hands. *)
LEMMA JobIsItsWorkers ==
  ASSUME Owned, NEW w \in Busy
  PROVE  /\ \A v \in Busy \ {w} : job[v] # job[w]
         /\ Submitting => submitting # job[w]
         /\ Fresh => \A e \in Live : e.id # job[w]
BY DEF Owned, WorkersOwn, ManagerOwns, DeviceOwns, InFlight

(* A task that waits in a queue is in nobody's hands. *)
LEMMA WaitingIsNobodys ==
  ASSUME Owned, ~failed, NEW t \in Tasks, stage[t] \notin HeldStages
  PROVE  /\ \A v \in Busy : job[v] # t
         /\ Submitting => submitting # t
         /\ Fresh => \A e \in Live : e.id # t
<1>1. \A v \in Busy : job[v] # t
  BY DEF Owned, WorkersOwn, Busy, HeldStages
<1>2. Submitting => submitting # t
  BY DEF Owned, ManagerOwns, HeldStages
<1>3. ASSUME Fresh, NEW e \in Live, e.id = t
      PROVE  FALSE
  <2>1. InFlight(e)
    BY <1>3 DEF Owned, DeviceOwns
  <2>2. stage[t] = "kHwInflight" \/ (manager = "submit" /\ t = submitting)
    BY <2>1, <1>3 DEF InFlight
  <2>3. manager # "submit" \/ t # submitting
    BY <1>2 DEF Submitting
  <2>4. QED
    BY <2>2, <2>3 DEF HeldStages
<1>4. QED
  BY <1>1, <1>2, <1>3

(* No task is nobody's. *)
LEMMA NoTaskIsNobodys ==
  ASSUME Owned, ThreadsTypeOK
  PROVE  /\ \A v \in Busy : job[v] # NoTask
         /\ Submitting => submitting # NoTask
         /\ Fresh => \A e \in Live : e.id # NoTask
<1>1. NoTask \notin Tasks
  BY SchedulerAssumption DEF NoTask, Tasks
<1>2. QED
  BY <1>1 DEF Owned, ThreadsTypeOK, DeviceOwns, InFlight

(* A step of a worker that leaves the Scheduler alone and begins no job.    *)
LEMMA WorkerStutters ==
  ASSUME Owned, ThreadsTypeOK, NEW w \in Workers, NEW to,
         UNCHANGED <<schedulerVars, job, managerVars, deviceVars>>, Goto(w, to),
         \/ pc[w] = "load" /\ to = "loaded"
         \/ pc[w] = "decode" /\ to = "decoded"
         \/ pc[w] = "post" /\ to = "posted"
         \/ to \in {"acquire", "leave", "stopped"}
  PROVE  Owned'
<1>1. /\ pc' = [pc EXCEPT ![w] = to] /\ pc \in [Workers -> WorkerPcs]
      /\ job' = job
  BY DEF Goto, ThreadsTypeOK
<1>2. \A v \in Workers \ {w} : pc'[v] = pc[v] /\ job'[v] = job[v]
  BY <1>1
<1>3. \A t : Keeps(t)
  BY KeepsStutter
<1>4. CASE to \in {"acquire", "leave", "stopped"}
  <2>1. w \notin Busy' /\ w \notin Loading' /\ w \notin SwDecoding' /\ w \notin Posting'
    BY <1>1, <1>4 DEF Busy, Loading, SwDecoding, Posting
  <2>2. QED
    BY <1>2, <1>3, <2>1, NoTaskIsNobodys, WorkerStepOwns
<1>5. CASE to \notin {"acquire", "leave", "stopped"}
  <2>1. /\ w \in Loading' <=> w \in Loading
        /\ w \in SwDecoding' <=> w \in SwDecoding
        /\ w \in Posting' <=> w \in Posting
        /\ w \in Busy
    BY <1>1, <1>5 DEF Busy, Loading, SwDecoding, Posting
  <2>2. /\ UNCHANGED <<src_slot, dst_slot, stage, failed>>
        /\ w \in Loading \union SwDecoding => src_slot[job[w]] # NoSlot
        /\ w \in SwDecoding \union Posting => dst_slot[job[w]] # NoSlot
        /\ ~failed => /\ w \in Loading => stage[job[w]] = "kLoading"
                      /\ w \in SwDecoding => stage[job[w]] = "kSwDecoding"
                      /\ w \in Posting => stage[job[w]] = "kPostProcessing"
    BY DEF Owned, WorkersOwn, HasSrc, HasDst, schedulerVars, taskVars
  <2>3. QED
    BY <1>1, <1>2, <1>3, <2>1, <2>2, JobIsItsWorkers, WorkerStepOwns
<1>6. QED
  BY <1>4, <1>5

(* AcquireCpuJob *)
LEMMA AcquireOwns ==
  ASSUME SchedulerSound, ThreadsTypeOK, Owned, NEW w \in Workers, AcquireCpuJob(w)
  PROVE  Owned' /\ UNCHANGED failure_message
<1>1. /\ pc[w] = "acquire"
      /\ UNCHANGED <<managerVars, deviceVars>>
      /\ pc \in [Workers -> WorkerPcs]
      /\ job \in [Workers -> Tasks \union {NoTask}]
  BY DEF AcquireCpuJob, ThreadsTypeOK
<1>2. CASE \/ AcquireNothing /\ Goto(w, "leave") /\ UNCHANGED job
           \/ AcquireWait(w) /\ UNCHANGED workerVars
  <2>1. UNCHANGED schedulerVars
    <3>1. CASE AcquireWait(w)
      <4>1. ready_post' = ready_post /\ ready_sw_decode' = ready_sw_decode
        BY <3>1, SoundQueues DEF AcquireWait, AcquireAllowed
      <4>2. QED
        BY <3>1, <4>1 DEF AcquireWait, schedulerVars, taskVars, queueVars
    <3>2. QED
      BY <1>2, <3>1 DEF AcquireNothing
  <2>2. UNCHANGED job /\ (Goto(w, "leave") \/ Goto(w, "acquire"))
    BY <1>1, <1>2 DEF Goto, workerVars
  <2>3. UNCHANGED failure_message
    BY <2>1 DEF schedulerVars
  <2>4. QED
    BY <1>1, <2>1, <2>2, <2>3, WorkerStutters
<1>3. ASSUME NEW t \in Tasks, NEW to, Begin(w, t, to),
             \/ AcquirePostProcess(t) /\ to = "post"
             \/ AcquireSoftwareDecode(t) /\ to = "decode"
             \/ AcquireLoad(t) /\ to = "load"
      PROVE  Owned' /\ UNCHANGED failure_message
  <2>1. Keeps(t)
    BY <1>3, KeepsAcquire
  <2>2. /\ pc' = [pc EXCEPT ![w] = to] /\ job' = [job EXCEPT ![w] = t]
    BY <1>3 DEF Begin, Goto
  <2>3. SchedulerSound' /\ ~failed /\ failed' = failed /\ failure_message' = failure_message
    BY <1>3, SoundAcquirePostProcess, SoundAcquireSoftwareDecode, SoundAcquireLoad
       DEF AcquirePostProcess, AcquireSoftwareDecode, AcquireLoad, AcquireAllowed
  <2>4. stage[t] \in {"kDecoded", "kQueuedForSwDecode", "kPendingLoad"}
    <3>1. CASE AcquirePostProcess(t)
      <4>1. /\ ready_post # <<>> /\ t = Head(ready_post)
            /\ ready_post \in Seq(Tasks) /\ QueueOf(ready_post, stage, "kDecoded")
        BY <3>1, <2>3, SoundQueues DEF AcquirePostProcess
      <4>2. QED
        BY <4>1, PopFacts DEF QueueOf
    <3>2. CASE AcquireSoftwareDecode(t)
      <4>1. /\ ready_sw_decode # <<>> /\ t = Head(ready_sw_decode)
            /\ ready_sw_decode \in Seq(Tasks)
            /\ QueueOf(ready_sw_decode, stage, "kQueuedForSwDecode")
        BY <3>2, <2>3, SoundQueues DEF AcquireSoftwareDecode, SwJobPending
      <4>2. QED
        BY <4>1, PopFacts DEF QueueOf
    <3>3. CASE AcquireLoad(t)
      <4>1. t = next_load_index
        BY <3>3 DEF AcquireLoad
      <4>2. t >= t
        BY SchedulerAssumption DEF Tasks
      <4>3. QED
        BY <4>1, <4>2, <2>3 DEF SchedulerSound, StageSlots
    <3>4. QED
      BY <3>1, <3>2, <3>3, <1>3
  <2>5. /\ \A v \in Busy : job[v] # t
        /\ Submitting => submitting # t
        /\ Fresh => \A e \in Live : e.id # t
    BY <2>3, <2>4, WaitingIsNobodys DEF HeldStages
  <2>6. /\ to = "load" => stage'[t] = "kLoading"
        /\ to = "decode" => stage'[t] = "kSwDecoding"
        /\ to = "post" => stage'[t] = "kPostProcessing"
    BY <1>3 DEF AcquirePostProcess, AcquireSoftwareDecode, AcquireLoad, SchedulerSound,
                SchedulerTypeOK
  <2>7. /\ to \in {"load", "decode"} => src_slot'[t] # NoSlot
        /\ to \in {"decode", "post"} => dst_slot'[t] # NoSlot
    BY <1>3, <2>3, <2>6 DEF SchedulerSound, StageSlots, SrcStages, DstStages, HasSrc, HasDst
  <2>8. /\ w \in Loading' <=> to = "load"
        /\ w \in SwDecoding' <=> to = "decode"
        /\ w \in Posting' <=> to = "post"
        /\ w \notin Busy
        /\ job'[w] = t
        /\ \A v \in Workers \ {w} : pc'[v] = pc[v] /\ job'[v] = job[v]
    BY <1>1, <1>3, <2>2 DEF Loading, SwDecoding, Posting, Busy
  <2>9. QED
    BY <1>1, <2>1, <2>3, <2>5, <2>6, <2>7, <2>8, WorkerStepOwns
<1>4. QED
  BY <1>2, <1>3 DEF AcquireCpuJob

(* A step of a worker that ends its job: it reports a failure, or calls the *)
(* CompleteX of its job.                                                    *)
LEMMA WorkerEndsJob ==
  ASSUME Owned, ThreadsTypeOK, NEW w \in Busy, NEW to \in {"acquire", "stopped"},
         Keeps(job[w]), Goto(w, to), UNCHANGED <<job, managerVars, deviceVars>>
  PROVE  Owned'
<1>1. w \in Workers /\ pc' = [pc EXCEPT ![w] = to] /\ pc \in [Workers -> WorkerPcs]
      /\ job' = job
  BY DEF Goto, ThreadsTypeOK, Busy, Loading, SwDecoding, Posting
<1>2. \A v \in Workers \ {w} : pc'[v] = pc[v] /\ job'[v] = job[v]
  BY <1>1
<1>3. w \notin Busy' /\ w \notin Loading' /\ w \notin SwDecoding' /\ w \notin Posting'
  BY <1>1 DEF Busy, Loading, SwDecoding, Posting
<1>4. QED
  BY <1>1, <1>2, <1>3, JobIsItsWorkers, WorkerStepOwns

(* The steps of a job that use its buffers. *)
LEMMA UseBuffersOwns ==
  ASSUME ThreadsTypeOK, Owned, NoInternalFailure, NEW w \in Workers,
         LoadImageToDma(w) \/ SoftwareDecodeJpeg(w) \/ PostProcess(w)
  PROVE  Owned' /\ NoInternalFailure'
<1>1. /\ UNCHANGED <<managerVars, deviceVars, job>>
      /\ w \in Busy
  BY DEF LoadImageToDma, SoftwareDecodeJpeg, PostProcess, WorkerFails, Busy, Loading,
         SwDecoding, Posting
<1>2. /\ pc[w] = "load" => HasSrc(job[w])
      /\ pc[w] = "decode" => HasSrc(job[w]) /\ HasDst(job[w])
      /\ pc[w] = "post" => HasDst(job[w])
  BY DEF Owned, WorkersOwn, Loading, SwDecoding, Posting
<1>3. \/ /\ UNCHANGED schedulerVars
         /\ \/ pc[w] = "load" /\ Goto(w, "loaded")
            \/ pc[w] = "decode" /\ Goto(w, "decoded")
            \/ pc[w] = "post" /\ Goto(w, "posted")
      \/ \E message \in {"image load failed", "software decode failed"} :
           Fail(message) /\ Goto(w, "stopped")
  BY <1>2 DEF LoadImageToDma, SoftwareDecodeJpeg, PostProcess, WorkerFails
<1>4. CASE /\ UNCHANGED schedulerVars
           /\ \/ pc[w] = "load" /\ Goto(w, "loaded")
              \/ pc[w] = "decode" /\ Goto(w, "decoded")
              \/ pc[w] = "post" /\ Goto(w, "posted")
  <2>1. Owned'
    BY <1>1, <1>4, WorkerStutters
  <2>2. QED
    BY <1>4, <2>1 DEF schedulerVars, NoInternalFailure
<1>5. ASSUME NEW message \in {"image load failed", "software decode failed"},
             Fail(message), Goto(w, "stopped")
      PROVE  Owned' /\ NoInternalFailure'
  <2>1. Owned'
    BY <1>1, <1>5, KeepsFail, WorkerEndsJob
  <2>2. failure_message' \in {message, failure_message}
    BY <1>5, KeepsFail
  <2>3. QED
    BY <2>1, <2>2 DEF NoInternalFailure
<1>6. QED
  BY <1>3, <1>4, <1>5

(* The CompleteX methods as the workers call them: none is rejected. *)
LEMMA CompleteOwns ==
  ASSUME SchedulerSound, ThreadsTypeOK, Owned, NoInternalFailure, NEW w \in Workers,
         CompleteJob(w)
  PROVE  Owned' /\ NoInternalFailure'
<1> DEFINE t == job[w]
<1>1. /\ UNCHANGED <<managerVars, deviceVars, job>> /\ Goto(w, "acquire")
      /\ w \in Busy
  BY DEF CompleteJob, Busy, Loading, SwDecoding, Posting
<1>2. t \in Tasks
  BY <1>1 DEF ThreadsTypeOK
<1>3. \/ pc[w] = "loaded" /\ CompleteLoad(t)
      \/ pc[w] = "decoded" /\ CompleteSoftwareDecode(t)
      \/ pc[w] = "posted" /\ CompletePostProcess(t)
  BY DEF CompleteJob
<1>4. /\ pc[w] = "loaded" => HasSrc(t) /\ (~failed => stage[t] = "kLoading")
      /\ pc[w] = "decoded" => /\ HasSrc(t) /\ HasDst(t)
                              /\ ~failed => stage[t] = "kSwDecoding"
      /\ pc[w] = "posted" => HasDst(t) /\ (~failed => stage[t] = "kPostProcessing")
  BY DEF Owned, WorkersOwn, Loading, SwDecoding, Posting
<1> HIDE DEF t
<1>5. Keeps(t)
  BY <1>2, <1>3, KeepsComplete, KeepsPostProcess
<1>6. Owned'
  BY <1>1, <1>5, WorkerEndsJob DEF t
<1>7. failure_message' = failure_message
  BY <1>3, <1>4 DEF CompleteLoad, CompleteSoftwareDecode, CompletePostProcess,
     LoadCompleted, DecodeEnds, DecodeCompleted, PostProcessCompleted, Ignored,
     schedulerVars
<1>8. QED
  BY <1>6, <1>7 DEF NoInternalFailure

LEMMA WorkerOwns ==
  ASSUME SchedulerSound, ThreadsTypeOK, Owned, NoInternalFailure, NEW w \in Workers,
         Worker(w)
  PROVE  Owned' /\ NoInternalFailure'
<1>1. CASE AcquireCpuJob(w)
  BY <1>1, AcquireOwns DEF NoInternalFailure
<1>2. CASE LoadImageToDma(w) \/ SoftwareDecodeJpeg(w) \/ PostProcess(w)
  BY <1>2, UseBuffersOwns
<1>3. CASE CompleteJob(w)
  BY <1>3, CompleteOwns
<1>4. CASE WorkerLeaves(w)
  <2>1. UNCHANGED <<schedulerVars, job, managerVars, deviceVars>> /\ Goto(w, "stopped")
    BY <1>4 DEF WorkerLeaves
  <2>2. QED
    BY <2>1, WorkerStutters DEF NoInternalFailure, schedulerVars
<1>5. QED
  BY <1>1, <1>2, <1>3, <1>4 DEF Worker

-----------------------------------------------------------------------------
(* The hardware manager *)

(* The workers keep their tasks through a step on behalf of none of them. *)
LEMMA WorkersStay ==
  ASSUME Owned, ThreadsTypeOK, UNCHANGED workerVars, NEW t, Keeps(t),
         \A w \in Busy : job[w] # t
  PROVE  WorkersOwn'
<1>1. /\ UNCHANGED <<pc, job>>
      /\ Loading' = Loading /\ SwDecoding' = SwDecoding /\ Posting' = Posting
      /\ Busy' = Busy
      /\ Loading \subseteq Busy /\ SwDecoding \subseteq Busy /\ Posting \subseteq Busy
  BY DEF workerVars, Busy, Loading, SwDecoding, Posting
<1>2. \A w \in Busy :
        /\ w \in Loading \union SwDecoding => src_slot'[job[w]] # NoSlot
        /\ w \in SwDecoding \union Posting => dst_slot'[job[w]] # NoSlot
        /\ ~failed' => /\ w \in Loading => stage'[job[w]] = "kLoading"
                       /\ w \in SwDecoding => stage'[job[w]] = "kSwDecoding"
                       /\ w \in Posting => stage'[job[w]] = "kPostProcessing"
  BY WorkersKeep DEF Owned
<1>3. \A v, w \in Busy : v # w => job[v] # job[w]
  BY DEF Owned, WorkersOwn
<1>4. QED
  BY <1>1, <1>2, <1>3 DEF WorkersOwn, HasSrc, HasDst

(* A task in the device stays in flight through a step on behalf of another. *)
LEMMA DeviceStays ==
  ASSUME Owned, ThreadsTypeOK, Fresh, UNCHANGED workerVars, NEW e \in Live,
         NEW t, Keeps(t), e.id # t,
         manager' \in {"poll", "recheck", "write", "commit"} => e.id # submitting',
         \/ manager # "submit" \/ e.id # submitting
         \/ manager' = "submit" /\ submitting' = submitting
  PROVE  InFlight(e)'
<1>1. InFlight(e)
  BY DEF Owned, DeviceOwns
<1>2. /\ e.id \in Tasks
      /\ src_slot'[e.id] # NoSlot
      /\ dst_slot'[e.id] # NoSlot
      /\ e = [id |-> e.id, src |-> src_slot'[e.id], dst |-> dst_slot'[e.id]]
      /\ ~failed' => stage'[e.id] = stage[e.id]
      /\ ~failed' => \/ stage[e.id] = "kHwInflight"
                     \/ manager = "submit" /\ e.id = submitting
  BY <1>1, DeviceKeeps DEF Owned, ThreadsTypeOK
<1>3. \A w \in Busy' : job'[w] # e.id
  BY <1>1 DEF InFlight, Busy, Loading, SwDecoding, Posting, workerVars
<1>4. ~failed' => \/ stage'[e.id] = "kHwInflight"
                  \/ manager' = "submit" /\ e.id = submitting'
  BY <1>2
<1>5. QED
  BY <1>2, <1>3, <1>4 DEF InFlight, HasSrc, HasDst, Descriptor

(* The manager moves on without a new task; a task may be dropped. *)
LEMMA ManagerStutters ==
  ASSUME Owned, ThreadsTypeOK, Keeps(NoTask),
         UNCHANGED <<workerVars, desc_fifo, cpl_fifo, slot_state, slot_task, cpl, submitting>>,
         Fresh' = Fresh,
         manager # "submit", manager' # "submit",
         Submitting' => Submitting,
         manager' = "commit" => mmio_desc' = Descriptor(submitting)',
         InHand' \subseteq InHand,
         manager' \in {"unknown", "spurious"} => failed
  PROVE  Owned'
<1>1. WorkersOwn'
  BY WorkersStay, NoTaskIsNobodys
<1>2. ManagerOwns'
  <2> SUFFICES ASSUME Submitting'
               PROVE  /\ HasSrc(submitting)' /\ HasDst(submitting)'
                      /\ ~failed' => stage'[submitting'] = "kHwSubmitting"
                      /\ \A w \in Busy' : job'[w] # submitting'
    BY DEF ManagerOwns
  <2>1. Submitting /\ submitting' = submitting /\ submitting # NoTask
    BY NoTaskIsNobodys
  <2>2. /\ src_slot'[submitting] # NoSlot
        /\ dst_slot'[submitting] # NoSlot
        /\ ~failed' => stage'[submitting] = "kHwSubmitting"
    BY <2>1, ManagerKeeps DEF Owned
  <2>3. \A w \in Busy' : job'[w] # submitting
    BY <2>1 DEF Owned, ManagerOwns, Busy, Loading, SwDecoding, Posting, workerVars
  <2>4. QED
    BY <2>1, <2>2, <2>3 DEF HasSrc, HasDst
<1>3. RejectsOnlyAfterFailure'
  BY DEF RejectsOnlyAfterFailure, Keeps
<1>4. DeviceOwns'
  <2> SUFFICES ASSUME Fresh'
               PROVE  OnePlaceEach' /\ \A e \in Live' : InFlight(e)'
    BY DEF DeviceOwns
  <2>1. /\ Running' = Running /\ RunningTasks' = RunningTasks
        /\ UNCHANGED <<desc_fifo, cpl_fifo, slot_task>>
    BY DEF Running, RunningTasks
  <2>2. Fresh /\ Live' \subseteq Live
    BY <2>1 DEF Live
  <2>3. OnePlaceEach /\ \A e \in Live : InFlight(e)
    BY <2>2 DEF Owned, DeviceOwns
  <2>4. OnePlaceEach'
    BY <2>1, <2>3 DEF OnePlaceEach
  <2>5. ASSUME NEW e \in Live
        PROVE  InFlight(e)'
    <3>1. e.id # NoTask
      BY <2>2, NoTaskIsNobodys
    <3>2. manager' \in {"poll", "recheck", "write", "commit"} => e.id # submitting'
      <4>1. InFlight(e) /\ submitting' = submitting
        BY <2>3, <2>5
      <4>2. manager' \in {"poll", "recheck", "write", "commit"}
              => manager \in {"poll", "recheck", "write", "commit"}
        BY DEF Submitting
      <4>3. QED
        BY <4>1, <4>2 DEF InFlight
    <3>3. QED
      BY <2>2, <3>1, <3>2, DeviceStays
  <2>6. QED
    BY <2>2, <2>4, <2>5
<1>5. QED
  BY <1>1, <1>2, <1>3, <1>4 DEF Owned

(* The steps that read the Scheduler or the device, or tell the simulator. *)
LEMMA LooksOwns ==
  ASSUME Owned, ThreadsTypeOK, NoInternalFailure,
         \/ EnableSimulation \/ LoopHead \/ LookUpTask \/ CheckFailure
         \/ WriteRegisters \/ DisableSimulation \/ ManagerLeaves
  PROVE  Owned' /\ NoInternalFailure'
<1>1. /\ UNCHANGED schedulerVars
      /\ UNCHANGED <<workerVars, desc_fifo, cpl_fifo, slot_state, slot_task, cpl, submitting>>
  BY DEF EnableSimulation, LoopHead, LookUpTask, CheckFailure, WriteRegisters,
         DisableSimulation, ManagerLeaves, WriteDescriptor, deviceVars, OnlyManagerMoves
<1>2. Keeps(NoTask) /\ NoInternalFailure'
  BY <1>1, KeepsStutter DEF schedulerVars, NoInternalFailure
<1>3. /\ Fresh' = Fresh
      /\ manager # "submit" /\ manager' # "submit"
      /\ Submitting' => Submitting
      /\ InHand' \subseteq InHand
  BY <1>1 DEF EnableSimulation, LoopHead, LookUpTask, CheckFailure, WriteRegisters,
     DisableSimulation, ManagerLeaves, At, Fresh, Submitting, InHand
<1>4. manager' = "commit" => mmio_desc' = Descriptor(submitting)'
  BY <1>1 DEF EnableSimulation, LoopHead, LookUpTask, CheckFailure, WriteRegisters,
     DisableSimulation, ManagerLeaves, At, WriteDescriptor, Descriptor, schedulerVars,
     taskVars
<1>5. manager' \in {"unknown", "spurious"} => failed
  <2>1. CASE LookUpTask
    <3>1. manager = "lookup"
      BY <2>1 DEF LookUpTask, At
    <3>2. InFlight(cpl)
      BY <3>1 DEF Owned, DeviceOwns, Fresh, Live, InHand
    <3>3. cpl.id \in Tasks /\ (~failed => stage[cpl.id] = "kHwInflight")
      BY <3>1, <3>2 DEF InFlight
    <3>4. QED
      BY <2>1, <3>3 DEF LookUpTask, At
  <2>2. CASE ~LookUpTask
    BY <2>2 DEF EnableSimulation, LoopHead, CheckFailure, WriteRegisters,
       DisableSimulation, ManagerLeaves, At
  <2>3. QED
    BY <2>1, <2>2
<1>6. QED
  BY <1>1, <1>2, <1>3, <1>4, <1>5, ManagerStutters

(* The completions of the manager are never rejected before a failure, and  *)
(* the task it submits has its slots.                                       *)
LEMMA RejectOrPollOwns ==
  ASSUME Owned, ThreadsTypeOK, NoInternalFailure, RejectCompletion \/ PollDescriptors
  PROVE  Owned' /\ NoInternalFailure'
<1>1. /\ UNCHANGED <<workerVars, deviceVars, cpl, submitting>>
      /\ manager \in {"unknown", "spurious", "poll"}
      /\ manager = "poll" => manager' \in {"exit", "recheck"}
      /\ manager # "poll" => manager' = "check"
  BY DEF RejectCompletion, PollDescriptors, At, OnlyManagerMoves
<1>2. /\ manager \in {"unknown", "spurious"} => failed
      /\ manager = "poll" => HasSrc(submitting) /\ HasDst(submitting)
  BY DEF Owned, RejectsOnlyAfterFailure, ManagerOwns, Submitting
<1>3. \/ UNCHANGED schedulerVars
      \/ \E message \in {"invalid descriptor", "timed out"} : Fail(message)
      \/ failed /\ \E message : Fail(message)
  BY <1>1, <1>2 DEF RejectCompletion, PollDescriptors, At
<1>4. Keeps(NoTask) /\ NoInternalFailure'
  <2>1. CASE UNCHANGED schedulerVars
    BY <2>1, KeepsStutter DEF schedulerVars, NoInternalFailure
  <2>2. ASSUME NEW message \in {"invalid descriptor", "timed out"}, Fail(message)
        PROVE  Keeps(NoTask) /\ NoInternalFailure'
    <3>1. failure_message' \in {message, failure_message}
      BY <2>2, KeepsFail
    <3>2. QED
      BY <2>2, <3>1, KeepsFail DEF NoInternalFailure
  <2>3. CASE failed /\ \E message : Fail(message)
    BY <2>3, KeepsFail DEF NoInternalFailure
  <2>4. QED
    BY <1>3, <2>1, <2>2, <2>3
<1>5. /\ Fresh' = Fresh
      /\ Submitting' => Submitting
      /\ InHand' \subseteq InHand
  BY <1>1 DEF Fresh, Submitting, InHand
<1>6. QED
  BY <1>1, <1>4, <1>5, ManagerStutters DEF deviceVars

(* Nothing of an earlier run survives the reset. *)
LEMMA ResetOwns ==
  ASSUME Owned, ThreadsTypeOK, NoInternalFailure, ResetDevice
  PROVE  Owned' /\ NoInternalFailure'
<1>1. /\ UNCHANGED schedulerVars
      /\ UNCHANGED workerVars
      /\ manager' = "loop"
      /\ desc_fifo' = <<>> /\ cpl_fifo' = <<>>
      /\ \A d \in Decoders : slot_state'[d] # "SLOT_RUN"
  BY DEF ResetDevice, At, MmioReset, OnlyManagerMoves
<1>2. WorkersOwn' /\ NoInternalFailure'
  BY <1>1, KeepsStutter, WorkersStay, NoTaskIsNobodys DEF schedulerVars, NoInternalFailure
<1>3. ManagerOwns' /\ RejectsOnlyAfterFailure'
  BY <1>1 DEF ManagerOwns, Submitting, RejectsOnlyAfterFailure
<1>4. Running' = {} /\ RunningTasks' = {} /\ InHand' = {}
  BY <1>1 DEF Running, RunningTasks, InHand
<1>5. Range(desc_fifo') = {} /\ Range(cpl_fifo') = {} /\ Live' = {}
  BY <1>1, <1>4, EmptyFacts DEF Live
<1>6. OnePlaceEach'
  BY <1>1, <1>4, <1>5, EmptyFacts DEF OnePlaceEach
<1>7. QED
  BY <1>2, <1>3, <1>5, <1>6 DEF Owned, DeviceOwns

(* A completion moves from the FIFO to the manager's hand. *)
LEMMA PopOwns ==
  ASSUME Owned, ThreadsTypeOK, DeviceTypeOK, NoInternalFailure, TryPopCompletion
  PROVE  Owned' /\ NoInternalFailure'
<1>1. /\ UNCHANGED schedulerVars
      /\ UNCHANGED <<workerVars, submitting, mmio_desc, desc_fifo, slot_state, slot_task>>
      /\ manager = "drain" /\ manager' \in {"lookup", "check"}
  BY DEF TryPopCompletion, At, PopCompletion, deviceVars, OnlyManagerMoves
<1>2. NoInternalFailure' /\ Keeps(NoTask)
  BY <1>1, KeepsStutter DEF schedulerVars, NoInternalFailure
<1>3. CASE UNCHANGED <<deviceVars, cpl>> /\ manager' = "check"
  BY <1>1, <1>2, <1>3, ManagerStutters DEF deviceVars, Fresh, Submitting, InHand
<1>4. CASE PopCompletion /\ cpl' = Head(cpl_fifo) /\ manager' = "lookup"
  <2>1. /\ cpl_fifo # <<>> /\ cpl_fifo \in Seq(Descriptors \union {NoDesc})
        /\ cpl_fifo' = Tail(cpl_fifo)
    BY <1>4 DEF PopCompletion, DeviceTypeOK
  <2>2. /\ Range(cpl_fifo) = Range(Tail(cpl_fifo)) \union {Head(cpl_fifo)}
        /\ Distinct(cpl_fifo) => /\ Distinct(Tail(cpl_fifo))
                                 /\ Head(cpl_fifo) \notin Range(Tail(cpl_fifo))
    BY <2>1, PopFacts
  <2>3. OnePlaceEach /\ \A e \in Live : InFlight(e)
    BY <1>1 DEF Owned, DeviceOwns, Fresh
  <2>4. /\ Running' = Running /\ RunningTasks' = RunningTasks
        /\ InHand = {} /\ InHand' = {Head(cpl_fifo)}
    BY <1>1, <1>4 DEF Running, RunningTasks, InHand
  <2>5. Live' = Live
    BY <1>1, <2>1, <2>2, <2>4 DEF Live
  <2>6. OnePlaceEach'
    BY <1>1, <2>1, <2>2, <2>3, <2>4 DEF OnePlaceEach
  <2>7. ASSUME NEW e \in Live
        PROVE  InFlight(e)'
    BY <1>1, <1>2, <1>4, <2>7, NoTaskIsNobodys, DeviceStays DEF Fresh
  <2>8. WorkersOwn'
    BY <1>1, <1>2, WorkersStay, NoTaskIsNobodys
  <2>9. ManagerOwns' /\ RejectsOnlyAfterFailure'
    BY <1>4 DEF ManagerOwns, Submitting, RejectsOnlyAfterFailure
  <2>10. QED
    BY <1>2, <2>5, <2>6, <2>7, <2>8, <2>9 DEF Owned, DeviceOwns
<1>5. QED
  BY <1>3, <1>4 DEF TryPopCompletion, At

(* The completion in hand is for a task in flight; it leaves the device. *)
LEMMA AcceptOwns ==
  ASSUME SchedulerSound, ThreadsTypeOK, Owned, NoInternalFailure, AcceptCompletion
  PROVE  Owned' /\ NoInternalFailure'
<1>1. /\ CompleteHardwareDecode(cpl.id)
      /\ UNCHANGED <<workerVars, deviceVars, cpl, submitting>>
      /\ manager = "complete" /\ manager' = "drain"
  BY DEF AcceptCompletion, At, OnlyManagerMoves
<1>2. OnePlaceEach /\ \A e \in Live : InFlight(e)
  BY <1>1 DEF Owned, DeviceOwns, Fresh
<1>3. InHand = {cpl} /\ cpl \in Live
  BY <1>1 DEF InHand, Live
<1>4. /\ cpl.id \in Tasks /\ HasSrc(cpl.id) /\ HasDst(cpl.id)
      /\ cpl = Descriptor(cpl.id)
      /\ ~failed => stage[cpl.id] = "kHwInflight"
      /\ \A w \in Busy : job[w] # cpl.id
  BY <1>1, <1>2, <1>3 DEF InFlight
<1>5. Keeps(cpl.id)
  BY <1>1, <1>4, KeepsComplete
<1>6. NoInternalFailure'
  BY <1>1, <1>4 DEF CompleteHardwareDecode, DecodeEnds, DecodeCompleted, Ignored,
     schedulerVars, NoInternalFailure
<1>7. WorkersOwn'
  BY <1>1, <1>4, <1>5, WorkersStay
<1>8. ManagerOwns' /\ RejectsOnlyAfterFailure'
  BY <1>1 DEF ManagerOwns, Submitting, RejectsOnlyAfterFailure
<1>9. /\ Running' = Running /\ RunningTasks' = RunningTasks
      /\ UNCHANGED <<desc_fifo, cpl_fifo, slot_task>>
      /\ InHand' = {}
  BY <1>1 DEF Running, RunningTasks, InHand, deviceVars
<1>10. OnePlaceEach'
  BY <1>2, <1>9 DEF OnePlaceEach
<1>11. ASSUME NEW e \in Live'
       PROVE  InFlight(e)'
  <2>1. e \in Live /\ e # cpl
    BY <1>2, <1>3, <1>9, <1>11 DEF Live, OnePlaceEach
  <2>2. e = Descriptor(e.id)
    BY <1>2, <2>1 DEF InFlight
  <2>3. e.id # cpl.id
    BY <1>4, <2>1, <2>2
  <2>4. QED
    BY <1>1, <1>5, <2>1, <2>3, DeviceStays DEF Fresh
<1>12. QED
  BY <1>6, <1>7, <1>8, <1>10, <1>11 DEF Owned, DeviceOwns

(* The manager takes a task from the queue, which is in nobody's hands. *)
LEMMA SubmitOwns ==
  ASSUME SchedulerSound, ThreadsTypeOK, Owned, NoInternalFailure,
         TryAcquireHardwareSubmitTask
  PROVE  Owned' /\ NoInternalFailure'
<1>1. /\ UNCHANGED <<workerVars, deviceVars, cpl>>
      /\ manager = "acquire"
  BY DEF TryAcquireHardwareSubmitTask, At, OnlyManagerMoves
<1>2. CASE AcquireNoHardwareSubmit /\ manager' = "loop" /\ submitting' = submitting
  <2>1. \A t : Keeps(t)
    BY <1>2 DEF AcquireNoHardwareSubmit, taskVars, Keeps
  <2>2. NoInternalFailure'
    BY <1>2 DEF AcquireNoHardwareSubmit, NoInternalFailure
  <2>3. QED
    BY <1>1, <1>2, <2>1, <2>2, ManagerStutters DEF deviceVars, Fresh, Submitting, InHand
<1>3. ASSUME NEW t \in Tasks, AcquireHardwareSubmit(t), manager' = "poll", submitting' = t
      PROVE  Owned' /\ NoInternalFailure'
  <2>1. Keeps(t)
    BY <1>3, KeepsAcquire
  <2>2. SchedulerSound' /\ ~failed /\ ~failed' /\ failure_message' = failure_message
    BY <1>3, SoundAcquireHardwareSubmit DEF AcquireHardwareSubmit, HwSubmitPossible
  <2>3. stage[t] = "kQueuedForHwSubmit"
    <3>1. /\ ready_hw_submit # <<>> /\ t = Head(ready_hw_submit)
          /\ ready_hw_submit \in Seq(Tasks)
          /\ QueueOf(ready_hw_submit, stage, "kQueuedForHwSubmit")
      BY <1>3, <2>2, SoundQueues DEF AcquireHardwareSubmit, HwSubmitPossible
    <3>2. QED
      BY <3>1, PopFacts DEF QueueOf
  <2>4. /\ \A w \in Busy : job[w] # t
        /\ Fresh => \A e \in Live : e.id # t
    BY <2>2, <2>3, WaitingIsNobodys DEF HeldStages
  <2>5. WorkersOwn'
    BY <1>1, <2>1, <2>4, WorkersStay
  <2>6. stage'[t] = "kHwSubmitting"
    BY <1>3 DEF AcquireHardwareSubmit, SchedulerSound, SchedulerTypeOK
  <2>7. HasSrc(t)' /\ HasDst(t)'
    BY <2>2, <2>6 DEF SchedulerSound, StageSlots, SrcStages, DstStages
  <2>8. \A w \in Busy' : job'[w] # t
    BY <1>1, <2>4 DEF workerVars, Busy, Loading, SwDecoding, Posting
  <2>9. ManagerOwns' /\ RejectsOnlyAfterFailure'
    BY <1>3, <2>6, <2>7, <2>8 DEF ManagerOwns, RejectsOnlyAfterFailure, HasSrc, HasDst
  <2>10. /\ Fresh /\ Live' = Live /\ (OnePlaceEach' <=> OnePlaceEach)
    BY <1>1, <1>3 DEF Fresh, Live, RunningTasks, Running, InHand, OnePlaceEach, deviceVars
  <2>11. ASSUME NEW e \in Live
         PROVE  InFlight(e)'
    BY <1>1, <1>3, <2>1, <2>4, <2>10, <2>11, DeviceStays
  <2>12. QED
    BY <2>2, <2>5, <2>9, <2>10, <2>11 DEF Owned, DeviceOwns, NoInternalFailure
<1>4. QED
  BY <1>2, <1>3 DEF TryAcquireHardwareSubmitTask, At

(* The descriptor of the task joins the FIFO. *)
LEMMA CommitOwns ==
  ASSUME DeviceTypeOK, ThreadsTypeOK, Owned, NoInternalFailure, CommitDescriptor
  PROVE  Owned' /\ NoInternalFailure'
<1>1. /\ DescCommit
      /\ UNCHANGED schedulerVars
      /\ UNCHANGED <<workerVars, cpl, submitting, mmio_desc, cpl_fifo, slot_state, slot_task>>
      /\ manager = "commit" /\ manager' = "submit"
  BY DEF CommitDescriptor, At, DescCommit, OnlyManagerMoves
<1> DEFINE new == mmio_desc
<1>2. /\ submitting \in Tasks /\ HasSrc(submitting) /\ HasDst(submitting)
      /\ ~failed => stage[submitting] = "kHwSubmitting"
      /\ new = Descriptor(submitting)
      /\ \A w \in Busy : job[w] # submitting
  BY <1>1 DEF Owned, ManagerOwns, Submitting, ThreadsTypeOK
<1>3. NoInternalFailure' /\ Keeps(NoTask)
  BY <1>1, KeepsStutter DEF schedulerVars, NoInternalFailure
<1>4. WorkersOwn'
  BY <1>1, <1>3, WorkersStay, NoTaskIsNobodys
<1>5. UNCHANGED <<src_slot, dst_slot, stage, failed>> /\ Busy' = Busy /\ UNCHANGED job
  BY <1>1 DEF schedulerVars, taskVars, workerVars, Busy, Loading, SwDecoding, Posting
<1>6. ManagerOwns' /\ RejectsOnlyAfterFailure'
  BY <1>1, <1>2, <1>5 DEF ManagerOwns, RejectsOnlyAfterFailure, HasSrc, HasDst
<1>7. OnePlaceEach /\ \A e \in Live : InFlight(e)
  BY <1>1 DEF Owned, DeviceOwns, Fresh
<1>8. new \notin Live
  <2>1. new.id = submitting
    BY <1>2 DEF Descriptor
  <2>2. QED
    BY <1>1, <1>7, <2>1 DEF InFlight
<1>9. /\ Running' = Running /\ RunningTasks' = RunningTasks
      /\ InHand = {} /\ InHand' = {}
      /\ UNCHANGED <<cpl_fifo, slot_task>>
  BY <1>1 DEF Running, RunningTasks, InHand
<1>10. desc_fifo \in Seq(Descriptors \union {NoDesc}) /\ new \in Descriptors \union {NoDesc}
  BY DEF DeviceTypeOK
<1>11. \/ desc_fifo' = desc_fifo
       \/ /\ desc_fifo' = Append(desc_fifo, new)
          /\ Range(desc_fifo') = Range(desc_fifo) \union {new}
          /\ Distinct(desc_fifo) /\ new \notin Range(desc_fifo) => Distinct(desc_fifo')
  BY <1>1, <1>10, PushFacts DEF DescCommit
<1> HIDE DEF new
<1>12. Live' \subseteq Live \union {new}
  BY <1>9, <1>11 DEF Live
<1>13. OnePlaceEach'
  <2>1. new \notin Range(desc_fifo) \union RunningTasks \union Range(cpl_fifo)
    BY <1>8 DEF Live
  <2>2. QED
    BY <1>7, <1>9, <1>11, <2>1 DEF OnePlaceEach
<1>14. ASSUME NEW e \in Live
       PROVE  InFlight(e)'
  BY <1>1, <1>3, <1>14, NoTaskIsNobodys, DeviceStays DEF Fresh
<1>15. InFlight(new)'
  <2>1. new = [id |-> submitting, src |-> src_slot[submitting], dst |-> dst_slot[submitting]]
    BY <1>2 DEF Descriptor
  <2>2. new.id = submitting
    BY <2>1
  <2>3. new' = new /\ submitting' = submitting
    BY <1>1 DEF new
  <2>4. QED
    BY <1>1, <1>2, <1>5, <2>1, <2>2, <2>3 DEF InFlight, Descriptor, HasSrc, HasDst
<1>16. QED
  <2>1. \A e \in Live' : InFlight(e)'
    BY <1>12, <1>14, <1>15, <1>1 DEF new
  <2>2. QED
    BY <1>3, <1>4, <1>6, <1>13, <2>1 DEF Owned, DeviceOwns

(* The task the manager has submitted is in flight, if the device has it. *)
LEMMA FinishSubmitOwns ==
  ASSUME SchedulerSound, ThreadsTypeOK, Owned, NoInternalFailure, FinishSubmit
  PROVE  Owned' /\ NoInternalFailure'
<1>1. /\ CompleteHardwareSubmit(submitting)
      /\ UNCHANGED <<workerVars, deviceVars, cpl, submitting>>
      /\ manager = "submit" /\ manager' = "loop"
  BY DEF FinishSubmit, At, OnlyManagerMoves
<1> DEFINE t == submitting
<1>2. /\ t \in Tasks /\ HasSrc(t) /\ HasDst(t)
      /\ ~failed => stage[t] = "kHwSubmitting"
      /\ \A w \in Busy : job[w] # t
  BY <1>1 DEF Owned, ManagerOwns, Submitting, ThreadsTypeOK
<1>3. Keeps(t)
  BY <1>1, <1>2, KeepsComplete
<1>4. /\ UNCHANGED <<src_slot, dst_slot, failed, failure_message>>
      /\ ~failed => stage' = [stage EXCEPT ![t] = "kHwInflight"]
  BY <1>1, <1>2 DEF CompleteHardwareSubmit, DecodeEnds, Ignored, schedulerVars, taskVars
<1>5. WorkersOwn'
  BY <1>1, <1>2, <1>3, WorkersStay
<1>6. ManagerOwns' /\ RejectsOnlyAfterFailure' /\ NoInternalFailure'
  BY <1>1, <1>4 DEF ManagerOwns, Submitting, RejectsOnlyAfterFailure, NoInternalFailure
<1>7. OnePlaceEach /\ \A e \in Live : InFlight(e)
  BY <1>1 DEF Owned, DeviceOwns, Fresh
<1>8. Live' = Live
  BY <1>1 DEF Live, RunningTasks, Running, InHand, deviceVars
<1>9. ASSUME NEW e \in Live
      PROVE  InFlight(e)'
  <2>1. CASE e.id # t
    BY <1>1, <1>3, <1>9, <2>1, DeviceStays DEF Fresh
  <2>2. CASE e.id = t
    <3>1. e = Descriptor(t)
      BY <1>7, <1>9, <2>2 DEF InFlight
    <3>2. ~failed' => stage'[t] = "kHwInflight"
      BY <1>2, <1>4 DEF SchedulerSound, SchedulerTypeOK
    <3>3. \A w \in Busy' : job'[w] # t
      BY <1>1, <1>2 DEF workerVars, Busy, Loading, SwDecoding, Posting
    <3> HIDE DEF t
    <3>4. QED
      BY <1>1, <1>2, <1>4, <2>2, <3>1, <3>2, <3>3 DEF InFlight, Descriptor, HasSrc, HasDst
  <2>3. QED
    BY <2>1, <2>2
<1>10. OnePlaceEach'
  BY <1>1, <1>7 DEF RunningTasks, Running, InHand, OnePlaceEach, deviceVars
<1>11. QED
  BY <1>5, <1>6, <1>8, <1>9, <1>10 DEF Owned, DeviceOwns

LEMMA ManagerStepOwns ==
  ASSUME SchedulerSound, DeviceTypeOK, ThreadsTypeOK, Owned, NoInternalFailure, Manager
  PROVE  Owned' /\ NoInternalFailure'
BY LooksOwns, RejectOrPollOwns, ResetOwns, PopOwns, AcceptOwns, SubmitOwns, CommitOwns,
   FinishSubmitOwns DEF Manager

-----------------------------------------------------------------------------
(* The decoder cores *)

(* What a core does to the places its descriptors are in, when the FIFOs    *)
(* and slots hold each once.                                                *)
LEMMA CoreMoves ==
  ASSUME DeviceTypeOK, OnePlaceEach, NEW d \in Decoders, SlotStep(d),
         UNCHANGED <<manager, cpl>>
  PROVE  OnePlaceEach' /\ Live' \subseteq Live
<1>1. InHand' = InHand
  BY DEF InHand
<1>2. /\ slot_state \in [Decoders -> SlotStates]
      /\ slot_task \in [Decoders -> Descriptors \union {NoDesc}]
  BY DEF DeviceTypeOK
<1>3. CASE StartDecode(d)
  <2> DEFINE h == Head(desc_fifo)
  <2>1. /\ desc_fifo # <<>> /\ desc_fifo' = Tail(desc_fifo)
        /\ slot_state[d] = "SLOT_IDLE"
        /\ slot_state' = [slot_state EXCEPT ![d] = "SLOT_RUN"]
        /\ slot_task' = [slot_task EXCEPT ![d] = h]
        /\ cpl_fifo' = cpl_fifo
    BY <1>3 DEF StartDecode
  <2>2. /\ Range(desc_fifo) = Range(desc_fifo') \union {h}
        /\ Distinct(desc_fifo') /\ h \notin Range(desc_fifo')
    BY <2>1, PopFacts DEF DeviceTypeOK, OnePlaceEach
  <2> HIDE DEF h
  <2>3. /\ Running' = Running \union {d} /\ d \notin Running
        /\ slot_task'[d] = h
        /\ \A e \in Running : slot_task'[e] = slot_task[e]
    BY <1>2, <2>1 DEF Running
  <2>4. RunningTasks' = RunningTasks \union {h}
    BY <2>3 DEF RunningTasks
  <2>5. h \notin RunningTasks
    BY <2>2 DEF OnePlaceEach
  <2>6. \A x, y \in Running' : x # y => slot_task'[x] # slot_task'[y]
    BY <2>3, <2>5 DEF OnePlaceEach, RunningTasks
  <2>7. OnePlaceEach'
    BY <1>1, <2>1, <2>2, <2>4, <2>6 DEF OnePlaceEach
  <2>8. Live' = Live
    BY <1>1, <2>1, <2>2, <2>4 DEF Live
  <2>9. QED
    BY <2>7, <2>8
<1>4. CASE FinishDecode(d)
  <2> DEFINE x == slot_task[d]
  <2>1. /\ slot_state[d] = "SLOT_RUN" /\ slot_state'[d] # "SLOT_RUN"
        /\ \A e \in Decoders \ {d} : slot_state'[e] = slot_state[e]
        /\ desc_fifo' = desc_fifo /\ slot_task' = slot_task
        /\ cpl_fifo' \in {cpl_fifo, Append(cpl_fifo, x)}
    BY <1>2, <1>4 DEF FinishDecode
  <2>2. Running' = Running \ {d} /\ d \in Running
    BY <2>1 DEF Running
  <2>3. RunningTasks' = RunningTasks \ {x} /\ x \in RunningTasks
    BY <2>1, <2>2 DEF RunningTasks, OnePlaceEach
  <2>4. x \in Descriptors \union {NoDesc} /\ x \notin Range(cpl_fifo)
    BY <1>2, <2>3 DEF OnePlaceEach
  <2> HIDE DEF x
  <2>5. /\ Distinct(cpl_fifo')
        /\ Range(cpl_fifo') \subseteq Range(cpl_fifo) \union {x}
    <3>1. cpl_fifo \in Seq(Descriptors \union {NoDesc}) /\ Distinct(cpl_fifo)
      BY DEF DeviceTypeOK, OnePlaceEach
    <3>2. /\ Range(Append(cpl_fifo, x)) = Range(cpl_fifo) \union {x}
          /\ Distinct(Append(cpl_fifo, x))
      BY <3>1, <2>4, PushFacts
    <3>3. CASE cpl_fifo' = cpl_fifo
      BY <3>1, <3>3
    <3>4. CASE cpl_fifo' = Append(cpl_fifo, x)
      BY <3>2, <3>4
    <3>5. QED
      BY <2>1, <3>3, <3>4
  <2>6. OnePlaceEach'
    BY <1>1, <2>1, <2>2, <2>3, <2>5 DEF OnePlaceEach
  <2>7. Live' \subseteq Live
    BY <1>1, <2>1, <2>3, <2>5 DEF Live
  <2>8. QED
    BY <2>6, <2>7
<1>5. CASE DrainSource(d) \/ ReleaseSlot(d)
  <2>1. /\ Running' = Running
        /\ UNCHANGED <<desc_fifo, cpl_fifo, slot_task>>
    BY <1>2, <1>5 DEF DrainSource, ReleaseSlot, Running
  <2>2. RunningTasks' = RunningTasks
    BY <2>1 DEF RunningTasks
  <2>3. QED
    BY <1>1, <2>1, <2>2 DEF OnePlaceEach, Live
<1>6. QED
  BY <1>3, <1>4, <1>5 DEF SlotStep

LEMMA AcceleratorOwns ==
  ASSUME DeviceTypeOK, ThreadsTypeOK, Owned, NoInternalFailure, NEW d \in Decoders,
         Accelerator(d)
  PROVE  Owned' /\ NoInternalFailure'
<1>1. /\ SlotStep(d)
      /\ UNCHANGED schedulerVars
      /\ UNCHANGED <<workerVars, managerVars>>
  BY DEF Accelerator, SlotStep
<1>2. NoInternalFailure' /\ Keeps(NoTask)
  BY <1>1, KeepsStutter DEF schedulerVars, NoInternalFailure
<1>3. WorkersOwn'
  BY <1>1, <1>2, WorkersStay, NoTaskIsNobodys
<1>4. mmio_desc' = mmio_desc
  BY <1>1 DEF SlotStep, StartDecode, FinishDecode, DrainSource, ReleaseSlot
<1>5. ManagerOwns' /\ RejectsOnlyAfterFailure'
  BY <1>1, <1>4 DEF Owned, ManagerOwns, Submitting, Descriptor, HasSrc, HasDst,
     RejectsOnlyAfterFailure, Busy, Loading, SwDecoding, Posting, schedulerVars, taskVars,
     workerVars, managerVars
<1>6. DeviceOwns'
  <2> SUFFICES ASSUME Fresh'
               PROVE  OnePlaceEach' /\ \A e \in Live' : InFlight(e)'
    BY DEF DeviceOwns
  <2>1. Fresh /\ UNCHANGED <<manager, cpl, submitting>>
    BY <1>1 DEF Fresh, managerVars
  <2>2. OnePlaceEach /\ \A e \in Live : InFlight(e)
    BY <2>1 DEF Owned, DeviceOwns
  <2>3. OnePlaceEach' /\ Live' \subseteq Live
    BY <1>1, <2>1, <2>2, CoreMoves
  <2>4. ASSUME NEW e \in Live
        PROVE  InFlight(e)'
    <3>1. InFlight(e)
      BY <2>2, <2>4
    <3>2. QED
      BY <3>1, <1>1, <2>1 DEF InFlight, Descriptor, HasSrc, HasDst, Busy, Loading,
         SwDecoding, Posting, schedulerVars, taskVars, workerVars
  <2>5. QED
    BY <2>3, <2>4
<1>7. QED
  BY <1>2, <1>3, <1>5, <1>6 DEF Owned

-----------------------------------------------------------------------------
(* The contents of the buffers *)

LEMMA BuffersTyped ==
  ASSUME SchedulerSound, ThreadsTypeOK, DeviceTypeOK, BuffersTypeOK, Owned, Next
  PROVE  BuffersTypeOK'
<1>1. /\ src_buf \in [SrcSlotIds -> Tasks \union {NoImage}]
      /\ dst_buf \in [DstSlotIds -> Tasks \union {NoImage}]
      /\ dumped \in [Tasks -> Tasks \union {NoImage}]
      /\ src_slot \in [Tasks -> SrcSlotIds \union {NoSlot}]
      /\ dst_slot \in [Tasks -> DstSlotIds \union {NoSlot}]
  BY DEF BuffersTypeOK, SchedulerSound, SchedulerTypeOK
<1>2. CASE UNCHANGED bufferVars
  BY <1>1, <1>2 DEF bufferVars, BuffersTypeOK
<1>3. ASSUME NEW w \in Workers,
             LoadImageToDma(w) \/ SoftwareDecodeJpeg(w) \/ PostProcess(w),
             ~UNCHANGED bufferVars
      PROVE  BuffersTypeOK'
  <2> DEFINE t == job[w]
  <2>1. t \in Tasks
    BY <1>3 DEF ThreadsTypeOK, Busy, Loading, SwDecoding, Posting, LoadImageToDma,
       SoftwareDecodeJpeg, PostProcess
  <2> HIDE DEF t
  <2>2. \/ /\ HasSrc(t)
           /\ src_buf' = [src_buf EXCEPT ![src_slot[t]] = t]
           /\ UNCHANGED <<dst_buf, dumped>>
        \/ /\ HasSrc(t) /\ HasDst(t)
           /\ dst_buf' = [dst_buf EXCEPT ![dst_slot[t]] = src_buf[src_slot[t]]]
           /\ UNCHANGED <<src_buf, dumped>>
        \/ /\ HasDst(t)
           /\ dumped' = [dumped EXCEPT ![t] = dst_buf[dst_slot[t]]]
           /\ UNCHANGED <<src_buf, dst_buf>>
    BY <1>3 DEF LoadImageToDma, SoftwareDecodeJpeg, PostProcess, WorkerFails, t
  <2>3. QED
    BY <1>1, <2>1, <2>2 DEF HasSrc, HasDst, BuffersTypeOK
<1>4. ASSUME NEW d \in Decoders, Accelerator(d), ~UNCHANGED bufferVars
      PROVE  BuffersTypeOK'
  <2>1. /\ FinishDecode(d)
        /\ dst_buf' = [dst_buf EXCEPT ![slot_task[d].dst] =
                         IF Fresh THEN src_buf[slot_task[d].src] ELSE NoImage]
        /\ UNCHANGED <<src_buf, dumped>>
    BY <1>4 DEF Accelerator, bufferVars, Fresh
  <2>2. Fresh => src_buf[slot_task[d].src] \in Tasks \union {NoImage}
    <3> SUFFICES ASSUME Fresh
                 PROVE  slot_task[d].src \in SrcSlotIds
      BY <1>1
    <3>1. slot_task[d] \in Live
      BY <2>1 DEF FinishDecode, Live, RunningTasks, Running
    <3>2. InFlight(slot_task[d])
      BY <3>1 DEF Owned, DeviceOwns
    <3>3. \E t \in Tasks : HasSrc(t) /\ slot_task[d] = Descriptor(t)
      BY <3>2 DEF InFlight
    <3>4. QED
      BY <3>3, <1>1 DEF HasSrc, Descriptor
  <2>3. QED
    BY <1>1, <2>1, <2>2 DEF BuffersTypeOK
<1>5. CASE Manager \/ Main \/ Exited
  <2>1. UNCHANGED bufferVars
    BY <1>5 DEF Manager, EnableSimulation, ResetDevice, LoopHead, TryPopCompletion,
       LookUpTask, RejectCompletion, AcceptCompletion, CheckFailure,
       TryAcquireHardwareSubmitTask, PollDescriptors, WriteRegisters,
       CommitDescriptor, FinishSubmit, DisableSimulation, ManagerLeaves,
       OnlyManagerMoves, Main, Exited, vars
  <2>2. QED
    BY <1>2, <2>1
<1>6. ASSUME NEW w \in Workers, Worker(w)
      PROVE  BuffersTypeOK'
  BY <1>2, <1>3, <1>6 DEF Worker, AcquireCpuJob, CompleteJob, WorkerLeaves
<1>7. QED
  BY <1>2, <1>4, <1>5, <1>6 DEF Next

-----------------------------------------------------------------------------
(* The invariant *)

LEMMA OwnershipInit ==
  ASSUME Init
  PROVE  Ownership
<1>1. DriverSound
  BY DriverSoundInit
<1>2. BuffersTypeOK
  BY DEF Init, BuffersTypeOK
<1>3. NoInternalFailure
  BY DEF Init, SchedulerInit, NoInternalFailure
<1>4. Busy = {} /\ Loading = {} /\ SwDecoding = {} /\ Posting = {}
  BY DEF Init, Busy, Loading, SwDecoding, Posting
<1>5. manager = "start" \/ manager = "stopped"
  BY DEF Init
<1>6. WorkersOwn /\ ManagerOwns /\ RejectsOnlyAfterFailure
  BY <1>4, <1>5 DEF WorkersOwn, ManagerOwns, RejectsOnlyAfterFailure, Submitting
<1>7. DeviceOwns
  <2>1. CASE Mode = "hw"
    BY <2>1 DEF Init, DeviceOwns, Fresh
  <2>2. CASE Mode # "hw"
    <3>1. desc_fifo = <<>> /\ cpl_fifo = <<>> /\ Running = {}
      BY <2>2 DEF Init, DeviceInit, Running
    <3>2. RunningTasks = {} /\ InHand = {}
      BY <1>5, <3>1 DEF RunningTasks, InHand
    <3>3. Range(desc_fifo) = {} /\ Range(cpl_fifo) = {} /\ Live = {}
      BY <3>1, <3>2, EmptyFacts DEF Live
    <3>4. OnePlaceEach
      BY <3>1, <3>2, <3>3, EmptyFacts DEF OnePlaceEach
    <3>5. QED
      BY <3>3, <3>4 DEF DeviceOwns
  <2>3. QED
    BY <2>1, <2>2
<1>8. QED
  BY <1>1, <1>2, <1>3, <1>6, <1>7 DEF Ownership, TypeOK, DriverSound, SchedulerSound

LEMMA OwnershipNext ==
  ASSUME Ownership, Next
  PROVE  Ownership'
<1>1. /\ DriverSound /\ BuffersTypeOK /\ Owned /\ NoInternalFailure
      /\ SchedulerSound /\ ThreadsTypeOK /\ DeviceTypeOK
  BY DEF Ownership, TypeOK, DriverSound, Owned
<1>2. BuffersTypeOK'
  BY <1>1, BuffersTyped
<1>3. DriverSound' /\ Owned' /\ NoInternalFailure'
  <2>1. ASSUME NEW w \in Workers, Worker(w)
        PROVE  DriverSound' /\ Owned' /\ NoInternalFailure'
    BY <1>1, <2>1, SoundWorker, WorkerOwns
  <2>2. CASE Manager
    <3>1. manager = "write" => HasSrc(submitting) /\ HasDst(submitting)
      BY <1>1 DEF Owned, ManagerOwns, Submitting
    <3>2. QED
      BY <1>1, <2>2, <3>1, SoundManager, ManagerStepOwns
  <2>3. ASSUME NEW d \in Decoders, Accelerator(d)
        PROVE  DriverSound' /\ Owned' /\ NoInternalFailure'
    BY <1>1, <2>3, SoundAccelerator, AcceleratorOwns
  <2>4. CASE Main \/ Exited
    <3>1. /\ UNCHANGED <<schedulerVars, asleep, deviceVars, workerVars, managerVars,
                         workers_ok, hw_ok>>
          /\ exit_status' \in {exit_status, "EXIT_SUCCESS", "EXIT_FAILURE"}
      BY <2>4 DEF Main, Exited, vars, mainVars
    <3>2. SchedulerSound'
      BY <3>1, <1>1, SoundStutter
    <3>3. DeviceTypeOK' /\ ThreadsTypeOK' /\ NoInternalFailure'
      BY <3>1, <1>1 DEF DeviceTypeOK, ThreadsTypeOK, NoInternalFailure, deviceVars,
         workerVars, managerVars, schedulerVars, Busy, Loading, SwDecoding, Posting,
         Submitting
    <3>4. Owned'
      BY <3>1, <1>1, KeepsStutter, NoTaskIsNobodys DEF Owned, WorkersOwn, ManagerOwns,
         RejectsOnlyAfterFailure, DeviceOwns, OnePlaceEach, InFlight, Live, RunningTasks,
         Running, InHand, Fresh, Submitting, Busy, Loading, SwDecoding, Posting,
         Descriptor, HasSrc, HasDst, schedulerVars, taskVars, deviceVars, workerVars,
         managerVars
    <3>5. QED
      BY <3>2, <3>3, <3>4 DEF DriverSound
  <2>5. QED
    BY <2>1, <2>2, <2>3, <2>4 DEF Next
<1>4. QED
  BY <1>2, <1>3 DEF Ownership, TypeOK, DriverSound, Owned, SchedulerSound

LEMMA OwnershipStutter ==
  ASSUME Ownership, UNCHANGED vars
  PROVE  Ownership'
<1>1. /\ SchedulerSound' /\ DeviceTypeOK' /\ ThreadsTypeOK' /\ BuffersTypeOK'
      /\ NoInternalFailure'
  BY SoundStutter DEF Ownership, TypeOK, vars, DeviceTypeOK, ThreadsTypeOK,
     BuffersTypeOK, NoInternalFailure, deviceVars, workerVars, managerVars,
     bufferVars, mainVars, schedulerVars, Busy, Loading, SwDecoding, Posting,
     Submitting
<1>2. Owned'
  BY DEF Ownership, Owned, WorkersOwn, ManagerOwns,
     RejectsOnlyAfterFailure, DeviceOwns, OnePlaceEach, InFlight, Live, RunningTasks,
     Running, InHand, Fresh, Submitting, Busy, Loading, SwDecoding, Posting,
     Descriptor, HasSrc, HasDst, schedulerVars, taskVars, deviceVars, workerVars,
     managerVars, vars
<1>3. QED
  BY <1>1, <1>2 DEF Ownership, Owned, TypeOK, SchedulerSound

(* At any time every task, with the buffers it holds, is with at most one   *)
(* worker, the manager or the device, in the stage its holder believes it   *)
(* to be in; the pools and queues of the Scheduler agree with the tasks.    *)
(* This is the inductive invariant of the driver.                           *)
THEOREM OwnershipInvariant == Spec => []Ownership
<1>1. Init => Ownership
  BY OwnershipInit
<1>2. Ownership /\ [Next]_vars => Ownership'
  BY OwnershipStutter, OwnershipNext
<1>3. QED
  BY <1>1, <1>2, PTL DEF Spec

-----------------------------------------------------------------------------
(* What follows from it *)

(* Every variable of the driver, the device and the buffers stays in its    *)
(* range; a thread that is at work has a task.                              *)
THEOREM TypeCorrect == Spec => []TypeOK
<1>1. Ownership => TypeOK
  BY DEF Ownership
<1>2. QED
  BY <1>1, OwnershipInvariant, PTL

(* Whatever the interleaving of AcquireCpuJob, TryAcquireHardwareSubmitTask, *)
(* the CompleteX methods and AssignSwDecodeJobsLocked, no slot of either     *)
(* pool is held twice or lost.                                               *)
THEOREM SlotsAreConserved == Spec => []SlotsConserved
<1>1. Ownership => SlotsConserved
  BY DEF Ownership, SchedulerSound
<1>2. QED
  BY <1>1, OwnershipInvariant, PTL

(* AssignSwDecodeJobsLocked and CompleteLoad leave no destination slot idle *)
(* beside a loaded task that waits for one.                                 *)
THEOREM DestinationsAreNotIdle == Spec => []NoIdleDestination
<1>1. Ownership => NoIdleDestination
  BY DEF Ownership, SchedulerSound
<1>2. QED
  BY <1>1, OwnershipInvariant, PTL

(* The consistency checks of the CompleteX methods, of the job loops and of *)
(* the manager's completion lookup never fire, not even when the device     *)
(* still holds the tasks of an earlier run: whatever fails, it is the       *)
(* environment.                                                             *)
THEOREM NoInternalFailures == Spec => []NoInternalFailure
<1>1. Ownership => NoInternalFailure
  BY DEF Ownership
<1>2. QED
  BY <1>1, OwnershipInvariant, PTL

-----------------------------------------------------------------------------
(* After a failure *)

(* Every method of the Scheduler returns without effect once failed_ is set, *)
(* so a worker or the manager that reports late frees no slot, queues no     *)
(* task and does not replace the message of the first failure.               *)
THEOREM FailureFreezes == Spec => FrozenByFailure
<1>1. ASSUME Next, failed
      PROVE  UNCHANGED schedulerVars
  <2>1. CASE \E w \in Workers : Worker(w)
    <3> SUFFICES ASSUME NEW w \in Workers, Worker(w)
                 PROVE  UNCHANGED schedulerVars
      BY <2>1
    <3>1. CASE AcquireCpuJob(w)
      BY <1>1, <3>1 DEF AcquireCpuJob, AcquireNothing, AcquirePostProcess,
         AcquireSoftwareDecode, AcquireLoad, AcquireWait, AcquireAllowed
    <3>2. CASE LoadImageToDma(w) \/ SoftwareDecodeJpeg(w) \/ PostProcess(w)
      BY <1>1, <3>2 DEF LoadImageToDma, SoftwareDecodeJpeg, PostProcess, WorkerFails,
         Fail, Ignored
    <3>3. CASE CompleteJob(w)
      BY <1>1, <3>3 DEF CompleteJob, CompleteLoad, CompleteSoftwareDecode,
         CompletePostProcess, Ignored
    <3>4. CASE WorkerLeaves(w)
      BY <3>4 DEF WorkerLeaves
    <3>5. QED
      BY <3>1, <3>2, <3>3, <3>4 DEF Worker
  <2>2. CASE Manager
    <3>1. CASE RejectCompletion \/ PollDescriptors
      BY <1>1, <3>1 DEF RejectCompletion, PollDescriptors, Fail, Ignored
    <3>2. CASE AcceptCompletion \/ FinishSubmit
      BY <1>1, <3>2 DEF AcceptCompletion, FinishSubmit, CompleteHardwareDecode,
         CompleteHardwareSubmit, Ignored
    <3>3. CASE TryAcquireHardwareSubmitTask
      BY <1>1, <3>3 DEF TryAcquireHardwareSubmitTask, AcquireHardwareSubmit,
         AcquireNoHardwareSubmit, HwSubmitPossible, schedulerVars, taskVars, queueVars
    <3>4. CASE ~(\/ RejectCompletion \/ PollDescriptors \/ AcceptCompletion
                 \/ FinishSubmit \/ TryAcquireHardwareSubmitTask)
      BY <2>2, <3>4 DEF Manager, EnableSimulation, ResetDevice, LoopHead,
         TryPopCompletion, LookUpTask, CheckFailure, WriteRegisters,
         CommitDescriptor, DisableSimulation, ManagerLeaves
    <3>5. QED
      BY <3>1, <3>2, <3>3, <3>4
  <2>3. CASE (\E d \in Decoders : Accelerator(d)) \/ Main \/ Exited
    BY <2>3 DEF Accelerator, Main, Exited, vars
  <2>4. QED
    BY <1>1, <2>1, <2>2, <2>3 DEF Next
<1>2. [Next]_vars => [failed => UNCHANGED schedulerVars]_vars
  BY <1>1
<1>3. QED
  BY <1>2, PTL DEF Spec, FrozenByFailure

-----------------------------------------------------------------------------
(* The pipeline *)

(* The manager runs in hardware mode only, and workers decode in software   *)
(* mode only.                                                               *)
ModeOK ==
  /\ Mode = "hw" => SwDecoding = {}
  /\ Mode # "hw" => manager = "stopped"

LEMMA ModeInit == Init => ModeOK
BY DEF Init, ModeOK, SwDecoding

LEMMA ModeNext ==
  ASSUME ModeOK, ThreadsTypeOK, Next
  PROVE  ModeOK'
<1>1. pc \in [Workers -> WorkerPcs]
  BY DEF ThreadsTypeOK
<1>2. ASSUME NEW w \in Workers, Worker(w)
      PROVE  ModeOK'
  <2>1. manager' = manager
    BY <1>2 DEF Worker, AcquireCpuJob, LoadImageToDma, SoftwareDecodeJpeg, PostProcess,
       CompleteJob, WorkerLeaves, managerVars
  <2>2. \E to \in WorkerPcs :
          /\ pc' = [pc EXCEPT ![w] = to]
          /\ to = "decode" => Mode = "sw"
          /\ to = "decoded" => pc[w] = "decode"
    BY <1>1, <1>2 DEF Worker, AcquireCpuJob, LoadImageToDma, SoftwareDecodeJpeg,
       PostProcess, CompleteJob, WorkerLeaves, WorkerFails, Goto, Begin, workerVars,
       AcquireSoftwareDecode, SwJobPending, WorkerPcs
  <2>3. Mode = "hw" => SwDecoding' = {}
    BY <1>1, <2>2 DEF ModeOK, SwDecoding
  <2>4. QED
    BY <2>1, <2>3 DEF ModeOK
<1>3. CASE Manager
  <2>1. manager # "stopped" /\ UNCHANGED workerVars
    BY <1>3 DEF Manager, EnableSimulation, ResetDevice, LoopHead, TryPopCompletion,
       LookUpTask, RejectCompletion, AcceptCompletion, CheckFailure,
       TryAcquireHardwareSubmitTask, PollDescriptors, WriteRegisters,
       CommitDescriptor, FinishSubmit, DisableSimulation, ManagerLeaves, At,
       OnlyManagerMoves
  <2>2. QED
    BY <2>1 DEF ModeOK, SwDecoding, workerVars
<1>4. CASE (\E d \in Decoders : Accelerator(d)) \/ Main \/ Exited
  BY <1>4 DEF Accelerator, Main, Exited, vars, workerVars, managerVars, ModeOK, SwDecoding
<1>5. QED
  BY <1>2, <1>3, <1>4 DEF Next

-----------------------------------------------------------------------------
(* The buffers *)

(* Before the manager has reset the device no task has a destination: only  *)
(* the manager gives them out in hardware mode.                             *)
NothingOffered == ~Fresh => \A t \in Tasks : dst_slot[t] = NoSlot

LEMMA NothingOfferedNext ==
  ASSUME Ownership, ModeOK, NothingOffered, Next, ~Fresh'
  PROVE  \A t \in Tasks : dst_slot'[t] = NoSlot
<1>1. manager' \in {"start", "reset"}
  BY DEF Fresh
<1> SUFFICES ~Fresh /\ UNCHANGED dst_slot
  BY DEF NothingOffered
<1>2. ASSUME NEW w \in Workers, Worker(w)
      PROVE  ~Fresh /\ UNCHANGED dst_slot
  <2>1. UNCHANGED manager
    BY <1>2 DEF Worker, AcquireCpuJob, LoadImageToDma, SoftwareDecodeJpeg, PostProcess,
       CompleteJob, WorkerLeaves, managerVars
  <2>2. ~Fresh /\ Mode = "hw"
    BY <1>1, <2>1 DEF Fresh, ModeOK
  <2>3. CASE AcquireCpuJob(w)
    BY <2>2, <2>3 DEF AcquireCpuJob, AcquireNothing, AcquirePostProcess,
       AcquireSoftwareDecode, AcquireLoad, AcquireWait, schedulerVars, taskVars
  <2>4. CASE LoadImageToDma(w) \/ SoftwareDecodeJpeg(w) \/ PostProcess(w) \/ WorkerLeaves(w)
    BY <2>2, <2>4 DEF LoadImageToDma, SoftwareDecodeJpeg, PostProcess, WorkerLeaves,
       WorkerFails, Fail, Ignored, schedulerVars, taskVars
  <2>5. CASE CompleteJob(w)
    <3>1. w \in Posting => dst_slot[job[w]] # NoSlot /\ job[w] \in Tasks
      BY DEF Ownership, TypeOK, ThreadsTypeOK, WorkersOwn, Busy, HasDst
    <3>2. pc[w] # "posted" /\ pc[w] # "decoded"
      BY <2>2, <3>1 DEF NothingOffered, ModeOK, SwDecoding, Posting
    <3>3. CompleteLoad(job[w])
      BY <2>5, <3>2 DEF CompleteJob
    <3>4. StageAfterLoad = "kQueuedForHwSubmit"
      BY <2>2 DEF StageAfterLoad
    <3>5. QED
      BY <2>2, <3>3, <3>4 DEF CompleteLoad, LoadCompleted, Rejected, Ignored, schedulerVars,
         taskVars
  <2>6. QED
    BY <1>2, <2>3, <2>4, <2>5 DEF Worker
<1>3. CASE Manager
  <2>1. EnableSimulation
    BY <1>1, <1>3 DEF Manager, EnableSimulation, ResetDevice, LoopHead, TryPopCompletion,
       LookUpTask, RejectCompletion, AcceptCompletion, CheckFailure,
       TryAcquireHardwareSubmitTask, PollDescriptors, WriteRegisters, CommitDescriptor,
       FinishSubmit, DisableSimulation, ManagerLeaves, At
  <2>2. QED
    BY <2>1 DEF EnableSimulation, At, Fresh, schedulerVars, taskVars
<1>4. CASE (\E d \in Decoders : Accelerator(d)) \/ Main \/ Exited
  BY <1>1, <1>4 DEF Accelerator, Main, Exited, vars, managerVars, schedulerVars, taskVars, Fresh
<1>5. QED
  BY <1>2, <1>3, <1>4 DEF Next

LEMMA OwnersExclude ==
  ASSUME Ownership, NothingOffered
  PROVE  BuffersExclusive
<1>1. /\ \A t, u \in Tasks : t # u /\ src_slot[t] # NoSlot => src_slot[t] # src_slot[u]
      /\ \A t, u \in Tasks : t # u /\ dst_slot[t] # NoSlot => dst_slot[t] # dst_slot[u]
  BY DEF Ownership, SchedulerSound, SlotsConserved, Partitioned
<1>2. \A w \in UsesSrc : w \in Busy /\ job[w] \in Tasks /\ src_slot[job[w]] # NoSlot
  BY DEF Ownership, TypeOK, ThreadsTypeOK, WorkersOwn, UsesSrc, Busy, Loading, SwDecoding,
         HasSrc
<1>3. \A w \in UsesDst : w \in Busy /\ job[w] \in Tasks /\ dst_slot[job[w]] # NoSlot
  BY DEF Ownership, TypeOK, ThreadsTypeOK, WorkersOwn, UsesDst, Busy, SwDecoding, Posting,
         HasDst
<1>4. WorkersApart
  BY <1>1, <1>2, <1>3 DEF Ownership, WorkersOwn, WorkersApart
<1>5. ASSUME Fresh, NEW e \in Taken
      PROVE  \E t \in Tasks : /\ e.src = src_slot[t] /\ e.dst = dst_slot[t] /\ e.id = t
                              /\ e = Descriptor(t)
                              /\ src_slot[t] # NoSlot /\ dst_slot[t] # NoSlot
                              /\ \A w \in Busy : job[w] # t
                              /\ Offers => submitting # t
  <2>1. InFlight(e)
    BY <1>5 DEF Ownership, DeviceOwns, Taken, Live
  <2>2. QED
    BY <2>1 DEF InFlight, HasSrc, HasDst, Descriptor, Offers
<1>6. ASSUME NEW w \in UsesDst, NEW e \in Taken
      PROVE  dst_slot[job[w]] # e.dst
  <2>1. Fresh
    BY <1>3 DEF NothingOffered
  <2>2. PICK t \in Tasks : e.dst = dst_slot[t] /\ job[w] # t
    BY <1>3, <1>5, <2>1
  <2>3. QED
    BY <1>1, <1>3, <2>2
<1>7. ASSUME Fresh
      PROVE  TakenApart
  <2>1. ASSUME NEW e \in Taken, NEW f \in Taken, e # f
        PROVE  e.src # f.src /\ e.dst # f.dst
    <3>1. PICK t \in Tasks : /\ e = Descriptor(t) /\ e.src = src_slot[t] /\ e.dst = dst_slot[t]
                             /\ src_slot[t] # NoSlot /\ dst_slot[t] # NoSlot
      BY <1>5, <1>7
    <3>2. PICK u \in Tasks : f = Descriptor(u) /\ f.src = src_slot[u] /\ f.dst = dst_slot[u]
      BY <1>5, <1>7
    <3>3. t # u
      BY <2>1, <3>1, <3>2
    <3>4. QED
      BY <1>1, <3>1, <3>2, <3>3
  <2>2. ASSUME NEW w \in UsesSrc, NEW e \in Taken
        PROVE  src_slot[job[w]] # e.src
    <3>1. PICK t \in Tasks : e.src = src_slot[t] /\ job[w] # t
      BY <1>2, <1>5, <1>7
    <3>2. QED
      BY <1>1, <1>2, <3>1
  <2>3. QED
    BY <1>7, <2>1, <2>2 DEF Ownership, DeviceOwns, OnePlaceEach, TakenApart
<1>8. ASSUME Offers
      PROVE  OfferApart
  <2>1. /\ Fresh /\ submitting \in Tasks
        /\ src_slot[submitting] # NoSlot /\ dst_slot[submitting] # NoSlot
        /\ \A w \in Busy : job[w] # submitting
    BY <1>8 DEF Ownership, TypeOK, ThreadsTypeOK, ManagerOwns, Submitting, Offers, Fresh,
       HasSrc, HasDst
  <2>2. ASSUME NEW e \in Taken
        PROVE  e.src # src_slot[submitting] /\ e.dst # dst_slot[submitting]
    <3>1. PICK t \in Tasks : /\ e.src = src_slot[t] /\ e.dst = dst_slot[t]
                             /\ submitting # t
      BY <1>5, <1>8, <2>1
    <3>2. QED
      BY <1>1, <2>1, <3>1
  <2>3. /\ \A w \in UsesSrc : src_slot[job[w]] # src_slot[submitting]
        /\ \A w \in UsesDst : dst_slot[job[w]] # dst_slot[submitting]
    BY <1>1, <1>2, <1>3, <2>1
  <2>4. QED
    BY <2>2, <2>3 DEF OfferApart
<1>9. QED
  BY <1>4, <1>6, <1>7, <1>8 DEF BuffersExclusive

(* No buffer is in the hands of two workers, of a worker and a descriptor   *)
(* the device has or is about to get, or of two such descriptors, although  *)
(* all of them use the buffers outside mu_; what still winds down in a slot *)
(* and what an earlier program left to read is not in it.                   *)
THEOREM BuffersAreExclusive == Spec => []BuffersExclusive
<1>1. Init => NothingOffered
  BY DEF Init, SchedulerInit, NothingOffered
<1>2. Ownership /\ ModeOK /\ NothingOffered /\ [Next]_vars => NothingOffered'
  <2>1. ASSUME UNCHANGED vars, NothingOffered
        PROVE  NothingOffered'
    BY <2>1 DEF vars, schedulerVars, taskVars, managerVars, NothingOffered, Fresh
  <2>2. QED
    BY <2>1, NothingOfferedNext DEF NothingOffered
<1>3. Ownership => ThreadsTypeOK
  BY DEF Ownership, TypeOK
<1>4. ModeOK /\ UNCHANGED vars => ModeOK'
  BY DEF ModeOK, vars, workerVars, managerVars, SwDecoding
<1>5. Spec => []ModeOK
  BY <1>3, <1>4, ModeInit, ModeNext, OwnershipInvariant, PTL DEF Spec
<1>6. Spec => []NothingOffered
  BY <1>1, <1>2, <1>5, OwnershipInvariant, PTL DEF Spec
<1>7. QED
  BY <1>6, OwnersExclude, OwnershipInvariant, PTL

-----------------------------------------------------------------------------
(* A method that moves task t alone, along the pipeline. *)
LEMMA OneAdvances ==
  ASSUME SchedulerSound, NEW t \in Tasks, NEW to,
         stage' = [stage EXCEPT ![t] = to], <<stage[t], to>> \in Pipeline
  PROVE  \A u \in Tasks : Advances(u)
BY DEF SchedulerSound, SchedulerTypeOK, Advances

LEMMA StutterAdvances ==
  ASSUME UNCHANGED stage
  PROVE  \A u \in Tasks : Advances(u)
BY DEF Advances

LEMMA FailAdvances ==
  ASSUME NEW message, Fail(message)
  PROVE  \A u \in Tasks : Advances(u)
BY DEF Fail, Ignored, schedulerVars, taskVars, Advances

LEMMA AcquireAdvances ==
  ASSUME SchedulerSound, NEW t \in Tasks,
         \/ AcquirePostProcess(t) \/ AcquireSoftwareDecode(t) \/ AcquireLoad(t)
         \/ Mode = "hw" /\ AcquireHardwareSubmit(t)
  PROVE  \A u \in Tasks : Advances(u)
<1>1. CASE AcquirePostProcess(t)
  <2>1. /\ ready_post # <<>> /\ t = Head(ready_post)
        /\ ready_post \in Seq(Tasks) /\ QueueOf(ready_post, stage, "kDecoded")
    BY <1>1, SoundQueues DEF AcquirePostProcess, AcquireAllowed
  <2>2. stage[t] = "kDecoded"
    BY <2>1, PopFacts DEF QueueOf
  <2>3. <<stage[t], "kPostProcessing">> \in Pipeline
    BY <2>2 DEF Pipeline
  <2>4. QED
    BY <1>1, <2>3, OneAdvances DEF AcquirePostProcess
<1>2. CASE AcquireSoftwareDecode(t)
  <2>1. /\ ready_sw_decode # <<>> /\ t = Head(ready_sw_decode)
        /\ ready_sw_decode \in Seq(Tasks)
        /\ QueueOf(ready_sw_decode, stage, "kQueuedForSwDecode")
        /\ Mode = "sw"
    BY <1>2, SoundQueues DEF AcquireSoftwareDecode, SwJobPending, AcquireAllowed
  <2>2. stage[t] = "kQueuedForSwDecode"
    BY <2>1, PopFacts DEF QueueOf
  <2>3. <<stage[t], "kSwDecoding">> \in Pipeline
    BY <2>1, <2>2 DEF Pipeline
  <2>4. QED
    BY <1>2, <2>3, OneAdvances DEF AcquireSoftwareDecode
<1>3. CASE AcquireLoad(t)
  <2>1. t >= next_load_index /\ ~failed
    BY <1>3, SchedulerAssumption DEF AcquireLoad, Tasks, AcquireAllowed
  <2>2. stage[t] = "kPendingLoad"
    BY <2>1 DEF SchedulerSound, StageSlots
  <2>3. <<stage[t], "kLoading">> \in Pipeline
    BY <2>2 DEF Pipeline
  <2>4. QED
    BY <1>3, <2>3, OneAdvances DEF AcquireLoad
<1>4. CASE Mode = "hw" /\ AcquireHardwareSubmit(t)
  <2>1. /\ ready_hw_submit # <<>> /\ t = Head(ready_hw_submit)
        /\ ready_hw_submit \in Seq(Tasks)
        /\ QueueOf(ready_hw_submit, stage, "kQueuedForHwSubmit")
    BY <1>4, SoundQueues DEF AcquireHardwareSubmit, HwSubmitPossible
  <2>2. stage[t] = "kQueuedForHwSubmit"
    BY <2>1, PopFacts DEF QueueOf
  <2>3. <<stage[t], "kHwSubmitting">> \in Pipeline
    BY <1>4, <2>2 DEF Pipeline
  <2>4. QED
    BY <1>4, <2>3, OneAdvances DEF AcquireHardwareSubmit
<1>5. QED
  BY <1>1, <1>2, <1>3, <1>4

LEMMA CompleteAdvances ==
  ASSUME SchedulerSound, NEW t \in Tasks,
         \/ CompleteLoad(t)
         \/ Mode = "sw" /\ CompleteSoftwareDecode(t)
         \/ Mode = "hw" /\ (CompleteHardwareDecode(t) \/ CompleteHardwareSubmit(t))
  PROVE  \A u \in Tasks : Advances(u)
<1>1. CASE Ignored \/ Rejected
  BY <1>1, StutterAdvances DEF Ignored, Rejected, schedulerVars, taskVars
<1>2. CASE stage[t] = "kLoading" /\ LoadCompleted(t)
  <2>1. <<"kLoading", StageAfterLoad>> \in Pipeline
    <3>1. \/ Mode = "hw"
          \/ Mode = "sw" /\ free_dst_slots # <<>>
          \/ Mode = "sw" /\ free_dst_slots = <<>>
      BY SchedulerAssumption
    <3>2. CASE Mode = "hw"
      BY <3>2 DEF StageAfterLoad, Pipeline
    <3>3. CASE Mode = "sw" /\ free_dst_slots # <<>>
      <4>1. StageAfterLoad = "kQueuedForSwDecode"
        BY <3>3 DEF StageAfterLoad
      <4>2. QED
        BY <3>3, <4>1 DEF Pipeline
    <3>4. CASE Mode = "sw" /\ free_dst_slots = <<>>
      <4>1. StageAfterLoad = "kLoadedAwaitingDecode"
        BY <3>4 DEF StageAfterLoad
      <4>2. QED
        BY <3>4, <4>1 DEF Pipeline
    <3>5. QED
      BY <3>1, <3>2, <3>3, <3>4
  <2>2. stage' = [stage EXCEPT ![t] = StageAfterLoad]
    BY <1>2 DEF LoadCompleted
  <2>3. QED
    BY <1>2, <2>1, <2>2, OneAdvances
<1>3. CASE /\ \/ Mode = "sw" /\ stage[t] = "kSwDecoding"
              \/ Mode = "hw" /\ stage[t] = "kHwInflight"
           /\ DecodeCompleted(t)
  <2>1. <<stage[t], "kDecoded">> \in Pipeline
    BY <1>3 DEF Pipeline
  <2>2. QED
    BY <1>3, <2>1, OneAdvances DEF DecodeCompleted
<1>4. CASE /\ Mode = "hw" /\ stage[t] = "kHwSubmitting"
           /\ stage' = [stage EXCEPT ![t] = "kHwInflight"]
  <2>1. <<stage[t], "kHwInflight">> \in Pipeline
    BY <1>4 DEF Pipeline
  <2>2. QED
    BY <1>4, <2>1, OneAdvances
<1>5. QED
  BY <1>1, <1>2, <1>3, <1>4 DEF CompleteLoad, CompleteSoftwareDecode,
     CompleteHardwareDecode, CompleteHardwareSubmit, DecodeEnds

LEMMA PostProcessAdvances ==
  ASSUME SchedulerSound, NEW t \in Tasks, CompletePostProcess(t)
  PROVE  \A u \in Tasks : Advances(u)
<1>1. CASE Ignored \/ Rejected
  BY <1>1, StutterAdvances DEF Ignored, Rejected, schedulerVars, taskVars
<1>2. CASE ~failed /\ stage[t] = "kPostProcessing" /\ HasDst(t) /\ PostProcessCompleted(t)
  <2> DEFINE dst == Append(free_dst_slots, dst_slot[t])
             h == Head(waiting_sw_decode)
  <2>1. dst_slot[t] \in DstSlotIds
    BY <1>2 DEF HasDst, SchedulerSound, SchedulerTypeOK
  <2>2. <<stage[t], "kDone">> \in Pipeline
    BY <1>2 DEF Pipeline
  <2>3. CASE NoAssignment(dst, t)
    BY <2>2, <2>3, OneAdvances DEF NoAssignment
  <2>4. CASE AssignSwDecodeJobsLocked(dst, t) /\ waiting_sw_decode = <<>>
    BY <2>1, <2>3, <2>4, AssignsNothing DEF SchedulerSound
  <2>5. CASE Mode = "sw" /\ AssignSwDecodeJobsLocked(dst, t) /\ waiting_sw_decode # <<>>
    <3>1. stage' = [u \in Tasks |-> IF u = t THEN "kDone"
                                    ELSE IF u = h THEN "kQueuedForSwDecode"
                                    ELSE stage[u]]
      BY <1>2, <2>1, <2>5, AssignsOne DEF SchedulerSound
    <3>2. h \in Tasks /\ stage[h] = "kLoadedAwaitingDecode"
      <4>1. /\ waiting_sw_decode \in Seq(Tasks) /\ waiting_sw_decode # <<>>
            /\ QueueOf(waiting_sw_decode, stage, "kLoadedAwaitingDecode")
        BY <1>2, <2>5, SoundQueues
      <4>2. QED
        BY <4>1, PopFacts DEF QueueOf
    <3>3. <<stage[h], "kQueuedForSwDecode">> \in Pipeline
      BY <2>5, <3>2 DEF Pipeline
    <3> HIDE DEF h
    <3>4. QED
      BY <2>2, <3>1, <3>3 DEF Advances
  <2>6. QED
    BY <1>2, <2>3, <2>4, <2>5 DEF PostProcessCompleted
<1>3. QED
  BY <1>1, <1>2 DEF CompletePostProcess

LEMMA NextAdvances ==
  ASSUME Ownership, ModeOK, Next
  PROVE  \A u \in Tasks : Advances(u)
<1>1. SchedulerSound /\ ThreadsTypeOK
  BY DEF Ownership, TypeOK
<1>2. ASSUME NEW w \in Workers, Worker(w)
      PROVE  \A u \in Tasks : Advances(u)
  <2>1. CASE AcquireCpuJob(w)
    <3>1. \/ UNCHANGED stage
          \/ \E t \in Tasks : \/ AcquirePostProcess(t) \/ AcquireSoftwareDecode(t)
                              \/ AcquireLoad(t)
      BY <2>1 DEF AcquireCpuJob, AcquireNothing, AcquireWait, schedulerVars, taskVars
    <3>2. QED
      BY <1>1, <3>1, AcquireAdvances, StutterAdvances
  <2>2. CASE \/ LoadImageToDma(w) \/ SoftwareDecodeJpeg(w) \/ PostProcess(w)
             \/ WorkerLeaves(w)
    <3>1. UNCHANGED stage \/ \E message : Fail(message)
      BY <2>2 DEF LoadImageToDma, SoftwareDecodeJpeg, PostProcess, WorkerFails,
         WorkerLeaves, schedulerVars, taskVars
    <3>2. QED
      BY <3>1, FailAdvances, StutterAdvances
  <2>3. CASE CompleteJob(w)
    <3>1. job[w] \in Tasks
      BY <1>1, <2>3 DEF CompleteJob, ThreadsTypeOK, Busy, Loading, SwDecoding, Posting
    <3>2. pc[w] = "decoded" => Mode = "sw"
      BY SchedulerAssumption DEF ModeOK, SwDecoding
    <3>3. QED
      BY <1>1, <2>3, <3>1, <3>2, CompleteAdvances, PostProcessAdvances DEF CompleteJob
  <2>4. QED
    BY <1>2, <2>1, <2>2, <2>3 DEF Worker
<1>3. CASE Manager
  <2>1. Mode = "hw"
    BY <1>3 DEF ModeOK, Manager, EnableSimulation, ResetDevice, LoopHead,
       TryPopCompletion, LookUpTask, RejectCompletion, AcceptCompletion, CheckFailure,
       TryAcquireHardwareSubmitTask, PollDescriptors, WriteRegisters,
       CommitDescriptor, FinishSubmit, DisableSimulation, ManagerLeaves, At
  <2>2. CASE AcceptCompletion \/ FinishSubmit
    <3>1. \E t \in Tasks : CompleteHardwareDecode(t) \/ CompleteHardwareSubmit(t)
      BY <1>1, <2>2 DEF AcceptCompletion, FinishSubmit, At, ThreadsTypeOK, Submitting
    <3>2. QED
      BY <1>1, <2>1, <3>1, CompleteAdvances
  <2>3. CASE TryAcquireHardwareSubmitTask
    <3>1. UNCHANGED stage \/ \E t \in Tasks : AcquireHardwareSubmit(t)
      BY <2>3 DEF TryAcquireHardwareSubmitTask, AcquireNoHardwareSubmit, taskVars
    <3>2. QED
      BY <1>1, <2>1, <3>1, AcquireAdvances, StutterAdvances
  <2>4. CASE RejectCompletion \/ PollDescriptors
    <3>1. UNCHANGED stage \/ \E message : Fail(message)
      BY <2>4 DEF RejectCompletion, PollDescriptors, schedulerVars, taskVars
    <3>2. QED
      BY <3>1, FailAdvances, StutterAdvances
  <2>5. CASE ~(\/ RejectCompletion \/ PollDescriptors \/ AcceptCompletion
               \/ FinishSubmit \/ TryAcquireHardwareSubmitTask)
    <3>1. UNCHANGED stage
      BY <1>3, <2>5 DEF Manager, EnableSimulation, ResetDevice, LoopHead,
         TryPopCompletion, LookUpTask, CheckFailure, WriteRegisters,
         CommitDescriptor, DisableSimulation, ManagerLeaves, schedulerVars, taskVars
    <3>2. QED
      BY <3>1, StutterAdvances
  <2>6. QED
    BY <2>2, <2>3, <2>4, <2>5
<1>4. CASE (\E d \in Decoders : Accelerator(d)) \/ Main \/ Exited
  BY <1>4, StutterAdvances DEF Accelerator, Main, Exited, vars, schedulerVars, taskVars
<1>5. QED
  BY <1>2, <1>3, <1>4 DEF Next

(* A task goes through the stages of its mode in order, one at a time, and  *)
(* only a failure takes it out of line; a finished task stays finished.     *)
THEOREM StagesOnlyAdvance == Spec => StagesAdvance
<1>1. Ownership /\ ModeOK /\ [Next]_vars => ModeOK'
  <2>1. ASSUME ModeOK, UNCHANGED vars
        PROVE  ModeOK'
    BY <2>1 DEF vars, workerVars, managerVars, ModeOK, SwDecoding
  <2>2. QED
    BY <2>1, ModeNext DEF Ownership, TypeOK
<1>2. Ownership /\ ModeOK /\ [Next]_vars => [\A t \in Tasks : Advances(t)]_stage
  <2>1. UNCHANGED vars => UNCHANGED stage
    BY DEF vars, schedulerVars, taskVars
  <2>2. QED
    BY <2>1, NextAdvances
<1>3. QED
  BY <1>1, <1>2, ModeInit, OwnershipInvariant, PTL DEF Spec, StagesAdvance
-----------------------------------------------------------------------------
(* No task is lost *)

(* The completion FIFO has no back pressure.  It never needs any when it is *)
(* as deep as one of the pools: every task in the device holds a slot of    *)
(* each.                                                                    *)
EnoughDepth == SrcSlots <= DescFifoDepth \/ DstSlots <= DescFifoDepth

(* A task in flight is in the device from the moment its descriptor is      *)
(* committed until its completion is in the manager's hand.                 *)
TasksKept ==
  /\ NoTaskLost
  /\ ~failed /\ manager \in {"recheck", "write", "commit"} => DescNumFree > 0
  /\ ~failed /\ manager = "submit" => InDevice(submitting)
  /\ ~failed /\ ~Fresh => \A t \in Tasks : stage[t] # "kHwInflight"

LEMMA InDeviceIsLive ==
  /\ \A t : InDevice(t) <=> \E e \in Live : e.id = t
  /\ \A t : InDevice(t)' <=> \E e \in Live' : e.id = t
<1>1. \A t : InDevice(t) <=> \E e \in Live : e.id = t
  BY DEF InDevice, Live, RunningTasks, InHand, Range
<1>2. \A t : InDevice(t)' <=> \E e \in Live' : e.id = t
  BY DEF InDevice, Live, RunningTasks, InHand, Range
<1>3. QED
  BY <1>1, <1>2

(* No two descriptors in the device share a slot of either pool. *)
LEMMA LiveSlotsDiffer ==
  ASSUME SlotsConserved, \A e \in Live : InFlight(e), NEW x \in Live, NEW y \in Live, x # y
  PROVE  src_slot[x.id] # src_slot[y.id] /\ dst_slot[x.id] # dst_slot[y.id]
<1>1. /\ x.id \in Tasks /\ y.id \in Tasks
      /\ x = Descriptor(x.id) /\ y = Descriptor(y.id)
      /\ src_slot[x.id] # NoSlot /\ dst_slot[x.id] # NoSlot
  BY DEF InFlight, HasSrc, HasDst
<1>2. x.id # y.id
  BY <1>1
<1>3. QED
  BY <1>1, <1>2 DEF SlotsConserved, Partitioned

(* The descriptors in n places of the device, no two of them the same, are  *)
(* no more than the slots of either pool.                                   *)
LEMMA PlacesAreSlots ==
  ASSUME SlotsConserved, SchedulerTypeOK, \A e \in Live : InFlight(e),
         NEW n \in Nat, NEW e, \A i \in 1..n : e[i] \in Live,
         \A i, j \in 1..n : i # j => e[i] # e[j]
  PROVE  n <= SrcSlots /\ n <= DstSlots
<1> DEFINE f == [i \in 1..n |-> src_slot[e[i].id]]
           g == [i \in 1..n |-> dst_slot[e[i].id]]
<1>1. \A i \in 1..n : f[i] \in SrcSlotIds /\ g[i] \in DstSlotIds
  BY DEF InFlight, HasSrc, HasDst, SchedulerTypeOK
<1>2. \A i, j \in 1..n : i # j => f[i] # f[j] /\ g[i] # g[j]
  BY LiveSlotsDiffer
<1>3. f \in [1..n -> SrcSlotIds] /\ g \in [1..n -> DstSlotIds]
  BY <1>1
<1> HIDE DEF f, g
<1>4. f \in Injection(1..n, SrcSlotIds) /\ g \in Injection(1..n, DstSlotIds)
  BY <1>2, <1>3 DEF Injection, IsInjective
<1>5. SrcSlots \in Nat \ {0} /\ DstSlots \in Nat \ {0}
  BY SchedulerAssumption
<1>6. /\ IsFiniteSet(SrcSlotIds) /\ Cardinality(SrcSlotIds) = SrcSlots
      /\ IsFiniteSet(DstSlotIds) /\ Cardinality(DstSlotIds) = DstSlots
      /\ Cardinality(1..n) = n
  <2>1. /\ IsFiniteSet(0..(SrcSlots - 1))
        /\ Cardinality(0..(SrcSlots - 1)) = IF 0 > SrcSlots - 1 THEN 0 ELSE SrcSlots - 1 - 0 + 1
    BY <1>5, FS_Interval
  <2>2. /\ IsFiniteSet(0..(DstSlots - 1))
        /\ Cardinality(0..(DstSlots - 1)) = IF 0 > DstSlots - 1 THEN 0 ELSE DstSlots - 1 - 0 + 1
    BY <1>5, FS_Interval
  <2>3. Cardinality(1..n) = IF 1 > n THEN 0 ELSE n - 1 + 1
    BY FS_Interval
  <2>4. QED
    BY <2>1, <2>2, <2>3, <1>5 DEF SrcSlotIds, DstSlotIds
<1>7. /\ Cardinality(1..n) <= Cardinality(SrcSlotIds)
      /\ Cardinality(1..n) <= Cardinality(DstSlotIds)
  BY <1>4, <1>6, FS_Injection
<1>8. QED
  BY <1>6, <1>7

(* A core that finishes finds room for its completion. *)
LEMMA RoomForCompletion ==
  ASSUME EnoughDepth, Ownership, Fresh, NEW d \in Running
  PROVE  Len(cpl_fifo) < DescFifoDepth
<1> DEFINE n == Len(cpl_fifo)
           e == [i \in 1..(n + 1) |-> IF i <= n THEN cpl_fifo[i] ELSE slot_task[d]]
<1>1. /\ SlotsConserved /\ SchedulerTypeOK
      /\ OnePlaceEach /\ \A x \in Live : InFlight(x)
      /\ cpl_fifo \in Seq(Descriptors \union {NoDesc})
  BY DEF Ownership, SchedulerSound, DeviceOwns, TypeOK, DeviceTypeOK
<1>2. n \in Nat /\ DOMAIN cpl_fifo = 1..n
  BY <1>1, LenProperties
<1>3. \A i \in 1..n : cpl_fifo[i] \in Range(cpl_fifo)
  BY <1>2 DEF Range
<1>4. slot_task[d] \in RunningTasks /\ slot_task[d] \notin Range(cpl_fifo)
  BY <1>1 DEF OnePlaceEach, RunningTasks
<1>5. \A i, j \in 1..n : i # j => cpl_fifo[i] # cpl_fifo[j]
  BY <1>1, <1>2 DEF OnePlaceEach, Distinct
<1> HIDE DEF n
<1>6. \A i \in 1..(n + 1) : e[i] \in Live
  BY <1>2, <1>3, <1>4 DEF Live
<1>7. \A i, j \in 1..(n + 1) : i # j => e[i] # e[j]
  <2> SUFFICES ASSUME NEW i \in 1..(n + 1), NEW j \in 1..(n + 1), i # j
               PROVE  e[i] # e[j]
    OBVIOUS
  <2>1. \/ i \in 1..n /\ j \in 1..n
        \/ i \in 1..n /\ j = n + 1
        \/ i = n + 1 /\ j \in 1..n
    BY <1>2
  <2>2. /\ \A k \in 1..n : e[k] = cpl_fifo[k]
        /\ e[n + 1] = slot_task[d]
    BY <1>2
  <2> HIDE DEF e
  <2>3. QED
    BY <2>1, <2>2, <1>3, <1>4, <1>5
<1>8. n + 1 \in Nat
  BY <1>2
<1> HIDE DEF e
<1>9. n + 1 <= SrcSlots /\ n + 1 <= DstSlots
  BY <1>1, <1>6, <1>7, <1>8, PlacesAreSlots
<1>10. n < DescFifoDepth
  BY <1>2, <1>9, SchedulerAssumption, DeviceAssumption DEF EnoughDepth
<1>11. QED
  BY <1>10 DEF n

(* A core with room for its completion loses none of the tasks in it. *)
LEMMA CoresKeepLive ==
  ASSUME DeviceTypeOK, NEW d \in Decoders, SlotStep(d), UNCHANGED <<manager, cpl>>,
         d \in Running => Len(cpl_fifo) < DescFifoDepth
  PROVE  Live \subseteq Live' /\ DescNumFree' >= DescNumFree
<1>1. /\ slot_state \in [Decoders -> SlotStates]
      /\ slot_task \in [Decoders -> Descriptors \union {NoDesc}]
      /\ desc_fifo \in Seq(Descriptors \union {NoDesc})
      /\ cpl_fifo \in Seq(Descriptors \union {NoDesc})
      /\ DescFifoDepth \in Nat /\ Len(desc_fifo) \in Nat
  BY DeviceAssumption, LenProperties DEF DeviceTypeOK
<1>2. InHand' = InHand
  BY DEF InHand
<1>3. CASE StartDecode(d)
  <2>1. /\ desc_fifo # <<>> /\ desc_fifo' = Tail(desc_fifo) /\ cpl_fifo' = cpl_fifo
        /\ slot_state'[d] = "SLOT_RUN" /\ slot_task'[d] = Head(desc_fifo)
        /\ d \notin Running
        /\ \A c \in Decoders \ {d} : /\ slot_state'[c] = slot_state[c]
                                     /\ slot_task'[c] = slot_task[c]
    BY <1>1, <1>3 DEF StartDecode, Running
  <2>2. RunningTasks \union {Head(desc_fifo)} \subseteq RunningTasks'
    BY <2>1 DEF RunningTasks, Running
  <2>3. /\ Range(desc_fifo) = Range(desc_fifo') \union {Head(desc_fifo)}
        /\ Len(desc_fifo') = Len(desc_fifo) - 1
    BY <1>1, <2>1, PopFacts
  <2>4. Live \subseteq Live'
    BY <1>2, <2>1, <2>2, <2>3 DEF Live
  <2>5. DescNumFree' >= DescNumFree
    BY <1>1, <2>3 DEF DescNumFree
  <2>6. QED
    BY <2>4, <2>5
<1>4. CASE FinishDecode(d)
  <2>1. /\ d \in Running /\ desc_fifo' = desc_fifo /\ slot_task' = slot_task
        /\ \A c \in Decoders \ {d} : slot_state'[c] = slot_state[c]
    BY <1>1, <1>4 DEF FinishDecode, Running
  <2>2. cpl_fifo' = Append(cpl_fifo, slot_task[d])
    BY <1>4, <2>1 DEF FinishDecode
  <2>3. slot_task[d] \in Descriptors \union {NoDesc}
    BY <1>1
  <2>4. Range(cpl_fifo') = Range(cpl_fifo) \union {slot_task[d]}
    BY <1>1, <2>2, <2>3, PushFacts
  <2>5. RunningTasks \subseteq RunningTasks' \union {slot_task[d]}
    BY <2>1 DEF RunningTasks, Running
  <2>6. QED
    BY <1>1, <1>2, <2>1, <2>4, <2>5 DEF Live, DescNumFree
<1>5. CASE DrainSource(d) \/ ReleaseSlot(d)
  <2>1. Running' = Running /\ UNCHANGED <<desc_fifo, cpl_fifo, slot_task>>
    BY <1>1, <1>5 DEF DrainSource, ReleaseSlot, Running
  <2>2. QED
    BY <1>1, <1>2, <2>1 DEF Live, RunningTasks, DescNumFree
<1>6. QED
  BY <1>3, <1>4, <1>5 DEF SlotStep
(* Apart from CompleteHardwareSubmit, no method puts a task in flight. *)
NoneFlies ==
  /\ failed => failed'
  /\ \A t \in Tasks : ~failed' /\ stage'[t] = "kHwInflight" => stage[t] = "kHwInflight"

LEMMA NoneFliesStutter ==
  ASSUME UNCHANGED <<stage, failed>>
  PROVE  NoneFlies
BY DEF NoneFlies

LEMMA NoneFliesFail ==
  ASSUME NEW message, Fail(message)
  PROVE  failed' /\ NoneFlies
BY DEF Fail, Ignored, schedulerVars, taskVars, NoneFlies

LEMMA NoneFliesMoved ==
  ASSUME SchedulerTypeOK, NEW t \in Tasks, NEW to, to # "kHwInflight",
         stage' = [stage EXCEPT ![t] = to], UNCHANGED failed
  PROVE  NoneFlies /\ stage'[t] # "kHwInflight"
BY DEF SchedulerTypeOK, NoneFlies

LEMMA NoneFliesMethods ==
  ASSUME SchedulerSound, NEW t \in Tasks,
         \/ AcquirePostProcess(t) \/ AcquireSoftwareDecode(t) \/ AcquireLoad(t)
         \/ AcquireHardwareSubmit(t)
         \/ CompleteLoad(t) \/ CompleteSoftwareDecode(t) \/ CompleteHardwareDecode(t)
         \/ CompletePostProcess(t)
  PROVE  NoneFlies
<1>1. SchedulerTypeOK
  BY DEF SchedulerSound
<1>2. CASE \/ AcquirePostProcess(t) \/ AcquireSoftwareDecode(t) \/ AcquireLoad(t)
           \/ AcquireHardwareSubmit(t)
  <2>1. /\ \/ stage' = [stage EXCEPT ![t] = "kPostProcessing"]
           \/ stage' = [stage EXCEPT ![t] = "kSwDecoding"]
           \/ stage' = [stage EXCEPT ![t] = "kLoading"]
           \/ stage' = [stage EXCEPT ![t] = "kHwSubmitting"]
        /\ UNCHANGED failed
    BY <1>2 DEF AcquirePostProcess, AcquireSoftwareDecode, AcquireLoad,
       AcquireHardwareSubmit
  <2>2. QED
    BY <1>1, <2>1, NoneFliesMoved
<1>3. CASE Ignored
  BY <1>3, NoneFliesStutter DEF Ignored, schedulerVars, taskVars
<1>4. CASE Rejected
  BY <1>4 DEF Rejected, NoneFlies
<1>5. CASE LoadCompleted(t)
  <2>1. StageAfterLoad # "kHwInflight"
    BY <1>5 DEF LoadCompleted
  <2>2. stage' = [stage EXCEPT ![t] = StageAfterLoad] /\ UNCHANGED failed
    BY <1>5 DEF LoadCompleted
  <2>3. QED
    BY <1>1, <2>1, <2>2, NoneFliesMoved
<1>6. CASE DecodeCompleted(t)
  BY <1>1, <1>6, NoneFliesMoved DEF DecodeCompleted
<1>7. CASE PostProcessCompleted(t)
  <2>1. /\ UNCHANGED failed
        /\ \/ stage' = [stage EXCEPT ![t] = "kDone"]
           \/ \E winners : stage' = [u \in Tasks |-> IF u = t THEN "kDone"
                                     ELSE IF u \in winners THEN "kQueuedForSwDecode"
                                     ELSE stage[u]]
    BY <1>7 DEF PostProcessCompleted, NoAssignment, AssignSwDecodeJobsLocked
  <2>2. CASE stage' = [stage EXCEPT ![t] = "kDone"]
    BY <1>1, <2>1, <2>2, NoneFliesMoved
  <2>3. ASSUME NEW winners,
               stage' = [u \in Tasks |-> IF u = t THEN "kDone"
                         ELSE IF u \in winners THEN "kQueuedForSwDecode" ELSE stage[u]]
        PROVE  NoneFlies
    BY <2>1, <2>3 DEF NoneFlies
  <2>4. QED
    BY <2>1, <2>2, <2>3
<1>8. QED
  BY <1>2, <1>3, <1>4, <1>5, <1>6, <1>7 DEF CompleteLoad, CompleteSoftwareDecode,
     CompleteHardwareDecode, CompletePostProcess

LEMMA WorkersFlyNone ==
  ASSUME Ownership, NEW w \in Workers, Worker(w)
  PROVE  NoneFlies
<1>1. SchedulerSound /\ ThreadsTypeOK
  BY DEF Ownership, TypeOK
<1>2. CASE AcquireCpuJob(w)
  <2>1. \/ UNCHANGED <<stage, failed>>
        \/ \E t \in Tasks : \/ AcquirePostProcess(t) \/ AcquireSoftwareDecode(t)
                            \/ AcquireLoad(t)
    BY <1>2 DEF AcquireCpuJob, AcquireNothing, AcquireWait, schedulerVars, taskVars
  <2>2. QED
    BY <1>1, <2>1, NoneFliesStutter, NoneFliesMethods
<1>3. CASE LoadImageToDma(w) \/ SoftwareDecodeJpeg(w) \/ PostProcess(w) \/ WorkerLeaves(w)
  <2>1. UNCHANGED <<stage, failed>> \/ \E message : Fail(message)
    BY <1>3 DEF LoadImageToDma, SoftwareDecodeJpeg, PostProcess, WorkerFails,
       WorkerLeaves, schedulerVars, taskVars
  <2>2. QED
    BY <2>1, NoneFliesStutter, NoneFliesFail
<1>4. CASE CompleteJob(w)
  <2>1. job[w] \in Tasks
    BY <1>1, <1>4 DEF CompleteJob, ThreadsTypeOK, Busy, Loading, SwDecoding, Posting
  <2>2. QED
    BY <1>1, <1>4, <2>1, NoneFliesMethods DEF CompleteJob
<1>5. QED
  BY <1>2, <1>3, <1>4 DEF Worker

(* A step that puts no task in flight, takes none out of the device and     *)
(* leaves the manager where it is.                                          *)
LEMMA KeptWhileManagerStays ==
  ASSUME TasksKept, NoneFlies, UNCHANGED <<manager, submitting>>,
         Fresh => Live \subseteq Live' /\ DescNumFree' >= DescNumFree,
         DescNumFree \in Int, DescNumFree' \in Int
  PROVE  TasksKept'
<1>1. Fresh' <=> Fresh
  BY DEF Fresh
<1>2. CASE ~Fresh
  BY <1>1, <1>2 DEF TasksKept, NoTaskLost, NoneFlies, Fresh
<1>3. CASE Fresh
  <2>1. \A t : InDevice(t) => InDevice(t)'
    BY <1>3, InDeviceIsLive
  <2>2. NoTaskLost'
    BY <2>1 DEF NoTaskLost, NoneFlies, TasksKept
  <2>3. ~failed' => ~failed
    BY DEF NoneFlies
  <2>4. QED
    BY <1>1, <1>3, <2>1, <2>2, <2>3 DEF TasksKept
<1>4. QED
  BY <1>2, <1>3
(* The manager takes a task out of the device only to complete it, and      *)
(* commits a descriptor only to a FIFO with room for it.                    *)
LEMMA ManagerKeepsTasks ==
  ASSUME Ownership, Ownership', TasksKept, Manager
  PROVE  TasksKept'
<1>1. /\ SchedulerSound /\ SchedulerTypeOK /\ ThreadsTypeOK
      /\ desc_fifo \in Seq(Descriptors \union {NoDesc})
      /\ cpl_fifo \in Seq(Descriptors \union {NoDesc})
  BY DEF Ownership, TypeOK, SchedulerSound, DeviceTypeOK
<1>2. CASE EnableSimulation \/ ResetDevice
  <2>1. /\ manager \in {"start", "reset"} /\ manager' \in {"reset", "loop"}
        /\ UNCHANGED <<stage, failed>>
    BY <1>2 DEF EnableSimulation, ResetDevice, At, schedulerVars, taskVars
  <2>2. QED
    BY <2>1 DEF TasksKept, NoTaskLost, Fresh
<1>3. CASE LoopHead \/ CheckFailure \/ WriteRegisters \/ DisableSimulation \/ ManagerLeaves
  <2>1. /\ UNCHANGED <<stage, failed, desc_fifo, cpl_fifo, slot_state, slot_task, submitting, cpl>>
        /\ manager \notin {"start", "reset", "lookup", "complete"}
        /\ manager' \notin {"start", "reset", "submit", "recheck"}
        /\ manager' \in {"write", "commit"} => manager \in {"recheck", "write"}
    BY <1>3 DEF LoopHead, CheckFailure, WriteRegisters, WriteDescriptor, DisableSimulation,
       ManagerLeaves, At, schedulerVars, taskVars, deviceVars
  <2>2. \A t : InDevice(t) => InDevice(t)'
    BY <2>1 DEF InDevice, Running
  <2>3. QED
    BY <2>1, <2>2 DEF TasksKept, NoTaskLost, Fresh, DescNumFree
<1>4. CASE TryPopCompletion
  <2>1. /\ UNCHANGED <<stage, failed, desc_fifo, slot_state, slot_task>>
        /\ manager = "drain" /\ manager' \in {"lookup", "check"}
        /\ \/ UNCHANGED cpl_fifo
           \/ /\ manager' = "lookup" /\ cpl_fifo # <<>>
              /\ cpl_fifo' = Tail(cpl_fifo) /\ cpl' = Head(cpl_fifo)
    BY <1>4 DEF TryPopCompletion, PopCompletion, At, schedulerVars, taskVars, deviceVars
  <2>2. Range(cpl_fifo) \subseteq Range(cpl_fifo') \union InHand'
    <3>1. CASE UNCHANGED cpl_fifo
      BY <3>1
    <3>2. CASE /\ manager' = "lookup" /\ cpl_fifo # <<>>
               /\ cpl_fifo' = Tail(cpl_fifo) /\ cpl' = Head(cpl_fifo)
      <4>1. Range(cpl_fifo) = Range(cpl_fifo') \union {cpl'}
        BY <1>1, <3>2, PopFacts
      <4>2. QED
        BY <3>2, <4>1 DEF InHand
    <3>3. QED
      BY <2>1, <3>1, <3>2
  <2>3. InHand = {} /\ RunningTasks' = RunningTasks
    BY <2>1 DEF InHand, RunningTasks, Running
  <2>4. Live \subseteq Live'
    BY <2>1, <2>2, <2>3 DEF Live
  <2>5. \A t : InDevice(t) => InDevice(t)'
    BY <2>4, InDeviceIsLive
  <2>6. QED
    BY <2>1, <2>5 DEF TasksKept, NoTaskLost, Fresh
<1>5. CASE LookUpTask
  <2>1. /\ UNCHANGED <<stage, failed, desc_fifo, cpl_fifo, slot_state, slot_task, cpl>>
        /\ manager = "lookup" /\ manager' \in {"unknown", "spurious", "complete"}
    BY <1>5 DEF LookUpTask, At, schedulerVars, taskVars, deviceVars
  <2>2. manager' # "complete" => failed'
    BY <2>1 DEF Ownership, RejectsOnlyAfterFailure
  <2>3. manager' = "complete" => \A t : InDevice(t) => InDevice(t)'
    BY <2>1 DEF InDevice, Running
  <2>4. QED
    BY <2>1, <2>2, <2>3 DEF TasksKept, NoTaskLost, Fresh
<1>6. CASE RejectCompletion
  <2>1. failed'
    BY <1>6, NoneFliesFail DEF RejectCompletion
  <2>2. QED
    BY <2>1 DEF TasksKept, NoTaskLost
<1>7. CASE AcceptCompletion
  <2>1. /\ UNCHANGED <<desc_fifo, cpl_fifo, slot_state, slot_task, cpl>>
        /\ manager = "complete" /\ manager' = "drain"
        /\ cpl.id \in Tasks /\ CompleteHardwareDecode(cpl.id)
    BY <1>1, <1>7 DEF AcceptCompletion, At, deviceVars, ThreadsTypeOK
  <2>2. NoneFlies
    BY <1>1, <2>1, NoneFliesMethods
  <2>3. failed' \/ stage'[cpl.id] # "kHwInflight"
    <3>1. failed' \/ DecodeCompleted(cpl.id)
      <4>1. failed => failed'
        BY <2>2 DEF NoneFlies
      <4>2. QED
        BY <2>1, <4>1 DEF CompleteHardwareDecode, Rejected
    <3>2. DecodeCompleted(cpl.id) => stage'[cpl.id] # "kHwInflight"
      BY <1>1, <2>1, NoneFliesMoved DEF DecodeCompleted
    <3>3. QED
      BY <3>1, <3>2
  <2>4. \A t : t # cpl.id /\ InDevice(t) => InDevice(t)'
    BY <2>1 DEF InDevice, Running
  <2>5. NoTaskLost'
    BY <2>2, <2>3, <2>4 DEF NoTaskLost, NoneFlies, TasksKept
  <2>6. QED
    BY <2>1, <2>5 DEF TasksKept, Fresh
<1>8. CASE TryAcquireHardwareSubmitTask \/ PollDescriptors
  <2>1. /\ UNCHANGED <<desc_fifo, cpl_fifo, slot_state, slot_task, cpl>>
        /\ manager \in {"acquire", "poll"}
        /\ manager' \in {"poll", "loop", "recheck", "exit"}
    BY <1>8 DEF TryAcquireHardwareSubmitTask, PollDescriptors, At, deviceVars
  <2>2. NoneFlies
    <3>1. \/ UNCHANGED <<stage, failed>>
          \/ \E t \in Tasks : AcquireHardwareSubmit(t)
          \/ \E message : Fail(message)
      BY <1>8 DEF TryAcquireHardwareSubmitTask, PollDescriptors, AcquireNoHardwareSubmit,
         schedulerVars, taskVars
    <3>2. QED
      BY <1>1, <3>1, NoneFliesStutter, NoneFliesFail, NoneFliesMethods
  <2>3. ~failed' /\ manager' = "recheck" => DescNumFree > 0
    <3>1. CASE TryAcquireHardwareSubmitTask
      BY <3>1 DEF TryAcquireHardwareSubmitTask, At
    <3>2. CASE PollDescriptors
      BY <3>2, NoneFliesFail DEF PollDescriptors, At
    <3>3. QED
      BY <1>8, <3>1, <3>2
  <2>4. \A t : InDevice(t) => InDevice(t)'
    BY <2>1 DEF InDevice, Running
  <2>5. NoTaskLost'
    BY <2>2, <2>4 DEF NoTaskLost, NoneFlies, TasksKept
  <2>6. DescNumFree' = DescNumFree
    BY <2>1 DEF DescNumFree
  <2>7. QED
    BY <2>1, <2>3, <2>5, <2>6 DEF TasksKept, Fresh
<1>9. CASE CommitDescriptor
  <2>1. /\ UNCHANGED <<stage, failed, submitting, cpl_fifo, slot_state, slot_task>>
        /\ manager = "commit" /\ manager' = "submit"
        /\ DescNumFree > 0 => desc_fifo' = Append(desc_fifo, mmio_desc)
    BY <1>9 DEF CommitDescriptor, DescCommit, At, schedulerVars, taskVars
  <2>2. CASE failed
    BY <2>1, <2>2 DEF TasksKept, NoTaskLost
  <2>3. CASE ~failed
    <3>1. desc_fifo' = Append(desc_fifo, mmio_desc)
      BY <2>1, <2>3 DEF TasksKept
    <3>2. mmio_desc.id = submitting /\ mmio_desc \in Descriptors \union {NoDesc}
      BY <2>1 DEF Ownership, ManagerOwns, Submitting, Descriptor, TypeOK, DeviceTypeOK
    <3>3. Range(desc_fifo') = Range(desc_fifo) \union {mmio_desc}
      BY <1>1, <3>1, <3>2, PushFacts
    <3>4. InHand = {} /\ RunningTasks' = RunningTasks
      BY <2>1 DEF InHand, RunningTasks, Running
    <3>5. Live \union {mmio_desc} \subseteq Live'
      BY <2>1, <3>3, <3>4 DEF Live
    <3>6. InDevice(submitting)' /\ \A t : InDevice(t) => InDevice(t)'
      <4>1. \E e \in Live' : e.id = submitting'
        BY <2>1, <3>2, <3>5
      <4>2. QED
        BY <3>5, <4>1, InDeviceIsLive
    <3>7. QED
      BY <2>1, <3>6 DEF TasksKept, NoTaskLost, Fresh
  <2>4. QED
    BY <2>2, <2>3
<1>10. CASE FinishSubmit
  <2>1. /\ UNCHANGED <<desc_fifo, cpl_fifo, slot_state, slot_task, cpl, submitting>>
        /\ manager = "submit" /\ manager' = "loop"
        /\ CompleteHardwareSubmit(submitting) /\ submitting \in Tasks
    BY <1>1, <1>10 DEF FinishSubmit, At, deviceVars, ThreadsTypeOK, Submitting
  <2>2. \/ failed'
        \/ ~failed /\ stage' = [stage EXCEPT ![submitting] = "kHwInflight"]
    <3>1. failed => failed'
      BY <1>1, <2>1, KeepsComplete DEF Keeps
    <3>2. QED
      BY <2>1, <3>1 DEF CompleteHardwareSubmit, Rejected
  <2>3. \A t : InDevice(t) => InDevice(t)'
    BY <2>1 DEF InDevice, Running
  <2>4. ~failed' => InDevice(submitting)
    BY <2>1, <2>2 DEF TasksKept
  <2>5. NoTaskLost'
    <3> SUFFICES ASSUME NEW t \in Tasks, ~failed', stage'[t] = "kHwInflight"
                 PROVE  InDevice(t)'
      BY DEF NoTaskLost
    <3>1. CASE t = submitting
      BY <2>3, <2>4, <3>1
    <3>2. CASE t # submitting
      <4>1. ~failed /\ stage[t] = "kHwInflight"
        BY <1>1, <2>2, <3>2 DEF SchedulerTypeOK
      <4>2. QED
        BY <2>3, <4>1 DEF TasksKept, NoTaskLost
    <3>3. QED
      BY <3>1, <3>2
  <2>6. QED
    BY <2>1, <2>5 DEF TasksKept, Fresh
<1>11. QED
  BY <1>2, <1>3, <1>4, <1>5, <1>6, <1>7, <1>8, <1>9, <1>10 DEF Manager

LEMMA TasksKeptNext ==
  ASSUME EnoughDepth, Ownership, Ownership', TasksKept, [Next]_vars
  PROVE  TasksKept'
<1>1. /\ DeviceTypeOK /\ DeviceTypeOK' /\ DescNumFree \in Int /\ DescNumFree' \in Int
  <2>1. /\ desc_fifo \in Seq(Descriptors \union {NoDesc})
        /\ desc_fifo' \in Seq(Descriptors \union {NoDesc})
        /\ DeviceTypeOK /\ DeviceTypeOK'
    BY DEF Ownership, TypeOK, DeviceTypeOK
  <2>2. Len(desc_fifo) \in Nat /\ Len(desc_fifo') \in Nat /\ DescFifoDepth \in Nat
    BY <2>1, LenProperties, DeviceAssumption
  <2>3. QED
    BY <2>1, <2>2 DEF DescNumFree
<1>2. ASSUME UNCHANGED <<deviceVars, manager, cpl, submitting>>, NoneFlies
      PROVE  TasksKept'
  <2>1. Live' = Live /\ DescNumFree' = DescNumFree
    BY <1>2 DEF Live, RunningTasks, Running, InHand, DescNumFree, deviceVars
  <2>2. DescNumFree' >= DescNumFree
    BY <1>1, <2>1
  <2>3. QED
    BY <1>1, <1>2, <2>1, <2>2, KeptWhileManagerStays
<1>3. ASSUME NEW w \in Workers, Worker(w)
      PROVE  TasksKept'
  <2>1. UNCHANGED <<deviceVars, manager, cpl, submitting>>
    BY <1>3 DEF Worker, AcquireCpuJob, LoadImageToDma, SoftwareDecodeJpeg, PostProcess,
       CompleteJob, WorkerLeaves, managerVars
  <2>2. QED
    BY <1>2, <1>3, <2>1, WorkersFlyNone
<1>4. CASE Manager
  BY <1>4, ManagerKeepsTasks
<1>5. ASSUME NEW d \in Decoders, Accelerator(d)
      PROVE  TasksKept'
  <2>1. SlotStep(d) /\ UNCHANGED <<stage, failed, manager, cpl, submitting>>
    BY <1>5 DEF Accelerator, SlotStep, schedulerVars, taskVars, managerVars
  <2>2. Fresh => Live \subseteq Live' /\ DescNumFree' >= DescNumFree
    BY <1>1, <2>1, RoomForCompletion, CoresKeepLive
  <2>3. QED
    BY <1>1, <2>1, <2>2, NoneFliesStutter, KeptWhileManagerStays
<1>6. CASE Main \/ Exited \/ UNCHANGED vars
  <2>1. UNCHANGED <<deviceVars, manager, cpl, submitting, stage, failed>>
    BY <1>6 DEF Main, Exited, vars, schedulerVars, taskVars, managerVars
  <2>2. QED
    BY <1>2, <2>1, NoneFliesStutter
<1>7. QED
  BY <1>3, <1>4, <1>5, <1>6 DEF Next

(* When the completion FIFO is as deep as one of the pools, a task the      *)
(* Scheduler believes in flight is in the descriptor FIFO, a core, the      *)
(* completion FIFO or the manager's hand: CompleteHardwareDecode can still  *)
(* come, and the driver does not poll for a completion that is lost.        *)
THEOREM NoTaskIsLost == EnoughDepth => (Spec => []NoTaskLost)
<1> SUFFICES ASSUME EnoughDepth
             PROVE  Spec => []NoTaskLost
  OBVIOUS
<1>1. Init => TasksKept
  BY DEF Init, SchedulerInit, TasksKept, NoTaskLost, Fresh
<1>2. Ownership /\ Ownership' /\ TasksKept /\ [Next]_vars => TasksKept'
  BY TasksKeptNext
<1>3. TasksKept => NoTaskLost
  BY DEF TasksKept
<1>4. QED
  BY <1>1, <1>2, <1>3, OwnershipInvariant, PTL DEF Spec
=============================================================================
