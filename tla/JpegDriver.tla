------------------------------ MODULE JpegDriver ------------------------------
(***************************************************************************)
(* The driver process of src_sw/jpeg_driver.cc: CPU worker threads, the    *)
(* hardware manager thread and main(), over the Scheduler monitor and, in  *)
(* hardware mode, the accelerator JpegDevice.                              *)
(*                                                                         *)
(* A step is one critical section of the Scheduler, one MMIO access, or    *)
(* the work a thread does on a DMA buffer between two of them.  A buffer   *)
(* holds the number of the image whose bytes or pixels it contains.        *)
(***************************************************************************)
EXTENDS Scheduler, JpegDevice

CONSTANTS
  Workers,  \* the CPU worker threads
  Faults,   \* the failures the environment may cause: "load", "decode", "descriptor"
  Stale     \* what an earlier run may have left in the device

NoTask == -1
NoImage == -1

Descriptor(t) == [id |-> t, src |-> src_slot[t], dst |-> dst_slot[t]]

ASSUME DriverAssumption ==
  /\ Workers # {}
  /\ Mode = "hw" => \E d, e \in Decoders : d # e
  /\ Stale \in Descriptors
  /\ [id : Tasks, src : SrcSlotIds, dst : DstSlotIds] \subseteq Descriptors
  /\ Descriptors \subseteq [id : Nat, src : Int, dst : Int]
  /\ \A d \in Descriptors : d.id < 65536

WorkerPcs == {"acquire", "load", "loaded", "decode", "decoded", "post", "posted",
              "leave", "stopped"}
ManagerPcs == {"start", "reset", "loop", "drain", "lookup", "unknown", "spurious",
               "complete", "check", "acquire", "poll", "recheck", "write", "commit",
               "submit", "exit", "leave", "stopped"}

VARIABLES
  pc, job,             \* per worker: where it is, and its task
  manager,             \* where the hardware manager is
  cpl,                 \* the completion TryPopCompletion returned
  submitting,          \* the task TryAcquireHardwareSubmitTask returned
  simulation_enabled,  \* the simulator control register
  src_buf, dst_buf,    \* the image in each source and destination buffer
  dumped,              \* the image each post-processing step has printed
  workers_ok, hw_ok,   \* the flags main() reads after joining
  exit_status

workerVars == <<pc, job>>
managerVars == <<manager, cpl, submitting, simulation_enabled>>
bufferVars == <<src_buf, dst_buf, dumped>>
mainVars == <<workers_ok, hw_ok, exit_status>>
vars == <<schedulerVars, asleep, deviceVars, workerVars, managerVars, bufferVars,
          mainVars>>

Init ==
  /\ SchedulerInit
  /\ IF Mode = "hw" THEN DeviceLeftOver(Stale) ELSE DeviceInit
  /\ pc = [w \in Workers |-> "acquire"]
  /\ job = [w \in Workers |-> NoTask]
  /\ manager = IF Mode = "hw" THEN "start" ELSE "stopped"
  /\ cpl = NoDesc
  /\ submitting = NoTask
  /\ simulation_enabled = FALSE
  /\ src_buf = [s \in SrcSlotIds |-> NoImage]
  /\ dst_buf = [s \in DstSlotIds |-> NoImage]
  /\ dumped = [t \in Tasks |-> NoImage]
  /\ workers_ok = TRUE
  /\ hw_ok = TRUE
  /\ exit_status = "running"

-----------------------------------------------------------------------------
(* CpuWorkerThreadMain *)

Goto(w, to) == pc' = [pc EXCEPT ![w] = to]
Begin(w, t, at) == Goto(w, at) /\ job' = [job EXCEPT ![w] = t]

AcquireCpuJob(w) ==
  /\ pc[w] = "acquire"
  /\ w \notin asleep
  /\ \/ AcquireNothing /\ Goto(w, "leave") /\ UNCHANGED job
     \/ \E t \in Tasks : AcquirePostProcess(t) /\ Begin(w, t, "post")
     \/ \E t \in Tasks : AcquireSoftwareDecode(t) /\ Begin(w, t, "decode")
     \/ \E t \in Tasks : AcquireLoad(t) /\ Begin(w, t, "load")
     \/ AcquireWait(w) /\ UNCHANGED workerVars
  /\ UNCHANGED <<deviceVars, managerVars, bufferVars, mainVars>>

(* The thread reports a failure and returns false. *)
WorkerFails(w, message) ==
  /\ Fail(message)
  /\ Goto(w, "stopped")
  /\ workers_ok' = FALSE
  /\ UNCHANGED <<job, bufferVars>>

(* The kLoad case up to CompleteLoad: the file goes to the source buffer,   *)
(* or it cannot be opened, is too large, is empty, or cannot be read.       *)
LoadImageToDma(w) ==
  LET t == job[w]
  IN  /\ pc[w] = "load"
      /\ \/ ~HasSrc(t) /\ WorkerFails(w, "missing slot")
         \/ /\ HasSrc(t)
            /\ "load" \in Faults
            /\ WorkerFails(w, "image load failed")
         \/ /\ HasSrc(t)
            /\ src_buf' = [src_buf EXCEPT ![src_slot[t]] = t]
            /\ Goto(w, "loaded")
            /\ UNCHANGED <<schedulerVars, asleep, job, dst_buf, dumped, workers_ok>>
      /\ UNCHANGED <<deviceVars, managerVars, hw_ok, exit_status>>

(* The kSoftwareDecode case up to CompleteSoftwareDecode.  A buffer without *)
(* memory or content is refused before the decoder is called, with the same *)
(* effect as a file it cannot decode.                                       *)
SoftwareDecodeJpeg(w) ==
  LET t == job[w]
  IN  /\ pc[w] = "decode"
      /\ \/ ~(HasSrc(t) /\ HasDst(t)) /\ WorkerFails(w, "missing slot")
         \/ /\ HasSrc(t) /\ HasDst(t)
            /\ "decode" \in Faults
            /\ WorkerFails(w, "software decode failed")
         \/ /\ HasSrc(t) /\ HasDst(t)
            /\ dst_buf' = [dst_buf EXCEPT ![dst_slot[t]] = src_buf[src_slot[t]]]
            /\ Goto(w, "decoded")
            /\ UNCHANGED <<schedulerVars, asleep, job, src_buf, dumped, workers_ok>>
      /\ UNCHANGED <<deviceVars, managerVars, hw_ok, exit_status>>

(* The kPostProcess case up to CompletePostProcess: print the first bytes   *)
(* of the destination buffer, then spin.                                    *)
PostProcess(w) ==
  LET t == job[w]
  IN  /\ pc[w] = "post"
      /\ \/ ~HasDst(t) /\ WorkerFails(w, "missing slot")
         \/ /\ HasDst(t)
            /\ dumped' = [dumped EXCEPT ![t] = dst_buf[dst_slot[t]]]
            /\ Goto(w, "posted")
            /\ UNCHANGED <<schedulerVars, asleep, job, src_buf, dst_buf, workers_ok>>
      /\ UNCHANGED <<deviceVars, managerVars, hw_ok, exit_status>>

(* The call that ends each case of the switch, then back to AcquireCpuJob. *)
CompleteJob(w) ==
  /\ \/ pc[w] = "loaded" /\ CompleteLoad(job[w])
     \/ pc[w] = "decoded" /\ CompleteSoftwareDecode(job[w])
     \/ pc[w] = "posted" /\ CompletePostProcess(job[w])
  /\ Goto(w, "acquire")
  /\ UNCHANGED <<job, deviceVars, managerVars, bufferVars, mainVars>>

(* return !scheduler->HasFailure(); *)
WorkerLeaves(w) ==
  /\ pc[w] = "leave"
  /\ Goto(w, "stopped")
  /\ workers_ok' = (workers_ok /\ ~failed)
  /\ UNCHANGED <<schedulerVars, asleep, job, deviceVars, managerVars, bufferVars,
                 hw_ok, exit_status>>

Worker(w) ==
  \/ AcquireCpuJob(w)
  \/ LoadImageToDma(w)
  \/ SoftwareDecodeJpeg(w)
  \/ PostProcess(w)
  \/ CompleteJob(w)
  \/ WorkerLeaves(w)

-----------------------------------------------------------------------------
(* HardwareDecoderManagerThreadMain *)

At(here, next) == manager = here /\ manager' = next

OnlyManagerMoves == UNCHANGED <<workerVars, bufferVars, mainVars>>

EnableSimulation ==
  /\ At("start", "reset")
  /\ simulation_enabled' = TRUE
  /\ OnlyManagerMoves
  /\ UNCHANGED <<schedulerVars, asleep, deviceVars, cpl, submitting>>

(* Mutant of ResetDevice: leaves the device as it is. *)
ResetDeviceSkipped ==
  /\ At("reset", "loop")
  /\ OnlyManagerMoves
  /\ UNCHANGED <<schedulerVars, asleep, deviceVars, cpl, submitting, simulation_enabled>>

ResetDevice ==
  /\ At("reset", "loop")
  /\ MmioReset
  /\ OnlyManagerMoves
  /\ UNCHANGED <<schedulerVars, asleep, cpl, submitting, simulation_enabled>>

(* while (!scheduler->IsFinished()) *)
LoopHead ==
  /\ At("loop", IF IsFinished THEN "exit" ELSE "drain")
  /\ OnlyManagerMoves
  /\ UNCHANGED <<schedulerVars, asleep, deviceVars, cpl, submitting, simulation_enabled>>

TryPopCompletion ==
  /\ \/ /\ At("drain", "lookup")
        /\ PopCompletion
        /\ cpl' = Head(cpl_fifo)
     \/ /\ At("drain", "check")
        /\ cpl_fifo = <<>>
        /\ UNCHANGED <<deviceVars, cpl>>
  /\ OnlyManagerMoves
  /\ UNCHANGED <<schedulerVars, asleep, submitting, simulation_enabled>>

(* GetTask copies the task under the lock; the copy is judged afterwards. *)
LookUpTask ==
  /\ At("lookup", IF cpl.id \notin Tasks THEN "unknown"
                  ELSE IF stage[cpl.id] # "kHwInflight" THEN "spurious"
                  ELSE "complete")
  /\ OnlyManagerMoves
  /\ UNCHANGED <<schedulerVars, asleep, deviceVars, cpl, submitting, simulation_enabled>>

RejectCompletion ==
  /\ \/ At("unknown", "check") /\ Fail("unknown task_id")
     \/ At("spurious", "check") /\ Fail("not in flight")
  /\ OnlyManagerMoves
  /\ UNCHANGED <<deviceVars, cpl, submitting, simulation_enabled>>

AcceptCompletion ==
  /\ At("complete", "drain")
  /\ CompleteHardwareDecode(cpl.id)
  /\ OnlyManagerMoves
  /\ UNCHANGED <<deviceVars, cpl, submitting, simulation_enabled>>

(* HasFailure() after the completions, and again after the poll. *)
CheckFailure ==
  /\ \/ At("check", IF failed THEN "exit" ELSE "acquire")
     \/ At("recheck", IF failed THEN "exit" ELSE "write")
  /\ OnlyManagerMoves
  /\ UNCHANGED <<schedulerVars, asleep, deviceVars, cpl, submitting, simulation_enabled>>

TryAcquireHardwareSubmitTask ==
  /\ \/ /\ At("acquire", "poll")
        /\ \E t \in Tasks : AcquireHardwareSubmit(t) /\ submitting' = t
     \/ /\ At("acquire", "loop")
        /\ AcquireNoHardwareSubmit
        /\ UNCHANGED submitting
  /\ OnlyManagerMoves
  /\ UNCHANGED <<deviceVars, cpl, simulation_enabled>>

(* Refuse a buffer without an address or a size, such as one at physical    *)
(* address 0, then wait for a free descriptor; 100 ms without one is a      *)
(* failure.                                                                 *)
PollDescriptors ==
  /\ manager = "poll"
  /\ \/ /\ ~(HasSrc(submitting) /\ HasDst(submitting))
        /\ At("poll", "exit")
        /\ Fail("missing slot")
     \/ /\ HasSrc(submitting) /\ HasDst(submitting)
        /\ "descriptor" \in Faults
        /\ At("poll", "exit")
        /\ Fail("invalid descriptor")
     \/ /\ HasSrc(submitting) /\ HasDst(submitting)
        /\ DescNumFree > 0
        /\ At("poll", "recheck")
        /\ UNCHANGED <<schedulerVars, asleep>>
     \/ /\ HasSrc(submitting) /\ HasDst(submitting)
        /\ DescNumFree = 0
        /\ At("poll", "recheck")
        /\ Fail("timed out")
  /\ OnlyManagerMoves
  /\ UNCHANGED <<deviceVars, cpl, submitting, simulation_enabled>>

WriteRegisters ==
  /\ At("write", "commit")
  /\ WriteDescriptor(Descriptor(submitting))
  /\ OnlyManagerMoves
  /\ UNCHANGED <<schedulerVars, asleep, cpl, submitting, simulation_enabled>>

CommitDescriptor ==
  /\ At("commit", "submit")
  /\ DescCommit
  /\ OnlyManagerMoves
  /\ UNCHANGED <<schedulerVars, asleep, cpl, submitting, simulation_enabled>>

FinishSubmit ==
  /\ At("submit", "loop")
  /\ CompleteHardwareSubmit(submitting)
  /\ OnlyManagerMoves
  /\ UNCHANGED <<deviceVars, cpl, submitting, simulation_enabled>>

DisableSimulation ==
  /\ At("exit", "leave")
  /\ simulation_enabled' = FALSE
  /\ OnlyManagerMoves
  /\ UNCHANGED <<schedulerVars, asleep, deviceVars, cpl, submitting>>

ManagerLeaves ==
  /\ At("leave", "stopped")
  /\ hw_ok' = ~failed
  /\ UNCHANGED <<schedulerVars, asleep, deviceVars, workerVars, cpl, submitting,
                 simulation_enabled, bufferVars, workers_ok, exit_status>>

Manager ==
  \/ EnableSimulation \/ ResetDevice \/ LoopHead
  \/ TryPopCompletion \/ LookUpTask \/ RejectCompletion \/ AcceptCompletion
  \/ CheckFailure \/ TryAcquireHardwareSubmitTask \/ PollDescriptors
  \/ WriteRegisters \/ CommitDescriptor \/ FinishSubmit
  \/ DisableSimulation \/ ManagerLeaves

-----------------------------------------------------------------------------
(* Mutant of Accelerator: the completion comes before the pixels. *)
AcceleratorCompletesFirst(d) ==
  /\ Mode = "hw"
  /\ StartDecode(d) \/ FinishDecode(d) \/ DrainSource(d) \/ ReleaseSlot(d)
  /\ UNCHANGED <<schedulerVars, asleep, workerVars, managerVars, bufferVars, mainVars>>

(* The decoder cores, over the driver's buffers.  A core that finishes has  *)
(* written the image it found in its source buffer.  A leftover task of an  *)
(* earlier run writes pixels of no image of this one.                       *)
Accelerator(d) ==
  /\ Mode = "hw"
  /\ \/ StartDecode(d) /\ UNCHANGED dst_buf
     \/ /\ FinishDecode(d)
        /\ dst_buf' = [dst_buf EXCEPT ![slot_task[d].dst] =
                         IF manager \in {"start", "reset"} THEN NoImage
                         ELSE src_buf[slot_task[d].src]]
     \/ DrainSource(d) /\ UNCHANGED dst_buf
     \/ ReleaseSlot(d) /\ UNCHANGED dst_buf
  /\ UNCHANGED <<schedulerVars, asleep, workerVars, managerVars, src_buf, dumped,
                 mainVars>>

(* main() joins every thread and reports. *)
Main ==
  /\ exit_status = "running"
  /\ \A w \in Workers : pc[w] = "stopped"
  /\ manager = "stopped"
  /\ exit_status' = IF workers_ok /\ hw_ok /\ ~failed THEN "EXIT_SUCCESS"
                    ELSE "EXIT_FAILURE"
  /\ UNCHANGED <<schedulerVars, asleep, deviceVars, workerVars, managerVars,
                 bufferVars, workers_ok, hw_ok>>

(* The process has exited: nothing is left to happen but what the device    *)
(* still does on its own.                                                   *)
Exited ==
  /\ exit_status # "running"
  /\ UNCHANGED vars

Next ==
  \/ \E w \in Workers : Worker(w)
  \/ Manager
  \/ \E d \in Decoders : Accelerator(d)
  \/ Main
  \/ Exited

Spec == Init /\ [][Next]_vars

(* The operating system runs every thread, the manager's loop polls for     *)
(* ever, and a core given a baseline JPEG file ends every decode.           *)
Fairness ==
  /\ \A w \in Workers : WF_vars(Worker(w))
  /\ WF_vars(Manager)
  /\ \A d \in Decoders : WF_vars(Accelerator(d))
  /\ WF_vars(Main)

FairSpec == Spec /\ Fairness
=============================================================================
