---------------------------- MODULE XdmaInterrupt ----------------------------
(***************************************************************************)
(* The engine of XdmaEngine in interrupt mode: the channel raises an       *)
(* interrupt, the handler masks it and schedules engine_service_work(),    *)
(* the work services the engine under engine->lock, wakes the caller whose *)
(* transfer is over and unmasks the interrupt.  With MSI-X the handler     *)
(* (xdma_channel_irq) masks through the engine's interrupt enable mask and *)
(* remembers what it cleared, otherwise (xdma_isr) it masks the channel.   *)
(***************************************************************************)
EXTENDS XdmaEngine

ASSUME InterruptMode == PollMode = FALSE

VARIABLES
  msix_enabled,     \* lro->msix_enabled, decided when the device is probed
  channel_enabled,  \* the engine's bit of channel_int_enable
  enable_mask,      \* engine's interrupt_enable_mask register is not zero
  saved_mask,       \* engine->interrupt_enable_mask_value is not zero
  work_pending,     \* engine->work is scheduled
  work_pc           \* where engine_service_work() is

irqVars == <<msix_enabled, channel_enabled, enable_mask, saved_mask>>
workVars == <<work_pending, work_pc>>
vars == <<xferVars, engineVars, hwVars, callerVars, irqVars, workVars>>

Init ==
  /\ EngineInit
  /\ HwInit
  /\ CallerInit
  /\ msix_enabled \in BOOLEAN
  /\ channel_enabled = TRUE
  /\ enable_mask = TRUE
  /\ saved_mask = FALSE
  /\ work_pending = FALSE
  /\ work_pc = "idle"

-----------------------------------------------------------------------------
InterruptRaised == events # {} /\ channel_enabled /\ enable_mask

(* xdma_isr(): disable the channel interrupt that fired, schedule the work. *)
Isr ==
  /\ ~msix_enabled
  /\ InterruptRaised
  /\ channel_enabled' = FALSE
  /\ work_pending' = TRUE
  /\ UNCHANGED <<xferVars, engineVars, hwVars, callerVars, work_pc,
                 msix_enabled, enable_mask, saved_mask>>

(* Mutant: the mask is cleared before it is saved. *)
ChannelIrqSavesLate ==
  /\ msix_enabled
  /\ InterruptRaised
  /\ saved_mask' = FALSE
  /\ enable_mask' = FALSE
  /\ work_pending' = TRUE
  /\ UNCHANGED <<xferVars, engineVars, hwVars, callerVars, work_pc,
                 msix_enabled, channel_enabled>>

(* xdma_channel_irq(): save the enable mask and clear what was enabled. *)
ChannelIrq ==
  /\ msix_enabled
  /\ InterruptRaised
  /\ saved_mask' = enable_mask
  /\ enable_mask' = FALSE
  /\ work_pending' = TRUE
  /\ UNCHANGED <<xferVars, engineVars, hwVars, callerVars, work_pc,
                 msix_enabled, channel_enabled>>

-----------------------------------------------------------------------------
(* engine_service_work() takes the lock and engine_service() reads and      *)
(* clears the status, whether the engine is running or not.                 *)
WorkBegin ==
  /\ work_pending
  /\ work_pc = "idle"
  /\ ~locked
  /\ locked' = TRUE
  /\ work_pending' = FALSE
  /\ work_pc' = "service"
  /\ StatusReadClear
  /\ UNCHANGED <<xferVars, transfer_list, running, desc_dequeued, serviced, bug, run,
                 active, busy, cur, count, wb, moved, callerVars, irqVars>>

(* engine_service(): nothing more is done when the engine is not running,   *)
(* and it is shut down when the status is not busy.                         *)
WorkShutdown ==
  /\ work_pc = "service"
  /\ IF running
     THEN EngineServiceShutdown(FALSE) /\ work_pc' = "inspect"
     ELSE UNCHANGED <<running, run>> /\ work_pc' = "reenable"
  /\ UNCHANGED <<xferVars, transfer_list, desc_dequeued, status, locked, serviced, bug, active,
                 busy, cur, count, events, wb, moved, callerVars, irqVars, work_pending>>

(* engine_transfer_completion() of the transfers in S:                      *)
(* wake_up_interruptible(&transfer->wq).                                    *)
Wake(S) ==
  pc' = [c \in Caller |-> IF pc[c] = "sleep" /\ mine[c] \in S THEN "wait" ELSE pc[c]]

(* The completed descriptor count is read and the state of the transfer is  *)
(* stored.                                                                  *)
WorkMark ==
  /\ work_pc = "inspect"
  /\ EngineService(NotYetDequeued(count))
  /\ work_pc' = AfterMark
  /\ Wake(Queued \ Queued')
  /\ UNCHANGED <<desc_num, running, status, locked, active, busy, cur, count, events, wb, moved,
                 mine, chunks, rc, result, irqVars, work_pending>>

(* The transfer is taken off the queue. *)
WorkUnlink ==
  /\ work_pc = "unlink"
  /\ work_pc' = "resume"
  /\ ServiceUnlink
  /\ UNCHANGED <<xferVars, running, status, locked, serviced, bug, hwVars, callerVars, irqVars,
                 work_pending>>

(* Its caller is woken and the engine restarted. *)
WorkResume ==
  /\ work_pc = "resume"
  /\ work_pc' = "reenable"
  /\ Wake({serviced})
  /\ EngineServiceResume
  /\ UNCHANGED <<xferVars, transfer_list, status, locked, bug, events, wb, moved, mine, chunks,
                 rc, result, irqVars, work_pending>>

(* Mutant: only MSI-X unmasks. *)
WorkReenableMsixOnly ==
  /\ work_pc = "reenable"
  /\ work_pc' = "idle"
  /\ locked' = FALSE
  /\ enable_mask' = (enable_mask \/ (msix_enabled /\ saved_mask))
  /\ UNCHANGED <<xferVars, transfer_list, running, desc_dequeued, status, serviced, bug,
                 hwVars, callerVars, msix_enabled, saved_mask, work_pending,
                 channel_enabled>>

(* Unmask the interrupt the handler masked and drop the lock. *)
WorkReenable ==
  /\ work_pc = "reenable"
  /\ work_pc' = "idle"
  /\ locked' = FALSE
  /\ IF msix_enabled
     THEN enable_mask' = (enable_mask \/ saved_mask) /\ UNCHANGED channel_enabled
     ELSE channel_enabled' = TRUE /\ UNCHANGED enable_mask
  /\ UNCHANGED <<xferVars, transfer_list, running, desc_dequeued, status, serviced, bug,
                 hwVars, callerVars, msix_enabled, saved_mask, work_pending>>

-----------------------------------------------------------------------------
(* Mutant: the caller sleeps without testing the state first. *)
WaitEventUntested(c) ==
  /\ pc[c] = "wait"
  /\ pc' = [pc EXCEPT ![c] = "sleep"]
  /\ UNCHANGED <<xferVars, engineVars, hwVars, mine, chunks, rc, result, irqVars, workVars>>

(* transfer_monitor(): wait_event_interruptible() tests the state before it *)
(* sleeps and every time it is woken.                                       *)
WaitEvent(c) ==
  /\ pc[c] = "wait"
  /\ pc' = [pc EXCEPT ![c] = IF xstate[mine[c]] # "SUBMITTED" THEN "ended" ELSE "sleep"]
  /\ UNCHANGED <<xferVars, engineVars, hwVars, mine, chunks, rc, result, irqVars, workVars>>

(* A signal ends the wait with a non-zero code. *)
Signal(c) ==
  /\ "signal" \in Faults
  /\ pc[c] = "sleep"
  /\ pc' = [pc EXCEPT ![c] = "ended"]
  /\ rc' = [rc EXCEPT ![c] = TRUE]
  /\ UNCHANGED <<xferVars, engineVars, hwVars, mine, chunks, result, irqVars, workVars>>

-----------------------------------------------------------------------------
CallerRequest(c) == Request(c) /\ UNCHANGED <<irqVars, workVars>>
CallerCreate(c) == TransferCreate(c) /\ UNCHANGED <<irqVars, workVars>>
CallerCreateFails(c) == TransferCreateFails(c) /\ UNCHANGED <<irqVars, workVars>>
CallerSubmit(c) == Submit(c) /\ UNCHANGED <<irqVars, workVars>>
CallerEnds(c) == AfterMonitor(c, "ended") /\ UNCHANGED <<irqVars, workVars>>
CallerRereads(c) == StatusReread(c) /\ UNCHANGED <<irqVars, workVars>>

CallerStep(c) ==
  \/ CallerRequest(c)
  \/ CallerCreate(c)
  \/ CallerCreateFails(c)
  \/ CallerSubmit(c)
  \/ WaitEvent(c)
  \/ Signal(c)
  \/ CallerEnds(c)
  \/ CallerRereads(c)

HardwareMoves == HwDescriptor \/ HwLastDescriptor
HardwareProgress ==
  HardwareMoves /\ UNCHANGED <<xferVars, engineVars, callerVars, irqVars, workVars>>
HardwareFault ==
  HwError /\ UNCHANGED <<xferVars, engineVars, callerVars, irqVars, workVars>>
HardwareIdle ==
  HwIdle /\ UNCHANGED <<xferVars, engineVars, callerVars, irqVars, workVars>>

Handler == Isr \/ ChannelIrq
Work ==
  WorkBegin \/ WorkShutdown \/ WorkMark \/ WorkUnlink \/ WorkResume \/ WorkReenable

Next ==
  /\ Alive
  /\ \/ \E c \in Caller : CallerStep(c)
     \/ HardwareProgress
     \/ HardwareFault
     \/ HardwareIdle
     \/ Handler
     \/ Work

Spec == Init /\ [][Next]_vars

(* The channel executes what it was given, interrupts are delivered, the    *)
(* workqueue runs what is scheduled, a runnable thread runs, and the queued *)
(* spinlock admits every thread that keeps asking for it.                   *)
Fairness ==
  /\ WF_vars(Alive /\ HardwareProgress)
  /\ WF_vars(Alive /\ HardwareIdle)
  /\ WF_vars(Alive /\ Handler)
  /\ WF_vars(Alive /\ Work)
  /\ \A c \in Caller :
       /\ WF_vars(Alive /\ (WaitEvent(c) \/ CallerEnds(c) \/ CallerRereads(c)))
       /\ SF_vars(Alive /\ CallerSubmit(c))

FairSpec == Spec /\ Fairness

-----------------------------------------------------------------------------
TypeOK ==
  /\ EngineTypeOK
  /\ HwTypeOK
  /\ CallerTypeOK
  /\ msix_enabled \in BOOLEAN
  /\ channel_enabled \in BOOLEAN
  /\ enable_mask \in BOOLEAN
  /\ saved_mask \in BOOLEAN
  /\ work_pending \in BOOLEAN
  /\ work_pc \in {"idle", "service", "inspect", "unlink", "resume", "reenable"}

(* The WARN_ON of engine_service_final_transfer(): one run of the hardware  *)
(* never reports more descriptors than the first transfer has, so the loop  *)
(* of engine_service_transfer_list() has nothing to do in this build.       *)
OneTransferPerRun ==
  work_pc = "inspect" /\ transfer_list # << >>
    => count - desc_dequeued <= desc_num[Head(transfer_list)]

(* A masked interrupt is always unmasked again: whenever it is masked the   *)
(* work that unmasks it is scheduled or running, with MSI and with MSI-X.   *)
InterruptNotLost == (channel_enabled /\ enable_mask) \/ work_pending \/ work_pc # "idle"

(* A queue that is not empty is being worked on: the channel is executing,  *)
(* or its report is there to be read, or the work is in the middle of it.   *)
(* No transfer is left behind on an idle engine.                            *)
QueueIsServed == transfer_list # << >> => active \/ events # {} \/ work_pc # "idle"

(* No lost wake-up: a caller asleep in transfer_monitor() still has         *)
(* something to be woken for ("the function servicing the engine will wake  *)
(* us"), or the work is about to wake it.                                   *)
SleeperWillBeWoken ==
  \A c \in Caller : pc[c] = "sleep" => xstate[mine[c]] = "SUBMITTED" \/ mine[c] = serviced
=============================================================================
