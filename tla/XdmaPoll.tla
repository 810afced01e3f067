------------------------------ MODULE XdmaPoll ------------------------------
(***************************************************************************)
(* The engine of XdmaEngine in poll mode (poll_mode = 1): no interrupt is  *)
(* enabled.  The hardware writes the completed descriptor count of a run   *)
(* to a word in host memory, every caller polls that word for the count of *)
(* its own transfer, without the lock, and then services the engine itself *)
(* under the lock.                                                         *)
(*                                                                         *)
(* One word for all callers is enough only while one request at a time is  *)
(* made on the engine.  exclusive and healthy, which a behaviour starts    *)
(* with and keeps, say what its programs and its hardware are like; what   *)
(* holds of one behaviour and not of another is stated with them.          *)
(***************************************************************************)
EXTENDS XdmaEngine

CONSTANT MaxFailures  \* bound: hardware errors and polls that take POLL_TIMEOUT_SECONDS

ASSUME PollConstants == PollMode = TRUE /\ MaxFailures \in Nat

VARIABLES
  exclusive, \* the programs make one request at a time on this engine
  healthy,   \* the hardware neither fails nor takes POLL_TIMEOUT_SECONDS
  seen,      \* the write-back word a caller's engine_service_wb_monitor() returned
  timeouts,  \* polls that timed out so far
  errors     \* errors the hardware had so far

pollVars == <<exclusive, healthy, seen, timeouts, errors>>
vars == <<xferVars, engineVars, hwVars, callerVars, pollVars>>

Init ==
  /\ EngineInit
  /\ HwInit
  /\ CallerInit
  /\ exclusive \in BOOLEAN
  /\ healthy \in BOOLEAN
  /\ seen = [c \in Caller |-> NoWriteback]
  /\ timeouts = 0
  /\ errors = 0

-----------------------------------------------------------------------------
Expected(c) == desc_num[mine[c]]

(* Mutant: the count is compared off by one. *)
WritebackSeenEarly(c) == wb.err \/ wb.count + 1 >= Expected(c)

(* What ends the loop of engine_service_wb_monitor(). *)
WritebackSeen(c) == wb.err \/ wb.count = Expected(c)

(* engine_service_wb_monitor() returns the word it was waiting for. *)
WbMonitor(c) ==
  /\ pc[c] = "wait"
  /\ WritebackSeen(c)
  /\ seen' = [seen EXCEPT ![c] = wb]
  /\ pc' = [pc EXCEPT ![c] = "lock"]
  /\ UNCHANGED <<xferVars, engineVars, hwVars, mine, chunks, rc, result, exclusive, healthy, timeouts, errors>>

(* It gives up after POLL_TIMEOUT_SECONDS; more descriptors than expected   *)
(* are turned into an error.                                                *)
WbTimeout(c) ==
  /\ ~healthy
  /\ timeouts + errors < MaxFailures
  /\ pc[c] = "wait"
  /\ ~WritebackSeen(c)
  /\ seen' = [seen EXCEPT ![c] =
                IF wb.count > Expected(c) THEN [count |-> Expected(c), err |-> TRUE] ELSE wb]
  /\ timeouts' = timeouts + 1
  /\ pc' = [pc EXCEPT ![c] = "lock"]
  /\ UNCHANGED <<xferVars, engineVars, hwVars, mine, chunks, rc, result, exclusive, healthy, errors>>

(* engine_service() under the lock, on a running engine: the status is read *)
(* only when no count was written back or an error was.                     *)
PollBegin(c) ==
  /\ pc[c] = "lock"
  /\ ~locked
  /\ running
  /\ locked' = TRUE
  /\ pc' = [pc EXCEPT ![c] = "service"]
  /\ IF seen[c].count = 0 \/ seen[c].err THEN StatusReadClear ELSE UNCHANGED <<status, events>>
  /\ UNCHANGED <<xferVars, transfer_list, running, desc_dequeued, serviced, bug, run, active,
                 busy, cur, count, wb, moved, mine, chunks, rc, result, pollVars>>

(* On a stopped engine it returns 0 at once. *)
PollStopped(c) ==
  /\ pc[c] = "lock"
  /\ ~locked
  /\ ~running
  /\ pc' = [pc EXCEPT ![c] = "ended"]
  /\ IF seen[c] = NoWriteback THEN StatusReadClear ELSE UNCHANGED <<status, events>>
  /\ UNCHANGED <<xferVars, transfer_list, running, desc_dequeued, locked, serviced, bug, run,
                 active, busy, cur, count, wb, moved, mine, chunks, rc, result, pollVars>>

PollShutdown(c) ==
  /\ pc[c] = "service"
  /\ EngineServiceShutdown(seen[c].count # 0)
  /\ pc' = [pc EXCEPT ![c] = "inspect"]
  /\ UNCHANGED <<xferVars, transfer_list, desc_dequeued, status, locked, serviced, bug, active,
                 busy, cur, count, events, wb, moved, mine, chunks, rc, result, pollVars>>

(* The count written back, if there is one, or the register; the state of   *)
(* the transfer is stored.                                                  *)
PollMark(c) ==
  /\ pc[c] = "inspect"
  /\ EngineService(NotYetDequeued(IF seen[c].count # 0 THEN seen[c].count ELSE count))
  /\ pc' = [pc EXCEPT ![c] = AfterMark]
  /\ UNCHANGED <<desc_num, running, status, locked, active, busy, cur, count, events, wb, moved,
                 mine, chunks, rc, result, pollVars>>

(* The transfer is taken off the queue. *)
PollUnlink(c) ==
  /\ pc[c] = "unlink"
  /\ ServiceUnlink
  /\ pc' = [pc EXCEPT ![c] = "resume"]
  /\ UNCHANGED <<xferVars, running, status, locked, serviced, bug, hwVars, mine, chunks, rc,
                 result, pollVars>>

(* Mutant: the write-back word of a run is left there. *)
PollResumeKeepsWord(c) ==
  /\ pc[c] = "resume"
  /\ EngineServiceResume
  /\ locked' = FALSE
  /\ rc' = [rc EXCEPT ![c] = seen[c].err]
  /\ seen' = [seen EXCEPT ![c] = NoWriteback]
  /\ pc' = [pc EXCEPT ![c] = "ended"]
  /\ UNCHANGED <<xferVars, transfer_list, status, bug, events, wb, moved, mine, chunks, result,
                 exclusive, healthy, timeouts, errors>>

(* Nobody sleeps on its queue.  The write-back word is cleared, the engine  *)
(* restarted and the lock dropped.                                          *)
PollResume(c) ==
  /\ pc[c] = "resume"
  /\ EngineServiceResume
  /\ wb' = NoWriteback
  /\ locked' = FALSE
  /\ rc' = [rc EXCEPT ![c] = seen[c].err]
  /\ seen' = [seen EXCEPT ![c] = NoWriteback]
  /\ pc' = [pc EXCEPT ![c] = "ended"]
  /\ UNCHANGED <<xferVars, transfer_list, status, bug, events, moved, mine, chunks, result,
                 exclusive, healthy, timeouts, errors>>

-----------------------------------------------------------------------------
CallerRequest(c) ==
  /\ exclusive => \A d \in Caller : pc[d] = "idle"
  /\ Request(c)
  /\ UNCHANGED pollVars
CallerCreate(c) == (TransferCreate(c) \/ TransferCreateFails(c)) /\ UNCHANGED pollVars
CallerSubmit(c) == Submit(c) /\ UNCHANGED pollVars
CallerEnds(c) == (AfterMonitor(c, "ended") \/ StatusReread(c)) /\ UNCHANGED pollVars
CallerPolls(c) ==
  WbMonitor(c) \/ PollShutdown(c) \/ PollMark(c) \/ PollUnlink(c) \/ PollResume(c)
CallerLocks(c) == PollBegin(c) \/ PollStopped(c)

CallerStep(c) ==
  \/ CallerRequest(c) \/ CallerCreate(c) \/ CallerSubmit(c)
  \/ CallerPolls(c) \/ WbTimeout(c) \/ CallerLocks(c) \/ CallerEnds(c)

HardwareProgress ==
  /\ HwDescriptor \/ HwLastDescriptor
  /\ UNCHANGED <<xferVars, engineVars, callerVars, pollVars>>

(* A channel whose RUN bit was cleared under it stops after a descriptor. *)
HardwareHalts ==
  /\ active
  /\ ~run
  /\ active' = FALSE
  /\ busy' = FALSE
  /\ UNCHANGED <<run, cur, count, events, wb, moved, xferVars, engineVars, callerVars, pollVars>>

HardwareFault ==
  /\ ~healthy
  /\ timeouts + errors < MaxFailures
  /\ HwError
  /\ errors' = errors + 1
  /\ UNCHANGED <<xferVars, engineVars, callerVars, exclusive, healthy, seen, timeouts>>

Next ==
  /\ Alive
  /\ \/ \E c \in Caller : CallerStep(c)
     \/ HardwareProgress
     \/ HardwareHalts
     \/ HardwareFault

Spec == Init /\ [][Next]_vars

(* The channel executes what it was given or stops, a runnable thread runs  *)
(* and the queued spinlock admits who keeps asking for it.  That a request  *)
(* is made, or that the allocator has an object, is not assumed.  A caller  *)
(* is at one step at a time, so its steps share one condition.              *)
Fairness ==
  /\ WF_vars(Alive /\ HardwareProgress)
  /\ WF_vars(Alive /\ HardwareHalts)
  /\ \A c \in Caller :
       SF_vars(Alive /\ (CallerSubmit(c) \/ CallerPolls(c) \/ CallerLocks(c) \/ CallerEnds(c)))

FairSpec == Spec /\ Fairness

-----------------------------------------------------------------------------
TypeOK ==
  /\ EngineTypeOK
  /\ HwTypeOK
  /\ CallerTypeOK
  /\ exclusive \in BOOLEAN
  /\ healthy \in BOOLEAN
  /\ seen \in [Caller -> [count : 0..MaxDesc, err : BOOLEAN]]
  /\ timeouts \in 0..MaxFailures
  /\ errors \in 0..MaxFailures

(* A queued transfer is never left behind on an engine that was shut down:  *)
(* whoever services it, for whichever transfer, restarts it.  (Two pollers  *)
(* can service an empty queue: there the kernel has stopped.)               *)
StoppedIsEmpty == Alive /\ ~locked /\ transfer_list # << >> => running

(* One request at a time, and no poll that timed out: the word a caller     *)
(* polls is the one of its own transfer, so no BUG_ON() is reached and what *)
(* is reported as completed was moved, also when the hardware fails.        *)
OwnReport == exclusive /\ timeouts = 0 => NoBug /\ CompletedWasMoved

Promised == exclusive /\ healthy

(* On such an engine and healthy hardware no caller polls for ever: the     *)
(* word it waits for is not cleared, overwritten or missed.                 *)
PolledRequestReturns ==
  Promised /\ (\E c \in Caller : pc[c] = "queue") ~> \A c \in Caller : pc[c] \in {"create", "idle"}

(* Interrupt mode and poll mode keep the same promise, poll mode to one     *)
(* caller at a time: in-order, exactly-once and eventual service, and no    *)
(* transfer given back before its data moved.                               *)
OneCaller == INSTANCE DmaService WITH
  pending <- IF Promised THEN PendingTransfers ELSE << >>,
  done    <- IF Promised THEN MovedTransfers ELSE {}

ServesOneCaller == OneCaller!Spec
=============================================================================
