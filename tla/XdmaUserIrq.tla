---------------------------- MODULE XdmaUserIrq ----------------------------
(***************************************************************************)
(* User interrupts of driver/xdma-core.c: lines the user logic asserts,    *)
(* collected by xdma_user_irq() (MSI-X) or xdma_isr() into one events_irq  *)
(* flag per line, and handed out by read() of the events device.           *)
(***************************************************************************)
EXTENDS Integers, FiniteSets

CONSTANTS
  Line,     \* user interrupt lines, lro->user_irq[]
  Reader,   \* threads that read() an events device
  LineOf,   \* the line whose device a reader reads
  Faults    \* "signal"

ASSUME UserIrqConstants == LineOf \in [Reader -> Line] /\ Faults \subseteq {"signal"}

VARIABLES
  msix_enabled,
  request,     \* the line is asserted (user_int_request)
  raised,      \* its interrupt was sent and not handled
  to_service,  \* lines xdma_isr() read and has not serviced
  events_irq,
  pc, woken,   \* where a reader is, and whether it was woken on the wait queue
  outcome,     \* what its last read() returned
  readable     \* poll() told it that read() will not block

vars == <<msix_enabled, request, raised, to_service, events_irq, pc, woken, outcome, readable>>
lineVars == <<msix_enabled, request, raised, to_service>>

Init ==
  /\ msix_enabled \in BOOLEAN
  /\ request = [l \in Line |-> FALSE]
  /\ raised = [l \in Line |-> FALSE]
  /\ to_service = {}
  /\ events_irq = [l \in Line |-> FALSE]
  /\ pc = [r \in Reader |-> "idle"]
  /\ woken = [r \in Reader |-> FALSE]
  /\ outcome = [r \in Reader |-> "none"]
  /\ readable = [r \in Reader |-> FALSE]

-----------------------------------------------------------------------------
(* User logic: a line stays asserted until its interrupt was handled. *)
AssertEvent(l) ==
  /\ ~request[l]
  /\ request' = [request EXCEPT ![l] = TRUE]
  /\ raised' = [raised EXCEPT ![l] = TRUE]
  /\ UNCHANGED <<msix_enabled, to_service, events_irq, pc, woken, outcome, readable>>

DeassertEvent(l) ==
  /\ request[l] /\ ~raised[l]
  /\ request' = [request EXCEPT ![l] = FALSE]
  /\ UNCHANGED <<msix_enabled, raised, to_service, events_irq, pc, woken, outcome, readable>>

-----------------------------------------------------------------------------
OnQueue(r) == pc[r] \in {"queued", "sleep"}

(* Mutant: the test before wake_up_interruptible() is inverted. *)
UserIrqServiceWakesSet(l) ==
  /\ events_irq' = [events_irq EXCEPT ![l] = TRUE]
  /\ woken' = [r \in Reader |-> woken[r] \/ (events_irq[l] /\ LineOf[r] = l /\ OnQueue(r))]

(* user_irq_service(): the waiting readers are woken when the flag was      *)
(* clear.                                                                   *)
UserIrqService(l) ==
  /\ events_irq' = [events_irq EXCEPT ![l] = TRUE]
  /\ woken' = [r \in Reader |-> woken[r] \/ (~events_irq[l] /\ LineOf[r] = l /\ OnQueue(r))]

(* xdma_user_irq(), one vector per line. *)
UserIrq(l) ==
  /\ msix_enabled
  /\ raised[l]
  /\ raised' = [raised EXCEPT ![l] = FALSE]
  /\ UserIrqService(l)
  /\ UNCHANGED <<msix_enabled, request, to_service, pc, outcome, readable>>

(* xdma_isr() reads all the lines that are asserted.  A channel interrupt   *)
(* leads here as well, so a line may be read again while it is asserted.    *)
IsrRead ==
  /\ ~msix_enabled
  /\ to_service = {}
  /\ \E l \in Line : request[l]
  /\ to_service' = {l \in Line : request[l]}
  /\ raised' = [l \in Line |-> raised[l] /\ ~request[l]]
  /\ UNCHANGED <<msix_enabled, request, events_irq, pc, woken, outcome, readable>>

IsrService(l) ==
  /\ l \in to_service
  /\ to_service' = to_service \ {l}
  /\ UserIrqService(l)
  /\ UNCHANGED <<msix_enabled, request, raised, pc, outcome, readable>>

-----------------------------------------------------------------------------
(* char_events_read(): wait_event_interruptible() tests the flag, then puts *)
(* the thread on the queue and tests again before every sleep.              *)
ReadBegin(r) ==
  /\ pc[r] = "idle"
  /\ pc' = [pc EXCEPT ![r] = IF events_irq[LineOf[r]] THEN "take" ELSE "queue"]
  /\ outcome' = [outcome EXCEPT ![r] = "none"]
  /\ UNCHANGED <<lineVars, events_irq, woken, readable>>

PrepareToWait(r) ==
  /\ pc[r] = "queue"
  /\ pc' = [pc EXCEPT ![r] = "queued"]
  /\ woken' = [woken EXCEPT ![r] = FALSE]
  /\ UNCHANGED <<lineVars, events_irq, outcome, readable>>

WaitTest(r) ==
  /\ pc[r] = "queued"
  /\ pc' = [pc EXCEPT ![r] = IF events_irq[LineOf[r]] THEN "take" ELSE "sleep"]
  /\ UNCHANGED <<lineVars, events_irq, woken, outcome, readable>>

Wake(r) ==
  /\ pc[r] = "sleep"
  /\ woken[r]
  /\ pc' = [pc EXCEPT ![r] = "queue"]
  /\ UNCHANGED <<lineVars, events_irq, woken, outcome, readable>>

Signal(r) ==
  /\ "signal" \in Faults
  /\ pc[r] = "sleep"
  /\ pc' = [pc EXCEPT ![r] = "idle"]
  /\ outcome' = [outcome EXCEPT ![r] = "ERESTARTSYS"]
  /\ UNCHANGED <<lineVars, events_irq, woken, readable>>

(* The events are read and cleared under events_lock. *)
TakeEvents(r) ==
  /\ pc[r] = "take"
  /\ outcome' = [outcome EXCEPT ![r] = IF events_irq[LineOf[r]] THEN "event" ELSE "zero"]
  /\ events_irq' = [events_irq EXCEPT ![LineOf[r]] = FALSE]
  /\ readable' = [readable EXCEPT ![r] = FALSE]
  /\ pc' = [pc EXCEPT ![r] = "idle"]
  /\ UNCHANGED <<lineVars, woken>>

(* Mutant: the mask of another line is returned. *)
EventsPollAnyLine(r) ==
  /\ pc[r] = "idle"
  /\ readable' = [readable EXCEPT ![r] = \E l \in Line : events_irq[l]]
  /\ UNCHANGED <<lineVars, events_irq, pc, woken, outcome>>

(* char_events_poll() *)
EventsPoll(r) ==
  /\ pc[r] = "idle"
  /\ readable' = [readable EXCEPT ![r] = events_irq[LineOf[r]]]
  /\ UNCHANGED <<lineVars, events_irq, pc, woken, outcome>>

-----------------------------------------------------------------------------
Handler == IsrRead \/ \E l \in Line : UserIrq(l) \/ IsrService(l)
ReadRuns(r) == PrepareToWait(r) \/ WaitTest(r) \/ Wake(r) \/ TakeEvents(r)

Next ==
  \/ \E l \in Line : AssertEvent(l) \/ DeassertEvent(l)
  \/ Handler
  \/ \E r \in Reader : ReadBegin(r) \/ ReadRuns(r) \/ Signal(r) \/ EventsPoll(r)

Spec == Init /\ [][Next]_vars

(* Interrupts are delivered, the handler ends and runnable threads run. *)
Fairness ==
  /\ \A l \in Line : WF_vars(UserIrq(l)) /\ WF_vars(IsrService(l))
  /\ WF_vars(IsrRead /\ \E l \in Line : raised[l])
  /\ \A r \in Reader : WF_vars(ReadRuns(r))

FairSpec == Spec /\ Fairness

-----------------------------------------------------------------------------
TypeOK ==
  /\ msix_enabled \in BOOLEAN
  /\ request \in [Line -> BOOLEAN] /\ raised \in [Line -> BOOLEAN]
  /\ to_service \subseteq Line
  /\ events_irq \in [Line -> BOOLEAN]
  /\ pc \in [Reader -> {"idle", "queue", "queued", "sleep", "take"}]
  /\ woken \in [Reader -> BOOLEAN] /\ readable \in [Reader -> BOOLEAN]
  /\ outcome \in [Reader -> {"none", "event", "zero", "ERESTARTSYS"}]

(* No lost wake-up, though only the first event after a read() wakes: a     *)
(* thread that stays asleep has no event to read.                           *)
SleeperHasNoEvent == \A r \in Reader : pc[r] = "sleep" /\ ~woken[r] => ~events_irq[LineOf[r]]

(* The readers that share their device with no other.  Two readers of one   *)
(* line are both woken by one event and the second finds it taken.          *)
Alone == {r \in Reader : \A q \in Reader \ {r} : LineOf[q] # LineOf[r]}

(* A reader that shares its line with no other is told the truth: read()    *)
(* sleeps "until any interrupt events have occurred" and then tells of at   *)
(* least one, and it does not block when poll() said that there is one.     *)
ReaderSeesEvents ==
  \A r \in Alone : outcome[r] # "zero" /\ (readable[r] => pc[r] \in {"idle", "take"})

(* An interrupt of the user logic, also one that comes while an earlier one *)
(* is being handled or read, ends the read() that waits for its line.       *)
EventEndsRead ==
  \A r \in Alone : raised[LineOf[r]] /\ pc[r] # "idle" ~> pc[r] = "idle"
=============================================================================
