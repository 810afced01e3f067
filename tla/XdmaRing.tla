------------------------------ MODULE XdmaRing ------------------------------
(***************************************************************************)
(* An AXI-ST C2H engine (driver/xdma-core.c): a cyclic transfer fills a    *)
(* ring of blocks in host memory and writes one result per block, with an  *)
(* EOP flag on the last block of a packet.  engine_ring_process() follows  *)
(* the hardware with rx_tail, read() takes a packet at rx_head.  open()    *)
(* builds the ring and starts the engine, close() stops it and frees the   *)
(* ring.                                                                   *)
(*                                                                         *)
(* Masking and unmasking the channel interrupt is the subject of           *)
(* XdmaInterrupt; here an event leads to the work.                         *)
(***************************************************************************)
EXTENDS Integers, Sequences, FiniteSets, FiniteSetsExt

CONSTANTS
  Reader,      \* threads that read() the open file
  RingSize,    \* RX_BUF_PAGES
  MaxPacket,   \* bound: blocks of a packet
  MaxBlocks,   \* bound: blocks the hardware writes
  MaxOpens,    \* bound: how often the device is opened
  PollModes,   \* values the module parameter poll_mode is given at load time
  Environments \* sets of Faults: what may happen in one behaviour

(* The threads share the open file; the stream laps a slow reader; the      *)
(* channel fails; a result is bad; a signal interrupts read() or close();   *)
(* the open file is opened once more; memory is short.                      *)
Faults == {"share", "lap", "error", "bad", "signal", "close signal", "reopen", "nomem"}

ASSUME RingConstants ==
  /\ RingSize \in Nat /\ RingSize > 1
  /\ MaxPacket \in Nat \ {0}
  /\ MaxBlocks \in Nat /\ MaxOpens \in Nat
  /\ PollModes \subseteq BOOLEAN
  /\ Environments \subseteq SUBSET Faults

VARIABLES
  result,      \* the result of every block of the ring, or Clear
  data,        \* the block in every place of the ring buffer
  rx_tail, rx_head, rx_overrun, eop_found,
  running,     \* engine->running
  queued,      \* the cyclic transfer is on engine->transfer_list
  ring,        \* rx_buffer and rx_transfer_cyclic are allocated
  locked,      \* engine->lock is held across a step
  file         \* where the open file is: closed, starting, open, closing...

VARIABLES
  run, active, busy, events,
  wb_error,    \* the error bit of the write-back word
  status,      \* engine->status
  work,        \* where engine_service_work() is
  poll_mode,
  next_block,  \* where the hardware writes next
  in_packet,   \* blocks of the packet being received that were written
  written,     \* blocks written so far
  opens,       \* how often the device was opened
  env,         \* the faults that may happen, constant in a behaviour
  mishap       \* history: what went wrong, see Mishap

VARIABLES
  pc,          \* where each reader is
  got,         \* results the current or last read() took
  at,          \* rx_head when it began to take them
  copied,      \* blocks copy_to_user() read from the ring buffer
  outcome,     \* what the last read() returned
  taken        \* history: results all readers took since open

ringVars   == <<result, data, rx_tail, rx_head, rx_overrun, eop_found>>
engineVars == <<running, queued, ring, locked, status, poll_mode>>
hwVars     == <<run, active, busy, events, wb_error, next_block, in_packet, written>>
readVars   == <<got, at, copied, outcome, taken>>
openVars   == <<opens, env, mishap>>
vars == <<ringVars, engineVars, hwVars, file, work, openVars, pc, readVars>>

Slot  == 0..(RingSize - 1)
Clear == [id |-> 0, first |-> FALSE, eop |-> FALSE, bad |-> FALSE]
After(slot, n) == (slot + n) % RingSize

(* A result was overwritten before it was taken, an open() returned with    *)
(* the lock held, a signal ended the wait of close(), a result was bad      *)
(* (bound: one in a behaviour).                                             *)
Mishap == {"lapped", "leaked", "interrupted", "bad"}

(* The ring's memory was given back although the hardware may still write   *)
(* to it or the engine still has its transfer: what follows is undefined    *)
(* and the model ends there.                                                *)
FreedInUse == ~ring /\ (active \/ queued)

Init ==
  /\ result = [s \in Slot |-> Clear] /\ data = [s \in Slot |-> 0]
  /\ rx_tail = 0 /\ rx_head = 0 /\ rx_overrun = FALSE /\ eop_found = FALSE
  /\ running = FALSE /\ queued = FALSE /\ ring = FALSE /\ locked = FALSE
  /\ file = "closed"
  /\ run = FALSE /\ active = FALSE /\ busy = FALSE /\ events = {} /\ wb_error = FALSE
  /\ status = {} /\ work = "idle" /\ poll_mode \in PollModes
  /\ next_block = 0 /\ in_packet = 0 /\ written = 0 /\ opens = 0
  /\ env \in Environments /\ mishap = {}
  /\ pc = [r \in Reader |-> "idle"]
  /\ got = [r \in Reader |-> << >>] /\ at = [r \in Reader |-> 0]
  /\ copied = [r \in Reader |-> << >>] /\ outcome = [r \in Reader |-> "none"]
  /\ taken = 0

-----------------------------------------------------------------------------
(* The hardware fills the ring block by block, whatever the host has read.  *)
(* Without "lap" the stream is slow enough never to overwrite a result that *)
(* was not taken.                                                           *)
HwBlock ==
  /\ active
  /\ written < MaxBlocks
  /\ "lap" \in env \/ result[next_block] = Clear
  /\ \E eop \in IF in_packet + 1 = MaxPacket THEN {TRUE} ELSE BOOLEAN,
        bad \in IF "bad" \in env \ mishap THEN BOOLEAN ELSE {FALSE} :
       /\ result' = [result EXCEPT ![next_block] =
                       [id |-> written + 1, first |-> in_packet = 0, eop |-> eop, bad |-> bad]]
       /\ in_packet' = IF eop THEN 0 ELSE in_packet + 1
  /\ data' = [data EXCEPT ![next_block] = written + 1]
  /\ next_block' = After(next_block, 1)
  /\ written' = written + 1
  /\ mishap' = mishap \cup (IF result[next_block] # Clear THEN {"lapped"} ELSE {})
                      \cup (IF result'[next_block].bad THEN {"bad"} ELSE {})
  /\ events' = IF poll_mode THEN events ELSE events \cup {"COMPLETED"}
  /\ wb_error' = FALSE
  /\ UNCHANGED <<rx_tail, rx_head, rx_overrun, eop_found, run, active, busy>>

(* The channel stops after a block when RUN was cleared. *)
HwStop ==
  /\ active
  /\ ~run
  /\ active' = FALSE
  /\ busy' = FALSE
  /\ events' = IF poll_mode THEN events ELSE events \cup {"STOPPED"}
  /\ UNCHANGED <<ringVars, run, wb_error, next_block, in_packet, written, mishap>>

HwError ==
  /\ "error" \in env
  /\ active
  /\ active' = FALSE
  /\ busy' = FALSE
  /\ events' = events \cup {"ERROR"}
  /\ wb_error' = poll_mode
  /\ UNCHANGED <<ringVars, run, next_block, in_packet, written, mishap>>

-----------------------------------------------------------------------------
(* engine_status_read(engine, 1) *)
StatusReadClear ==
  /\ status' = events \cup (IF busy THEN {"BUSY"} ELSE {})
  /\ events' = {}

(* How many results engine_ring_process() follows from rx_tail: up to the   *)
(* first clear one, or until the tail meets the head, which is an overrun.  *)
Followed ==
  Max({n \in 0..RingSize :
         /\ n > 0 => ~rx_overrun
         /\ \A i \in 0..(n - 1) : /\ result[After(rx_tail, i)] # Clear
                                  /\ i > 0 => After(rx_tail, i) # rx_head})

EopCount == Cardinality({i \in 0..(Followed - 1) : result[After(rx_tail, i)].eop})

(* engine_ring_process() *)
RingProcess ==
  /\ rx_tail' = After(rx_tail, Followed)
  /\ rx_overrun' = (rx_overrun \/ (Followed > 0 /\ rx_tail' = rx_head))
  /\ UNCHANGED <<result, data, rx_head>>

(* Mutant: an engine that went idle is not shut down. *)
ShutdownNever == UNCHANGED <<queued, running, run>>

(* An engine that is no longer busy: engine_transfer_dequeue() and          *)
(* engine_service_shutdown().                                               *)
ShutdownWhenIdle ==
  IF running /\ "BUSY" \notin status
  THEN queued' = FALSE /\ running' = FALSE /\ run' = FALSE
  ELSE UNCHANGED <<queued, running, run>>

(* engine_service_work() *)
WorkBegin ==
  /\ work = "idle"
  /\ ~poll_mode /\ events # {}
  /\ ~locked
  /\ locked' = TRUE
  /\ work' = "service"
  /\ StatusReadClear
  /\ UNCHANGED <<ringVars, poll_mode, running, queued, ring, run, active, busy,
                 wb_error, next_block, in_packet, written, file, openVars, pc,
                 readVars>>

(* Mutant: eop_found tells of the last round only. *)
WorkServiceForgetsEop ==
  /\ work = "service"
  /\ work' = "idle"
  /\ locked' = FALSE
  /\ IF ring
     THEN RingProcess /\ ShutdownWhenIdle /\ eop_found' = (EopCount > 0)
     ELSE UNCHANGED <<ringVars, queued, running, run>>
  /\ UNCHANGED <<ring, status, poll_mode, active, busy, events, wb_error,
                 next_block, in_packet, written, file, openVars, pc, readVars>>

(* engine_service_cyclic_interrupt().  Without a ring it is engine_service, *)
(* which does nothing on a stopped engine.                                  *)
WorkService ==
  /\ work = "service"
  /\ work' = "idle"
  /\ locked' = FALSE
  /\ IF ring
     THEN RingProcess /\ ShutdownWhenIdle /\ eop_found' = (eop_found \/ EopCount > 0)
     ELSE UNCHANGED <<ringVars, queued, running, run>>
  /\ UNCHANGED <<ring, status, poll_mode, active, busy, events, wb_error,
                 next_block, in_packet, written, file, openVars, pc, readVars>>

-----------------------------------------------------------------------------
(* The one thread that reads a file that is not shared. *)
Owner == CHOOSE r \in Reader : TRUE

(* read(): transfer_monitor_cyclic() *)
ReadBegin(r) ==
  /\ r = Owner \/ "share" \in env
  /\ file = "open"
  /\ pc[r] = "idle"
  /\ pc' = [pc EXCEPT ![r] = IF poll_mode THEN "poll" ELSE "wait"]
  /\ outcome' = [outcome EXCEPT ![r] = "none"]
  /\ got' = [got EXCEPT ![r] = << >>]
  /\ copied' = [copied EXCEPT ![r] = << >>]
  /\ UNCHANGED <<ringVars, engineVars, hwVars, file, work, openVars, at, taken>>

(* The wait for eop_found, which only open() clears. *)
WaitEop(r) ==
  /\ pc[r] = "wait"
  /\ eop_found
  /\ pc' = [pc EXCEPT ![r] = "test"]
  /\ UNCHANGED <<ringVars, engineVars, hwVars, file, work, openVars, readVars>>

Returns(r, what) ==
  /\ pc' = [pc EXCEPT ![r] = "idle"]
  /\ outcome' = [outcome EXCEPT ![r] = what]

WaitSignal(r) ==
  /\ "signal" \in env
  /\ pc[r] = "wait"
  /\ Returns(r, "ERESTARTSYS")
  /\ UNCHANGED <<ringVars, engineVars, hwVars, file, work, openVars, got, at, copied, taken>>

(* engine_service_poll(engine, 0) takes the lock and keeps it until a       *)
(* packet has ended or the write-back word shows an error.                  *)
PollBegin(r) ==
  /\ pc[r] = "poll"
  /\ ~locked
  /\ locked' = TRUE
  /\ pc' = [pc EXCEPT ![r] = "polling"]
  /\ UNCHANGED <<ringVars, running, queued, ring, status, poll_mode, hwVars,
                 file, work, openVars, readVars>>

(* Mutant: any result ends the loop. *)
PollingAnyResult(r) ==
  /\ pc[r] = "polling"
  /\ ~wb_error
  /\ RingProcess
  /\ IF Followed > 0
     THEN locked' = FALSE /\ pc' = [pc EXCEPT ![r] = "test"]
     ELSE UNCHANGED <<locked, pc>>
  /\ UNCHANGED <<eop_found, running, queued, ring, status, poll_mode, hwVars,
                 file, work, openVars, readVars>>

(* One turn of the loop of engine_service_cyclic_polled(). *)
Polling(r) ==
  /\ pc[r] = "polling"
  /\ ~wb_error
  /\ RingProcess
  /\ IF EopCount > 0
     THEN locked' = FALSE /\ pc' = [pc EXCEPT ![r] = "test"]
     ELSE UNCHANGED <<locked, pc>>
  /\ UNCHANGED <<eop_found, running, queued, ring, status, poll_mode, hwVars,
                 file, work, openVars, readVars>>

PollingError(r) ==
  /\ pc[r] = "polling"
  /\ wb_error
  /\ StatusReadClear
  /\ pc' = [pc EXCEPT ![r] = "failed"]
  /\ UNCHANGED <<ringVars, poll_mode, running, queued, ring, locked, run,
                 active, busy, wb_error, next_block, in_packet, written, file,
                 work, openVars, readVars>>

(* Mutant: the error return keeps the lock. *)
PollFailedKeepsLock(r) ==
  /\ pc[r] = "failed"
  /\ ShutdownWhenIdle
  /\ Returns(r, "ERESTARTSYS")
  /\ UNCHANGED <<ringVars, locked, ring, status, poll_mode, active, busy,
                 events, wb_error, next_block, in_packet, written, file, work,
                 openVars, got, at, copied, taken>>

PollFailed(r) ==
  /\ pc[r] = "failed"
  /\ ShutdownWhenIdle
  /\ locked' = FALSE
  /\ Returns(r, "ERESTARTSYS")
  /\ UNCHANGED <<ringVars, ring, status, poll_mode, active, busy, events,
                 wb_error, next_block, in_packet, written, file, work, openVars,
                 got, at, copied, taken>>

(* The loop ends when there is a result at the head. *)
TestHead(r) ==
  /\ pc[r] = "test"
  /\ pc' = [pc EXCEPT ![r] = IF result[rx_head] # Clear THEN "complete"
                             ELSE IF poll_mode THEN "poll" ELSE "wait"]
  /\ UNCHANGED <<ringVars, engineVars, hwVars, file, work, openVars, readVars>>

(* complete_cyclic() *)
CompleteBegin(r) ==
  /\ pc[r] = "complete"
  /\ ~locked
  /\ locked' = TRUE
  /\ at' = [at EXCEPT ![r] = rx_head]
  /\ pc' = [pc EXCEPT ![r] = "take"]
  /\ UNCHANGED <<ringVars, running, queued, ring, status, poll_mode, hwVars,
                 file, work, openVars, got, copied, outcome, taken>>

(* What ends the loop of complete_cyclic(). *)
TakeEnds(r, x) ==
  \/ x.bad /\ locked' = FALSE
     /\ pc' = [pc EXCEPT ![r] = "overrun"] /\ outcome' = [outcome EXCEPT ![r] = "EIO"]
  \/ ~x.bad /\ x.eop /\ locked' = FALSE
     /\ pc' = [pc EXCEPT ![r] = "copy"] /\ UNCHANGED outcome
  \/ ~x.bad /\ ~x.eop /\ UNCHANGED <<locked, pc, outcome>>

(* Mutant: the head is advanced only by a good packet's last block. *)
TakeResultKeepsHead(r) ==
  /\ pc[r] = "take"
  /\ result[rx_head] # Clear
  /\ got' = [got EXCEPT ![r] = Append(@, result[rx_head])]
  /\ result' = [result EXCEPT ![rx_head] = Clear]
  /\ rx_head' = IF result[rx_head].eop THEN After(rx_head, 1) ELSE rx_head
  /\ taken' = taken + 1
  /\ TakeEnds(r, result[rx_head])
  /\ UNCHANGED <<data, rx_tail, rx_overrun, eop_found, running, queued, ring,
                 status, poll_mode, hwVars, file, work, openVars, at, copied>>

(* One turn of its loop: the result at the head is taken and cleared, the   *)
(* last one of a packet ends the loop and one without the result magic or   *)
(* with an impossible length ends it with -EIO.                             *)
TakeResult(r) ==
  /\ pc[r] = "take"
  /\ result[rx_head] # Clear
  /\ got' = [got EXCEPT ![r] = Append(@, result[rx_head])]
  /\ result' = [result EXCEPT ![rx_head] = Clear]
  /\ rx_head' = After(rx_head, 1)
  /\ taken' = taken + 1
  /\ TakeEnds(r, result[rx_head])
  /\ UNCHANGED <<data, rx_tail, rx_overrun, eop_found, running, queued, ring,
                 status, poll_mode, hwVars, file, work, openVars, at, copied>>

(* No result at the head any more: read() returns 0. *)
TakeNothing(r) ==
  /\ pc[r] = "take"
  /\ result[rx_head] = Clear
  /\ locked' = FALSE
  /\ outcome' = [outcome EXCEPT ![r] = "empty"]
  /\ pc' = [pc EXCEPT ![r] = "overrun"]
  /\ UNCHANGED <<ringVars, running, queued, ring, status, poll_mode, hwVars,
                 file, work, openVars, got, at, copied, taken>>

(* copy_cyclic_to_user(), without the lock.  Its loop moves head past the   *)
(* packet and copies nothing, the copy is made from where head then is.     *)
Beyond == 0
CopyToUser(r) ==
  LET n    == Len(got[r])
      head == After(at[r], n)
  IN /\ pc[r] = "copy"
     /\ copied' = [copied EXCEPT ![r] =
                     [i \in 1..n |-> IF head + i - 1 < RingSize THEN data[head + i - 1]
                                     ELSE Beyond]]
     /\ outcome' = [outcome EXCEPT ![r] = "packet"]
     /\ pc' = [pc EXCEPT ![r] = "overrun"]
     /\ UNCHANGED <<ringVars, engineVars, hwVars, file, work, openVars, got, at, taken>>

(* The end of char_sgdma_read_cyclic(): the overrun flag is reset, without  *)
(* the lock, and not reported.                                              *)
ReadEnd(r) ==
  /\ pc[r] = "overrun"
  /\ rx_overrun' = FALSE
  /\ pc' = [pc EXCEPT ![r] = "idle"]
  /\ UNCHANGED <<result, data, rx_tail, rx_head, eop_found, engineVars, hwVars, file, work,
                 openVars, readVars>>

-----------------------------------------------------------------------------
(* Bound: a file that is shared is opened once. *)
OpenBound == IF "share" \in env THEN 1 ELSE MaxOpens

(* open(): cyclic_transfer_setup(). *)
ResetRing == rx_tail' = 0 /\ rx_head' = 0 /\ rx_overrun' = FALSE /\ eop_found' = FALSE

OpenSetup ==
  /\ file = "closed" /\ opens < OpenBound
  /\ ~locked
  /\ ResetRing
  /\ result' = [s \in Slot |-> Clear]
  /\ data' = [s \in Slot |-> 0]
  /\ ring' = TRUE
  /\ taken' = written
  /\ file' = "starting"
  /\ opens' = opens + 1
  /\ UNCHANGED <<running, queued, locked, status, poll_mode, hwVars, work, env,
                 mishap, pc, got, at, copied, outcome>>

(* transfer_queue() of the cyclic transfer, in a lock section of its own. *)
OpenStart ==
  /\ file = "starting"
  /\ ~locked
  /\ queued' = TRUE
  /\ running' = TRUE
  /\ IF running
     THEN UNCHANGED <<run, active, busy, next_block>>
     ELSE run' = TRUE /\ active' = TRUE /\ busy' = TRUE /\ next_block' = 0
  /\ file' = "open"
  /\ UNCHANGED <<ringVars, ring, locked, status, poll_mode, events, wb_error,
                 in_packet, written, work, openVars, pc, readVars>>

(* A second open() of an open channel and a failed rvmalloc() return inside *)
(* the lock section, after the indices were reset.  A failed                *)
(* transfer_create() ends there, too: the test after it is of rx_buffer,    *)
(* and the kernel stops the thread where it uses the null pointer.          *)
OpenFailsLocked ==
  /\ \/ "reopen" \in env /\ ring
     \/ "nomem" \in env /\ file = "closed" /\ opens < OpenBound
  /\ ~locked
  /\ ResetRing
  /\ locked' = TRUE
  /\ mishap' = mishap \cup {"leaked"}
  /\ UNCHANGED <<result, data, running, queued, ring, status, poll_mode,
                 hwVars, file, work, opens, env, pc, readVars>>

(* No memory for the results: what was allocated is given back. *)
OpenUnwinds ==
  /\ "nomem" \in env
  /\ file = "closed" /\ opens < OpenBound
  /\ ~locked
  /\ ResetRing
  /\ opens' = opens + 1
  /\ UNCHANGED <<result, data, engineVars, hwVars, file, work, env, mishap, pc,
                 readVars>>

-----------------------------------------------------------------------------
(* close(): cyclic_transfer_teardown().  engine_cyclic_stop() clears RUN    *)
(* and does not take the lock.                                              *)
CloseStop ==
  /\ file = "open"
  /\ \A r \in Reader : pc[r] = "idle"
  /\ run' = (run /\ ~queued)
  /\ file' = "stopping"
  /\ UNCHANGED <<ringVars, engineVars, active, busy, events, wb_error, next_block, in_packet,
                 written, work, openVars, pc, readVars>>

(* Mutant: close() does not wait for the engine. *)
CloseWaitUntested ==
  /\ file = "stopping"
  /\ ~poll_mode
  /\ file' = "freeing"
  /\ UNCHANGED <<ringVars, engineVars, hwVars, work, openVars, pc, readVars>>

(* cyclic_shutdown_interrupt() *)
CloseWait ==
  /\ file = "stopping"
  /\ ~poll_mode
  /\ ~running
  /\ file' = "freeing"
  /\ UNCHANGED <<ringVars, engineVars, hwVars, work, openVars, pc, readVars>>

CloseSignal ==
  /\ "close signal" \in env
  /\ file = "stopping"
  /\ ~poll_mode
  /\ running
  /\ file' = "freeing"
  /\ mishap' = mishap \cup {"interrupted"}
  /\ UNCHANGED <<ringVars, engineVars, hwVars, work, opens, env, pc, readVars>>

(* cyclic_shutdown_polled(): under the lock until BUSY is clear. *)
CloseLock ==
  /\ file = "stopping"
  /\ poll_mode
  /\ ~locked
  /\ locked' = TRUE
  /\ file' = "draining"
  /\ UNCHANGED <<ringVars, running, queued, ring, status, poll_mode, hwVars,
                 work, openVars, pc, readVars>>

CloseDrain ==
  /\ file = "draining"
  /\ StatusReadClear
  /\ file' = IF busy THEN "draining" ELSE "drained"
  /\ UNCHANGED <<ringVars, poll_mode, running, queued, ring, locked, run,
                 active, busy, wb_error, next_block, in_packet, written, work,
                 openVars, pc, readVars>>

CloseDrained ==
  /\ file = "drained"
  /\ ShutdownWhenIdle
  /\ locked' = FALSE
  /\ file' = "freeing"
  /\ UNCHANGED <<ringVars, ring, status, poll_mode, active, busy, events,
                 wb_error, next_block, in_packet, written, work, openVars, pc,
                 readVars>>

CloseFree ==
  /\ file = "freeing"
  /\ ~locked
  /\ ring' = FALSE
  /\ file' = "closed"
  /\ UNCHANGED <<ringVars, running, queued, locked, status, poll_mode, hwVars,
                 work, openVars, pc, readVars>>

-----------------------------------------------------------------------------
Hardware ==
  /\ HwBlock \/ HwStop \/ HwError
  /\ UNCHANGED <<engineVars, file, work, opens, env, pc, readVars>>

(* Steps of a reader that need the lock, and those that do not. *)
ReadLocks(r) == PollBegin(r) \/ CompleteBegin(r)
ReadRuns(r) ==
  \/ WaitEop(r) \/ Polling(r) \/ PollingError(r) \/ PollFailed(r) \/ TestHead(r)
  \/ TakeResult(r) \/ TakeNothing(r) \/ CopyToUser(r) \/ ReadEnd(r)

Open == OpenSetup \/ OpenStart \/ OpenFailsLocked \/ OpenUnwinds
CloseLocks == CloseLock \/ CloseFree
CloseRuns == CloseWait \/ CloseDrain \/ CloseDrained

Next ==
  /\ ~FreedInUse
  /\ \/ Hardware
     \/ WorkBegin \/ WorkService
     \/ \E r \in Reader : ReadBegin(r) \/ WaitSignal(r) \/ ReadLocks(r) \/ ReadRuns(r)
     \/ Open
     \/ CloseStop \/ CloseSignal \/ CloseLocks \/ CloseRuns

Spec == Init /\ [][Next]_vars

(* The channel stops when told to, the work, the readers and close() run    *)
(* when they can, and the queued spinlock admits who keeps asking for it.   *)
(* The stream may end.                                                      *)
Fairness ==
  /\ WF_vars(~FreedInUse /\ HwStop /\ Hardware)
  /\ SF_vars(~FreedInUse /\ (WorkBegin \/ WorkService))
  /\ \A r \in Reader : SF_vars(~FreedInUse /\ (ReadLocks(r) \/ ReadRuns(r)))
  /\ SF_vars(~FreedInUse /\ (CloseLocks \/ CloseRuns))

FairSpec == Spec /\ Fairness

-----------------------------------------------------------------------------
Result == [id : 0..MaxBlocks, first : BOOLEAN, eop : BOOLEAN, bad : BOOLEAN]

TypeOK ==
  /\ result \in [Slot -> Result] /\ data \in [Slot -> 0..MaxBlocks]
  /\ rx_tail \in Slot /\ rx_head \in Slot
  /\ rx_overrun \in BOOLEAN /\ eop_found \in BOOLEAN
  /\ running \in BOOLEAN /\ queued \in BOOLEAN /\ ring \in BOOLEAN /\ locked \in BOOLEAN
  /\ file \in {"closed", "starting", "open", "stopping", "draining", "drained", "freeing"}
  /\ run \in BOOLEAN /\ active \in BOOLEAN /\ busy \in BOOLEAN /\ wb_error \in BOOLEAN
  /\ events \subseteq {"COMPLETED", "STOPPED", "ERROR"}
  /\ status \subseteq {"COMPLETED", "STOPPED", "ERROR", "BUSY"}
  /\ work \in {"idle", "service"} /\ poll_mode \in BOOLEAN
  /\ next_block \in Slot /\ in_packet \in 0..(MaxPacket - 1)
  /\ written \in 0..MaxBlocks /\ taken \in 0..MaxBlocks /\ opens \in 0..MaxOpens
  /\ env \in Environments /\ mishap \subseteq Mishap
  /\ pc \in [Reader -> {"idle", "wait", "poll", "polling", "failed", "test", "complete",
                        "take", "copy", "overrun"}]
  /\ \A r \in Reader : /\ Len(got[r]) <= MaxBlocks /\ at[r] \in Slot
                       /\ Len(copied[r]) <= MaxBlocks
                       /\ outcome[r] \in {"none", "packet", "empty", "EIO", "ERESTARTSYS"}

(* From the head on the ring holds exactly the blocks the hardware wrote    *)
(* and no reader took, in the order they were written: whatever readers,    *)
(* work and hardware do, no block is skipped, taken twice or reordered.     *)
(* Two things break it: a stream that laps the readers, and a second open() *)
(* that resets the indices of the first.                                    *)
RingIsOrdered ==
  ring /\ mishap \cap {"lapped", "leaked"} = {} =>
    \A k \in 0..(RingSize - 1) :
      LET x == result[After(rx_head, k)]
      IN IF taken + k < written THEN x.id = taken + k + 1 ELSE x = Clear

(* close() gives the ring's memory back only when the hardware no longer    *)
(* writes to it and its transfer is off the queue ("wait for engine to be   *)
(* no longer running"), unless a signal ended that wait: also after errors, *)
(* laps and readers that share the file.                                    *)
FreedAfterStop == FreedInUse => "interrupted" \in mishap

(* A read() that returns data took one packet from its first block to its   *)
(* EOP, and none takes the beginning of a packet and returns nothing.       *)
WholePackets ==
  \A r \in Reader :
    /\ outcome[r] = "packet" => /\ got[r][1].first
                                /\ \A i \in 2..Len(got[r]) : got[r][i].id = got[r][i - 1].id + 1
    /\ outcome[r] = "empty" => got[r] = << >>

(* In poll mode a reader that does not share the file takes whole packets,  *)
(* when the stream does not lap it: the loop of the poll ends with an EOP   *)
(* in the ring.  (An earlier close() may have cut the first packet of a     *)
(* later open, a bad result ends a read in the middle of one.)              *)
PolledReadIsWhole ==
  /\ poll_mode
  /\ "share" \notin env
  /\ mishap \cap {"lapped", "leaked", "bad"} = {}
  /\ opens = 1
  => WholePackets

(* What copy_to_user() copies are the blocks of the packet that was taken   *)
(* ("Transfer anything from head to EOP").                                  *)
CopyIsPacket ==
  \A r \in Reader :
    outcome[r] = "packet" => copied[r] = [i \in DOMAIN got[r] |-> got[r][i].id]

(* engine->lock is only held by somebody who is in a lock section: every    *)
(* way out of the work, of the poll, of read() and of close() drops it.     *)
(* Only an open() that fails after it took the lock keeps it.               *)
LockHasHolder ==
  locked => \/ work = "service"
            \/ file \in {"draining", "drained"}
            \/ \E r \in Reader : pc[r] \in {"polling", "failed", "take"}
            \/ "leaked" \in mishap

(* A packet that is complete in the ring is taken: the one reader of the    *)
(* file does not stay in read() with the packet in front of it, so no       *)
(* wake-up is lost between the work, the sleeping reader and the sticky     *)
(* eop_found.  (Of two threads that poll a file they share one may spin     *)
(* under the lock the other needs to take its packet, and a poll waits for  *)
(* a new EOP when rx_tail is already behind the packet.)                    *)
PacketWaits ==
  /\ "share" \notin env
  /\ mishap \subseteq {"bad"}
  /\ result[rx_head] # Clear
  /\ \E s \in Slot : result[s].eop
  /\ pc[Owner] \in {"wait", "test", "complete"}

PacketIsTaken == []<>~PacketWaits

(* close() comes to its end, also on a channel that failed or that lapped   *)
(* its readers, unless an open() kept the lock.                             *)
Closing == file \in {"stopping", "draining", "drained", "freeing"} /\ "leaked" \notin mishap
CloseReturns == []<>~Closing
=============================================================================
