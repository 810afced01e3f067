----------------------------- MODULE XdmaEngine -----------------------------
(***************************************************************************)
(* One SG DMA engine of the XDMA driver (driver/xdma-core.c) and the       *)
(* callers of read() and write() on its character device.                  *)
(*                                                                         *)
(* This module holds what interrupt mode and poll mode share: the          *)
(* transfers, the engine's transfer queue, starting the engine, servicing  *)
(* it, the request loop of transfer_data() and the hardware channel the    *)
(* driver programs.  XdmaInterrupt and XdmaPoll add how a caller learns    *)
(* that its transfer is over and each define the next-state relation.      *)
(*                                                                         *)
(* The build is the repository's: CHAIN_MULTIPLE_TRANSFERS is 0, so one    *)
(* run of the hardware executes one transfer, and AIO is compiled out, so  *)
(* every transfer is synchronous.                                          *)
(***************************************************************************)
EXTENDS Integers, Sequences, FiniteSets, Functions

CONSTANTS
  Caller,      \* threads in char_sgdma_read_write() on this engine
  Xfer,        \* struct xdma_transfer objects the allocator can hand out
  NoXfer,      \* the null pointer
  MaxDesc,     \* bound: descriptors of one transfer
  MaxChunks,   \* bound: transfers one request is split into
  PollMode,    \* the module parameter poll_mode
  CounterSize, \* 2^32, the u32 descriptor counts wrap at: above any real count
  Faults       \* what the environment may do: "error", "busy", "signal"

ASSUME EngineConstants ==
  /\ NoXfer \notin Xfer
  /\ MaxDesc \in Nat \ {0}
  /\ MaxChunks \in Nat \ {0}
  /\ PollMode \in BOOLEAN
  /\ CounterSize \in Nat /\ CounterSize > MaxDesc
  /\ Faults \subseteq {"error", "busy", "signal"}

VARIABLES
  xstate,         \* transfer->state, or "FREE" when the object is not allocated
  desc_num,       \* transfer->desc_num
  transfer_list,  \* engine->transfer_list, head first
  running,        \* engine->running
  desc_dequeued,  \* engine->desc_dequeued
  status,         \* engine->status, the last value read from the register
  locked,         \* engine->lock is held across a step
  serviced,       \* transfer engine_service() has marked as over and still uses
  bug             \* a BUG_ON() was hit: the kernel stops

VARIABLES
  run,            \* RUN bit of the control register
  active,         \* the channel is executing descriptors
  busy,           \* BUSY bit of the status register
  cur,            \* transfer whose descriptors the channel fetches
  count,          \* completed_desc_count register
  events,         \* event bits of the status register, sticky until read
  wb,             \* poll-mode write-back word in host memory
  moved           \* history: transfers all of whose data was moved

VARIABLES
  pc,             \* where each caller is
  mine,           \* the caller's current transfer
  chunks,         \* transfers the request still has to make
  rc,             \* transfer_monitor() returned non-zero
  result          \* what the caller's last request returned

xferVars   == <<xstate, desc_num>>
engineVars == <<transfer_list, running, desc_dequeued, status, locked, serviced, bug>>
hwVars     == <<run, active, busy, cur, count, events, wb, moved>>
callerVars == <<pc, mine, chunks, rc, result>>

NoWriteback == [count |-> 0, err |-> FALSE]

Queued == {transfer_list[i] : i \in DOMAIN transfer_list}

(* What the driver still uses: the linked transfers and the serviced one.   *)
InUse == Queued \cup ({serviced} \ {NoXfer})

(* One of them has been freed: what any later step would do is undefined,   *)
(* and the model ends there.                                                *)
FreedInUse == \E x \in InUse : xstate[x] = "FREE"

Alive == ~bug /\ ~FreedInUse

-----------------------------------------------------------------------------
EngineInit ==
  /\ xstate = [x \in Xfer |-> "FREE"]
  /\ desc_num = [x \in Xfer |-> 0]
  /\ transfer_list = << >>
  /\ running = FALSE
  /\ desc_dequeued = 0
  /\ status = {}
  /\ locked = FALSE
  /\ serviced = NoXfer
  /\ bug = FALSE

HwInit ==
  /\ run = FALSE
  /\ active = FALSE
  /\ busy = FALSE
  /\ cur = NoXfer
  /\ count = 0
  /\ events = {}
  /\ wb = NoWriteback
  /\ moved = {}

CallerInit ==
  /\ pc = [c \in Caller |-> "idle"]
  /\ mine = [c \in Caller |-> NoXfer]
  /\ chunks = [c \in Caller |-> 0]
  /\ rc = [c \in Caller |-> FALSE]
  /\ result = [c \in Caller |-> "none"]

-----------------------------------------------------------------------------
(* The hardware channel.  It fetches the descriptors of cur in order.  The  *)
(* last one carries STOP | EOP | COMPLETED: there the channel goes idle and *)
(* reports, by status events in interrupt mode and by the write-back word   *)
(* in poll mode.                                                            *)

HwReport == IF PollMode THEN {} ELSE {"STOPPED", "COMPLETED"}

(* Older hardware may report before BUSY is clear. *)
BusyAtReport == IF "busy" \in Faults THEN BOOLEAN ELSE {FALSE}

HwDescriptor ==
  /\ active
  /\ count + 1 < desc_num[cur]
  /\ count' = count + 1
  /\ UNCHANGED <<run, active, busy, cur, events, wb, moved>>

HwLastDescriptor ==
  /\ active
  /\ count + 1 = desc_num[cur]
  /\ count' = count + 1
  /\ active' = FALSE
  /\ busy' \in BusyAtReport
  /\ events' = events \cup HwReport
  /\ wb' = IF PollMode THEN [count |-> count + 1, err |-> FALSE] ELSE wb
  /\ moved' = moved \cup {cur}
  /\ UNCHANGED <<run, cur>>

(* A read, descriptor, alignment or magic error stops the channel. *)
HwError ==
  /\ "error" \in Faults
  /\ active
  /\ active' = FALSE
  /\ busy' \in BusyAtReport
  /\ events' = events \cup {"ERROR"}
  /\ wb' = IF PollMode THEN [count |-> count, err |-> TRUE] ELSE wb
  /\ UNCHANGED <<run, cur, count, moved>>

(* BUSY clears late. *)
HwIdle ==
  /\ busy
  /\ ~active
  /\ busy' = FALSE
  /\ UNCHANGED <<run, active, cur, count, events, wb, moved>>

-----------------------------------------------------------------------------
(* engine_start(): the first descriptor of x is written to the channel and  *)
(* RUN is set, which clears the completed descriptor count.                 *)
EngineStart(x) ==
  /\ running' = TRUE
  /\ desc_dequeued' = 0
  /\ run' = TRUE
  /\ active' = TRUE
  /\ busy' = TRUE
  /\ cur' = x
  /\ count' = 0

(* Mutant: the channel is programmed although it is running. *)
TransferQueueStartsAlways(x) ==
  /\ ~locked
  /\ xstate' = [xstate EXCEPT ![x] = "SUBMITTED"]
  /\ transfer_list' = Append(transfer_list, x)
  /\ EngineStart(x)
  /\ UNCHANGED <<desc_num, status, locked, serviced, bug, events, wb, moved>>

(* Mutant: list_add() for list_add_tail(). *)
TransferQueueAtHead(x) ==
  /\ ~locked
  /\ xstate' = [xstate EXCEPT ![x] = "SUBMITTED"]
  /\ transfer_list' = <<x>> \o transfer_list
  /\ IF running
     THEN UNCHANGED <<running, desc_dequeued, run, active, busy, cur, count>>
     ELSE EngineStart(x)
  /\ UNCHANGED <<desc_num, status, locked, serviced, bug, events, wb, moved>>

(* transfer_queue(), whole under engine->lock. *)
TransferQueue(x) ==
  /\ ~locked
  /\ xstate' = [xstate EXCEPT ![x] = "SUBMITTED"]
  /\ transfer_list' = Append(transfer_list, x)
  /\ IF running
     THEN UNCHANGED <<running, desc_dequeued, run, active, busy, cur, count>>
     ELSE EngineStart(Head(transfer_list'))
  /\ UNCHANGED <<desc_num, status, locked, serviced, bug, events, wb, moved>>

(* Mutant: the status register is read where status_rc should be. *)
StatusReadKeeps ==
  /\ status' = events \cup (IF busy THEN {"BUSY"} ELSE {})
  /\ UNCHANGED events

(* engine_status_read(engine, 1): reading status_rc clears the events. *)
StatusReadClear ==
  /\ status' = events \cup (IF busy THEN {"BUSY"} ELSE {})
  /\ events' = {}

(* Mutant: only a STOPPED event shuts the engine down. *)
ShutdownWhenStopped(writeback) ==
  IF "STOPPED" \in status
  THEN running' = FALSE /\ run' = FALSE
  ELSE UNCHANGED <<running, run>>

(* engine_service_shutdown(), when the status is not busy or a completed    *)
(* descriptor count was written back: RUN is cleared.                       *)
EngineServiceShutdown(writeback) ==
  IF "BUSY" \notin status \/ writeback
  THEN running' = FALSE /\ run' = FALSE
  ELSE UNCHANGED <<running, run>>

(* Mutant: the engine is not restarted for the transfers still queued. *)
ResumeNothing ==
  /\ serviced' = NoXfer
  /\ UNCHANGED <<running, desc_dequeued, run, active, busy, cur, count>>

(* engine_service_resume(): an engine that was shut down is restarted on    *)
(* the first transfer of the queue.                                         *)
EngineServiceResume ==
  /\ serviced' = NoXfer
  /\ IF ~running /\ transfer_list # << >>
     THEN EngineStart(Head(transfer_list))
     ELSE UNCHANGED <<running, desc_dequeued, run, active, busy, cur, count>>

(* The u32 difference desc_count -= engine->desc_dequeued. *)
NotYetDequeued(desc_count) ==
  desc_count - desc_dequeued + (IF desc_count < desc_dequeued THEN CounterSize ELSE 0)

(* engine_service_transfer_list(): how many transfers from the head it      *)
(* takes off, those with fewer descriptors than are left of done.           *)
TakenOff(done) ==
  LET left[i \in 0..Len(transfer_list)] ==
        IF i = 0 THEN done ELSE left[i - 1] - desc_num[transfer_list[i]]
  IN IF transfer_list = << >> \/ done <= desc_num[Head(transfer_list)]
     THEN 0
     ELSE Cardinality({i \in DOMAIN transfer_list : left[i - 1] > desc_num[transfer_list[i]]})

(* The descriptors of the first n transfers. *)
DescriptorsOf(n) ==
  IF n = 0 THEN 0 ELSE SumFunction([i \in 1..n |-> desc_num[transfer_list[i]]])

(* transfer->state of the ones taken off and of the final one. *)
MarkTransfers(n, final, state) ==
  xstate' = [x \in Xfer |-> IF x = final THEN state
                            ELSE IF \E i \in 1..n : transfer_list[i] = x THEN "COMPLETED"
                            ELSE xstate[x]]

(* engine_err_handle(): the transfer is marked as failed and RUN is         *)
(* cleared; the transfer stays on the queue and nobody is woken.            *)
ServiceError(n, final) ==
  /\ "ERROR" \in status
  /\ MarkTransfers(n, final, "FAILED")
  /\ run' = FALSE
  /\ UNCHANGED serviced

(* Mutant: a transfer that stopped half-way counts as completed. *)
ServiceFinalAlwaysCompletes(n, final, left) ==
  /\ "ERROR" \notin status
  /\ MarkTransfers(n, final, "COMPLETED")
  /\ serviced' = final
  /\ UNCHANGED run

(* The normal path of engine_service_final_transfer(): the state is stored  *)
(* first, completed when at least desc_num descriptors were done and failed *)
(* otherwise.  From here on the caller, which tests the state without the   *)
(* lock, may free the transfer.                                             *)
ServiceFinal(n, final, left) ==
  /\ "ERROR" \notin status
  /\ MarkTransfers(n, final, IF left < desc_num[final] THEN "FAILED" ELSE "COMPLETED")
  /\ serviced' = final
  /\ UNCHANGED run

(* BUG_ON(!transfer): the engine was serviced with no transfer left. *)
ServiceNothing ==
  /\ bug' = TRUE
  /\ UNCHANGED <<xstate, transfer_list, desc_dequeued, serviced, run>>

(* engine_service() after the shutdown, with done the completed descriptor  *)
(* count of this run that was not accounted to a transfer yet, up to the    *)
(* state of the final transfer.  The iterations of the loop before it are   *)
(* one step: in interrupt mode there are none (OneTransferPerRun).          *)
EngineService(done) ==
  LET n    == TakenOff(done)
      list == SubSeq(transfer_list, n + 1, Len(transfer_list))
  IN IF n = Len(transfer_list)
     THEN ServiceNothing
     ELSE /\ transfer_list' = list
          /\ desc_dequeued' = desc_dequeued + DescriptorsOf(n)
          /\ ServiceError(n, Head(list)) \/ ServiceFinal(n, Head(list), done - DescriptorsOf(n))
          /\ UNCHANGED bug

(* What engine_service() does next: a failed transfer is not taken off.     *)
AfterMark == IF serviced' = NoXfer THEN "resume" ELSE "unlink"

(* Mutant: the list_del() of the finished transfer is missing. *)
UnlinkNothing ==
  /\ desc_dequeued' = desc_dequeued + desc_num[serviced]
  /\ UNCHANGED transfer_list

(* list_del() of the first transfer, whose descriptors are accounted. *)
ServiceUnlink ==
  /\ transfer_list' = Tail(transfer_list)
  /\ desc_dequeued' = desc_dequeued + desc_num[serviced]

-----------------------------------------------------------------------------
(* The request loop of transfer_data(). *)

(* read() or write() of n times XDMA_TRANSFER_MAX_BYTES at most. *)
Request(c) ==
  /\ pc[c] = "idle"
  /\ \E n \in 1..MaxChunks : chunks' = [chunks EXCEPT ![c] = n]
  /\ pc' = [pc EXCEPT ![c] = "create"]
  /\ result' = [result EXCEPT ![c] = "none"]
  /\ UNCHANGED <<xferVars, engineVars, hwVars, mine, rc>>

(* transfer_create(): a zeroed object, its descriptors built by             *)
(* transfer_build().                                                        *)
TransferCreate(c) ==
  /\ pc[c] = "create"
  /\ \E x \in Xfer, d \in 1..MaxDesc :
       /\ xstate[x] = "FREE"
       /\ xstate' = [xstate EXCEPT ![x] = "NEW"]
       /\ desc_num' = [desc_num EXCEPT ![x] = d]
       /\ moved' = moved \ {x}
       /\ mine' = [mine EXCEPT ![c] = x]
  /\ pc' = [pc EXCEPT ![c] = "queue"]
  /\ UNCHANGED <<engineVars, run, active, busy, cur, count, events, wb, chunks, rc, result>>

(* kzalloc() failed: the request ends with -EIO. *)
TransferCreateFails(c) ==
  /\ pc[c] = "create"
  /\ pc' = [pc EXCEPT ![c] = "idle"]
  /\ result' = [result EXCEPT ![c] = "EIO"]
  /\ UNCHANGED <<xferVars, engineVars, hwVars, mine, chunks, rc>>

Submit(c) ==
  /\ pc[c] = "queue"
  /\ TransferQueue(mine[c])
  /\ pc' = [pc EXCEPT ![c] = "wait"]
  /\ UNCHANGED <<mine, chunks, rc, result>>

(* Mutant: the loop runs once more when nothing remains. *)
AfterMonitorOnceMore(c, ended) ==
  LET x    == mine[c]
      over == xstate[x] # "SUBMITTED"
      res  == IF over /\ xstate[x] # "COMPLETED" THEN "EIO" ELSE "OK"
      next == IF ~over /\ rc[c] THEN "reread"
              ELSE IF res = "OK" /\ chunks[c] >= 0 THEN "create" ELSE "idle"
  IN /\ pc[c] = ended
     /\ xstate' = IF over THEN [xstate EXCEPT ![x] = "FREE"] ELSE xstate
     /\ mine' = [mine EXCEPT ![c] = NoXfer]
     /\ chunks' = [chunks EXCEPT ![c] = IF next = "create" THEN @ - 1 ELSE 0]
     /\ pc' = [pc EXCEPT ![c] = next]
     /\ result' = [result EXCEPT ![c] = IF next = "idle" THEN res ELSE @]
     /\ rc' = [rc EXCEPT ![c] = FALSE]
     /\ UNCHANGED <<desc_num, engineVars, hwVars>>

(* After transfer_monitor(): a transfer that is no longer submitted is      *)
(* freed, and unless it failed the loop goes on with the next chunk; one    *)
(* that is still submitted is left on the engine.                           *)
AfterMonitor(c, ended) ==
  LET x    == mine[c]
      over == xstate[x] # "SUBMITTED"
      res  == IF over /\ xstate[x] # "COMPLETED" THEN "EIO" ELSE "OK"
      next == IF ~over /\ rc[c] THEN "reread"
              ELSE IF res = "OK" /\ chunks[c] > 1 THEN "create" ELSE "idle"
  IN /\ pc[c] = ended
     /\ xstate' = IF over THEN [xstate EXCEPT ![x] = "FREE"] ELSE xstate
     /\ mine' = [mine EXCEPT ![c] = NoXfer]
     /\ chunks' = [chunks EXCEPT ![c] = IF next = "create" THEN @ - 1 ELSE 0]
     /\ pc' = [pc EXCEPT ![c] = next]
     /\ result' = [result EXCEPT ![c] = IF next = "idle" THEN res ELSE @]
     /\ rc' = [rc EXCEPT ![c] = FALSE]
     /\ UNCHANGED <<desc_num, engineVars, hwVars>>

(* The wait was interrupted, or polling saw an error: the status register   *)
(* is read into engine->status, without the lock, and the request ends.     *)
StatusReread(c) ==
  /\ pc[c] = "reread"
  /\ status' = events \cup (IF busy THEN {"BUSY"} ELSE {})
  /\ pc' = [pc EXCEPT ![c] = "idle"]
  /\ result' = [result EXCEPT ![c] = "ERESTARTSYS"]
  /\ UNCHANGED <<xferVars, transfer_list, running, desc_dequeued, locked, serviced, bug,
                 hwVars, mine, chunks, rc>>

-----------------------------------------------------------------------------
XferState == {"FREE", "NEW", "SUBMITTED", "COMPLETED", "FAILED"}
Event     == {"STOPPED", "COMPLETED", "IDLE_STOPPED", "ERROR"}

EngineTypeOK ==
  /\ xstate \in [Xfer -> XferState]
  /\ desc_num \in [Xfer -> 0..MaxDesc]
  /\ transfer_list \in Seq(Xfer)
  /\ running \in BOOLEAN
  /\ desc_dequeued \in Nat
  /\ status \subseteq Event \cup {"BUSY"}
  /\ locked \in BOOLEAN
  /\ serviced \in Xfer \cup {NoXfer}
  /\ bug \in BOOLEAN

HwTypeOK ==
  /\ run \in BOOLEAN
  /\ active \in BOOLEAN
  /\ busy \in BOOLEAN
  /\ cur \in Xfer \cup {NoXfer}
  /\ count \in 0..MaxDesc
  /\ events \subseteq Event
  /\ wb \in [count : 0..MaxDesc, err : BOOLEAN]
  /\ moved \subseteq Xfer

(* sleep is of interrupt mode, lock to resume are of poll mode. *)
Where == {"idle", "create", "queue", "wait", "sleep", "lock", "service", "inspect",
          "unlink", "resume", "ended", "reread"}

CallerTypeOK ==
  /\ pc \in [Caller -> Where]
  /\ mine \in [Caller -> Xfer \cup {NoXfer}]
  /\ chunks \in [Caller -> 0..MaxChunks]
  /\ rc \in [Caller -> BOOLEAN]
  /\ result \in [Caller -> {"none", "OK", "EIO", "ERESTARTSYS"}]

-----------------------------------------------------------------------------
(* What both modes are checked for. *)

(* BUG_ON(!transfer) of engine_service_transfer_list() and                  *)
(* engine_service_final_transfer(): no interleaving of handlers, work,      *)
(* signals and faulty hardware services a running engine with an empty      *)
(* queue.                                                                   *)
NoBug == ~bug

(* A transfer is reported as completed only when the hardware moved all of  *)
(* its data, whatever faults the hardware and the callers show.             *)
CompletedWasMoved == \A x \in Xfer : xstate[x] = "COMPLETED" => x \in moved

(* While the channel executes descriptors they are those of the first       *)
(* queued transfer, which its caller has not been told anything about.      *)
ChannelRunsHead ==
  active => /\ running
            /\ transfer_list # << >>
            /\ cur = Head(transfer_list)
            /\ xstate[cur] = "SUBMITTED"

(* transfer_data() frees a transfer that is no longer submitted because it  *)
(* "was taken off the engine": such a transfer is not on the queue, but for *)
(* the one that is being serviced.                                          *)
TakenOffEngine == \A x \in Queued \ {serviced} : xstate[x] \notin {"COMPLETED", "FAILED"}

(* transfer_destroy() never frees a transfer the driver still uses.         *)
NoUseAfterFree == ~FreedInUse

(* The window of such a free is no wider than the last steps of the         *)
(* service, under the lock, from the store of the state to the wake-up: no  *)
(* signal, restart or second caller makes transfer_destroy() free a         *)
(* transfer that waits on the queue or is executed.                         *)
FreedInServiceOnly == \A x \in InUse : xstate[x] = "FREE" => x = serviced /\ locked

(* Every transfer a caller starts to submit is eventually over for it, by   *)
(* completion or by a signal: no caller waits for ever on a healthy engine. *)
RequestReturns ==
  \A c \in Caller : pc[c] = "queue" ~> FreedInUse \/ pc[c] \in {"create", "idle"}

(* The driver keeps the promise of DmaService: the queue entry that was     *)
(* moved but not yet serviced no longer counts as pending.                  *)
HeadMoved == transfer_list # << >> /\ Head(transfer_list) \in moved
PendingTransfers == IF HeadMoved THEN Tail(transfer_list) ELSE transfer_list
MovedTransfers == {x \in moved : xstate[x] \in {"SUBMITTED", "COMPLETED"}}

Service == INSTANCE DmaService WITH pending <- PendingTransfers, done <- MovedTransfers

(* In-order, exactly-once and eventual service, and no caller gets its      *)
(* transfer back before the data moved; it goes on as long as no transfer   *)
(* is freed that is in use.                                                 *)
ServesInOrder == Service!Safety /\ ([]Alive => Service!Progress)
=============================================================================
