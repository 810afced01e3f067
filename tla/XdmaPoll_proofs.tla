--------------------------- MODULE XdmaPoll_proofs ---------------------------
(***************************************************************************)
(* Proofs about XdmaPoll, for any set of callers and transfers and any     *)
(* number of descriptors, chunks, errors and timeouts: what holds of every *)
(* engine, what holds of one that gets one request at a time, and that     *)
(* such an engine on healthy hardware does what DmaService promises.       *)
(***************************************************************************)
EXTENDS XdmaPoll, QueueLemmas, TLAPS

Served == {"queue", "wait", "lock", "service", "inspect", "unlink", "resume", "ended"}

PollTypes ==
  /\ xstate \in [Xfer -> XferState] /\ desc_num \in [Xfer -> 0..MaxDesc]
  /\ running \in BOOLEAN /\ locked \in BOOLEAN /\ bug \in BOOLEAN
  /\ count \in Nat /\ wb \in [count : Nat, err : BOOLEAN]
  /\ pc \in [Caller -> Where \ {"sleep"}] /\ mine \in [Caller -> Xfer \cup {NoXfer}]
  /\ seen \in [Caller -> [count : Nat, err : BOOLEAN]] /\ timeouts \in Nat
  /\ \A c \in Caller : pc[c] \in Served => mine[c] \in Xfer

(* One caller at most is between PollBegin and PollResume, with the lock.   *)
Inside == {"service", "inspect", "unlink", "resume"}
LockInv ==
  /\ \A c \in Caller : pc[c] \in Inside => locked
  /\ \A c, d \in Caller : pc[c] \in Inside /\ pc[d] \in Inside => c = d

StopInv == ~bug /\ ~locked /\ transfer_list # << >> => running

-----------------------------------------------------------------------------
(* One request at a time.                                                   *)
OneAtATime == \A c, d \in Caller : pc[c] # "idle" /\ pc[d] # "idle" => c = d

AtRest ==
  /\ transfer_list = << >> /\ serviced = NoXfer
  /\ ~running /\ ~active /\ ~locked /\ wb = NoWriteback

(* The engine has the caller's transfer and nothing else, from its first    *)
(* descriptor on.                                                           *)
HasRun(c) ==
  /\ transfer_list = <<mine[c]>> /\ cur = mine[c] /\ serviced = NoXfer
  /\ xstate[mine[c]] = "SUBMITTED" /\ desc_num[mine[c]] > 0 /\ desc_dequeued = 0

(* word tells truly what became of the caller's transfer.                   *)
Reported(c, word) ==
  /\ ~active /\ word.count = count
  /\ IF word.err THEN count < desc_num[mine[c]]
     ELSE count = desc_num[mine[c]] /\ mine[c] \in moved

Begins(c) ==
  pc[c] = "queue" => xstate[mine[c]] = "NEW" /\ desc_num[mine[c]] > 0 /\ mine[c] \notin moved
Waits(c) ==
  pc[c] = "wait" =>
    /\ HasRun(c) /\ running /\ ~locked
    /\ IF active THEN run /\ wb = NoWriteback /\ count < desc_num[mine[c]] /\ mine[c] \notin moved
       ELSE Reported(c, wb) /\ (wb.err => "ERROR" \in events)
Locks(c) ==
  pc[c] = "lock" =>
    HasRun(c) /\ running /\ ~locked /\ Reported(c, seen[c]) /\ (seen[c].err => "ERROR" \in events)
Services(c) ==
  pc[c] \in {"service", "inspect"} =>
    /\ HasRun(c) /\ locked /\ Reported(c, seen[c])
    /\ seen[c].err => "ERROR" \in status
    /\ pc[c] = "service" => running
    /\ pc[c] = "inspect" /\ ~seen[c].err => ~running

(* From the store of the state on nothing executes.  A completed transfer is *)
(* taken off, one that failed stays.                                        *)
Unlinks(c) ==
  pc[c] = "unlink" =>
    /\ locked /\ ~active /\ ~running
    /\ transfer_list = <<mine[c]>> /\ xstate[mine[c]] = "COMPLETED"
Resumes(c) ==
  pc[c] = "resume" =>
    /\ locked /\ ~active
    /\ \/ transfer_list = << >> /\ ~running /\ xstate[mine[c]] = "COMPLETED"
       \/ transfer_list = <<mine[c]>> /\ xstate[mine[c]] = "FAILED"

(* It is over, or it failed and is about to be freed on the queue.          *)
Ends(c) ==
  pc[c] = "ended" =>
    \/ AtRest /\ xstate[mine[c]] = "COMPLETED"
    \/ transfer_list = <<mine[c]>> /\ xstate[mine[c]] = "FAILED"

OwnInv ==
  /\ OneAtATime
  /\ (\A c \in Caller : pc[c] \in {"idle", "create", "queue"}) => AtRest
  /\ \A c \in Caller : pc[c] # "reread"
  /\ \A c \in Caller : /\ Begins(c) /\ Waits(c) /\ Locks(c) /\ Services(c)
                       /\ Unlinks(c) /\ Resumes(c) /\ Ends(c)

ExclusiveInv ==
  exclusive /\ timeouts = 0 => NoBug /\ CompletedWasMoved /\ (Alive => OwnInv)

(* No error is reported on healthy hardware, and one request at a time on   *)
(* it does not fail.                                                        *)
HealthyInv ==
  healthy => /\ timeouts = 0
             /\ "ERROR" \notin events \cup status
             /\ ~wb.err /\ \A c \in Caller : ~seen[c].err
             /\ exclusive => \A x \in Xfer : xstate[x] # "FAILED"

-----------------------------------------------------------------------------
(* What the marking of the transfers leaves of the types.                   *)
LEMMA MarkTypes ==
  ASSUME PollTypes, NEW done, EngineService(done)
  PROVE  xstate' \in [Xfer -> XferState] /\ bug' \in BOOLEAN
<1>1. CASE ServiceNothing
  BY <1>1 DEF ServiceNothing, PollTypes
<1>2. ASSUME NEW n, NEW f, NEW s \in {"COMPLETED", "FAILED"}, MarkTransfers(n, f, s), UNCHANGED bug
      PROVE  xstate' \in [Xfer -> XferState] /\ bug' \in BOOLEAN
  BY <1>2 DEF MarkTransfers, PollTypes, XferState
<1>3. ASSUME NEW n, NEW f, ServiceError(n, f), UNCHANGED bug
      PROVE  xstate' \in [Xfer -> XferState] /\ bug' \in BOOLEAN
  BY <1>2, <1>3 DEF ServiceError
<1>4. ASSUME NEW n, NEW f, NEW left, ServiceFinal(n, f, left), UNCHANGED bug
      PROVE  xstate' \in [Xfer -> XferState] /\ bug' \in BOOLEAN
  <2> DEFINE s == IF left < desc_num[f] THEN "FAILED" ELSE "COMPLETED"
  <2>1. s \in {"COMPLETED", "FAILED"} /\ MarkTransfers(n, f, s)
    BY <1>4 DEF ServiceFinal
  <2> HIDE DEF s
  <2> QED
    BY <1>2, <1>4, <2>1
<1> QED
  BY <1>1, <1>3, <1>4 DEF EngineService

(* Whoever services the engine restarts it for what is left on the queue.   *)
LEMMA ResumeLeaves ==
  ASSUME PollTypes, EngineServiceResume, UNCHANGED transfer_list
  PROVE  running' \in BOOLEAN /\ count' \in Nat /\ (running' \/ transfer_list' = << >>)
<1>1. CASE ~running /\ transfer_list # << >>
  BY <1>1 DEF EngineServiceResume, EngineStart
<1>2. CASE running \/ transfer_list = << >>
  BY <1>2 DEF EngineServiceResume, PollTypes
<1> QED
  BY <1>1, <1>2

LEMMA PollTypesInit == Init => PollTypes /\ LockInv /\ StopInv
<1> SUFFICES ASSUME Init PROVE PollTypes /\ LockInv /\ StopInv
  OBVIOUS
<1> USE DEF Init, EngineInit, HwInit, CallerInit, NoWriteback
<1>1. 0 \in 0..MaxDesc
  BY EngineConstants DEF EngineConstants
<1>2. PollTypes
  BY <1>1 DEF PollTypes, XferState, Where, Served
<1>3. LockInv /\ StopInv
  BY DEF LockInv, Inside, StopInv
<1> QED
  BY <1>2, <1>3

LEMMA PollTypesNext == ASSUME PollTypes, Next PROVE PollTypes'
<1> USE DEF xferVars, engineVars, hwVars, callerVars, pollVars
<1>1. ASSUME NEW c \in Caller, CallerRequest(c) \/ CallerCreate(c)
      PROVE  PollTypes'
  <2>1. CASE CallerRequest(c)
    BY <2>1 DEF CallerRequest, Request, PollTypes, Where, Served
  <2>2. CASE CallerCreate(c) /\ TransferCreateFails(c)
    BY <2>2 DEF CallerCreate, TransferCreateFails, PollTypes, Where, Served
  <2>3. CASE CallerCreate(c) /\ TransferCreate(c)
    <3>1. PICK x \in Xfer, d \in 1..MaxDesc :
               /\ xstate' = [xstate EXCEPT ![x] = "NEW"]
               /\ desc_num' = [desc_num EXCEPT ![x] = d]
               /\ mine' = [mine EXCEPT ![c] = x]
      BY <2>3 DEF TransferCreate
    <3>2. d \in 0..MaxDesc
      BY EngineConstants DEF EngineConstants
    <3> QED
      BY <2>3, <3>1, <3>2 DEF CallerCreate, TransferCreate, PollTypes, XferState, Where, Served
  <2> QED
    BY <1>1, <2>1, <2>2, <2>3 DEF CallerCreate
<1>2. ASSUME NEW c \in Caller, CallerSubmit(c)
      PROVE  PollTypes'
  <2>1. running' \in BOOLEAN /\ count' \in Nat
    <3>1. CASE running
      BY <1>2, <3>1 DEF CallerSubmit, Submit, TransferQueue, PollTypes
    <3>2. CASE ~running
      BY <1>2, <3>2 DEF CallerSubmit, Submit, TransferQueue, EngineStart
    <3> QED
      BY <3>1, <3>2
  <2> QED
    BY <1>2, <2>1 DEF CallerSubmit, Submit, TransferQueue, PollTypes, XferState, Where, Served
<1>3. ASSUME NEW c \in Caller, WbMonitor(c)
      PROVE  PollTypes'
  BY <1>3 DEF WbMonitor, PollTypes, Where, Served
<1>4. ASSUME NEW c \in Caller, WbTimeout(c)
      PROVE  PollTypes'
  <2>1. Expected(c) \in Nat
    BY <1>4, EngineConstants DEF WbTimeout, Expected, PollTypes, Served, EngineConstants
  <2>2. seen' \in [Caller -> [count : Nat, err : BOOLEAN]]
    BY <1>4, <2>1 DEF WbTimeout, PollTypes
  <2> QED
    BY <1>4, <2>2 DEF WbTimeout, PollTypes, Where, Served
<1>5. ASSUME NEW c \in Caller, PollBegin(c) \/ PollStopped(c)
      PROVE  PollTypes'
  BY <1>5 DEF PollBegin, PollStopped, PollTypes, Where, Served
<1>6. ASSUME NEW c \in Caller, PollShutdown(c)
      PROVE  PollTypes'
  <2>1. running' \in BOOLEAN
    BY <1>6 DEF PollShutdown, EngineServiceShutdown, PollTypes
  <2> QED
    BY <1>6, <2>1 DEF PollShutdown, PollTypes, Where, Served
<1>7. ASSUME NEW c \in Caller, PollMark(c) \/ PollUnlink(c) \/ PollResume(c)
      PROVE  PollTypes'
  <2>1. CASE PollMark(c)
    <3>1. xstate' \in [Xfer -> XferState] /\ bug' \in BOOLEAN
      BY <2>1, MarkTypes DEF PollMark
    <3>2. AfterMark \in {"unlink", "resume"}
      BY DEF AfterMark
    <3> QED
      BY <2>1, <3>1, <3>2 DEF PollMark, PollTypes, Where, Served
  <2>2. CASE PollUnlink(c)
    BY <2>2 DEF PollUnlink, PollTypes, Where, Served
  <2>3. CASE PollResume(c)
    <3>1. running' \in BOOLEAN /\ count' \in Nat
      BY <2>3, ResumeLeaves DEF PollResume
    <3> QED
      BY <2>3, <3>1 DEF PollResume, PollTypes, NoWriteback, Where, Served
  <2> QED
    BY <1>7, <2>1, <2>2, <2>3
<1>8. ASSUME NEW c \in Caller, CallerEnds(c)
      PROVE  PollTypes'
  <2>1. CASE StatusReread(c)
    BY <1>8, <2>1 DEF CallerEnds, StatusReread, PollTypes, Where, Served
  <2>2. CASE AfterMonitor(c, "ended")
    <3>1. /\ xstate' = [xstate EXCEPT ![mine[c]] = "FREE"] \/ xstate' = xstate
          /\ mine' = [mine EXCEPT ![c] = NoXfer]
          /\ \E w \in {"create", "idle", "reread"} : pc' = [pc EXCEPT ![c] = w]
      BY <2>2 DEF AfterMonitor
    <3> QED
      BY <1>8, <2>2, <3>1 DEF CallerEnds, AfterMonitor, PollTypes, XferState, Where, Served
  <2> QED
    BY <1>8, <2>1, <2>2 DEF CallerEnds
<1>9. ASSUME HardwareProgress \/ HardwareHalts \/ HardwareFault
      PROVE  PollTypes'
  <2>1. count' \in Nat /\ wb' \in [count : Nat, err : BOOLEAN]
    <3>1. CASE HardwareProgress /\ HwDescriptor
      BY <3>1 DEF HwDescriptor, PollTypes
    <3>2. CASE HardwareProgress /\ HwLastDescriptor
      <4>1. count' = count + 1 /\ (wb' = wb \/ wb' = [count |-> count + 1, err |-> FALSE])
        BY <3>2 DEF HwLastDescriptor
      <4>2. count + 1 \in Nat /\ [count |-> count + 1, err |-> FALSE] \in [count : Nat, err : BOOLEAN]
        BY DEF PollTypes
      <4>3. wb \in [count : Nat, err : BOOLEAN]
        BY DEF PollTypes
      <4> QED
        BY <4>1, <4>2, <4>3
    <3>3. CASE HardwareHalts
      BY <3>3 DEF HardwareHalts, PollTypes
    <3>4. CASE HardwareFault
      <4>1. count' = count /\ (wb' = wb \/ wb' = [count |-> count, err |-> TRUE])
        BY <3>4 DEF HardwareFault, HwError
      <4>2. count \in Nat /\ [count |-> count, err |-> TRUE] \in [count : Nat, err : BOOLEAN]
        BY DEF PollTypes
      <4>3. wb \in [count : Nat, err : BOOLEAN]
        BY DEF PollTypes
      <4> QED
        BY <4>1, <4>2, <4>3
    <3> QED
      BY <1>9, <3>1, <3>2, <3>3, <3>4 DEF HardwareProgress
  <2> QED
    BY <1>9, <2>1 DEF HardwareProgress, HwDescriptor, HwLastDescriptor, HardwareHalts, HardwareFault, HwError, PollTypes
<1> QED
  BY <1>1, <1>2, <1>3, <1>4, <1>5, <1>6, <1>7, <1>8, <1>9 DEF Next, CallerStep, CallerPolls, CallerLocks

LEMMA StopInvNext == ASSUME PollTypes, LockInv, StopInv, Next PROVE LockInv' /\ StopInv'
<1> USE DEF xferVars, engineVars, hwVars, callerVars, pollVars
<1>1. ASSUME NEW c \in Caller, pc[c] \notin Inside, NEW w \in Where \ Inside,
             pc' = [pc EXCEPT ![c] = w], UNCHANGED <<transfer_list, running, locked, bug>>
      PROVE  LockInv' /\ StopInv'
  BY <1>1 DEF LockInv, StopInv, PollTypes
<1>2. ASSUME NEW c \in Caller, CallerRequest(c) \/ CallerCreate(c) \/ WbMonitor(c) \/ WbTimeout(c)
                               \/ PollStopped(c) \/ CallerEnds(c)
      PROVE  LockInv' /\ StopInv'
  <2>1. \E w \in Where \ Inside : pc' = [pc EXCEPT ![c] = w]
    BY <1>2 DEF CallerRequest, Request, CallerCreate, TransferCreate, TransferCreateFails, WbMonitor,
       WbTimeout, PollStopped, CallerEnds, AfterMonitor, StatusReread, Where, Inside
  <2>2. pc[c] \notin Inside /\ UNCHANGED <<transfer_list, running, locked, bug>>
    BY <1>2 DEF CallerRequest, Request, CallerCreate, TransferCreate, TransferCreateFails, WbMonitor,
       WbTimeout, PollStopped, CallerEnds, AfterMonitor, StatusReread, Inside
  <2> QED
    BY <1>1, <2>1, <2>2
<1>3. ASSUME NEW c \in Caller, CallerSubmit(c)
      PROVE  LockInv' /\ StopInv'
  <2>1. running' /\ ~locked /\ UNCHANGED locked /\ pc' = [pc EXCEPT ![c] = "wait"]
    BY <1>3 DEF CallerSubmit, Submit, TransferQueue, EngineStart
  <2> QED
    BY <2>1 DEF LockInv, StopInv, Inside, PollTypes
<1>4. ASSUME NEW c \in Caller, PollBegin(c)
      PROVE  LockInv' /\ StopInv'
  BY <1>4 DEF PollBegin, LockInv, StopInv, Inside, PollTypes
<1>5. ASSUME NEW c \in Caller, PollShutdown(c)
      PROVE  LockInv' /\ StopInv'
  BY <1>5 DEF PollShutdown, LockInv, StopInv, Inside, PollTypes
<1>6. ASSUME NEW c \in Caller, PollMark(c) \/ PollUnlink(c)
      PROVE  LockInv' /\ StopInv'
  <2>1. AfterMark \in {"unlink", "resume"}
    BY DEF AfterMark
  <2>2. /\ pc[c] \in Inside /\ locked' = locked
        /\ \E w \in {"unlink", "resume"} : pc' = [pc EXCEPT ![c] = w]
    BY <1>6, <2>1 DEF PollMark, PollUnlink, Inside
  <2> QED
    BY <2>2 DEF LockInv, StopInv, Inside, PollTypes
<1>8. ASSUME NEW c \in Caller, PollResume(c)
      PROVE  LockInv' /\ StopInv'
  <2>1. running' \/ transfer_list' = << >>
    BY <1>8, ResumeLeaves DEF PollResume
  <2> QED
    BY <1>8, <2>1 DEF PollResume, LockInv, StopInv, Inside, PollTypes
<1>7. ASSUME HardwareProgress \/ HardwareHalts \/ HardwareFault
      PROVE  LockInv' /\ StopInv'
  BY <1>7 DEF HardwareProgress, HardwareHalts, HardwareFault, LockInv, StopInv
<1> QED
  BY <1>2, <1>3, <1>4, <1>5, <1>6, <1>7, <1>8 DEF Next, CallerStep, CallerPolls, CallerLocks

LEMMA EngineInvHolds == Spec => [](PollTypes /\ LockInv /\ StopInv)
<1>1. PollTypes /\ LockInv /\ StopInv /\ [Next]_vars => (PollTypes /\ LockInv /\ StopInv)'
  <2>1. ASSUME PollTypes, LockInv, StopInv, UNCHANGED vars PROVE PollTypes' /\ LockInv' /\ StopInv'
    <3> USE <2>1 DEF vars, xferVars, engineVars, hwVars, callerVars, pollVars
    <3>1. PollTypes'
      BY DEF PollTypes
    <3>2. LockInv' /\ StopInv'
      BY DEF LockInv, StopInv
    <3> QED
      BY <3>1, <3>2
  <2> QED
    BY <2>1, PollTypesNext, StopInvNext
<1> QED
  BY <1>1, PollTypesInit, PTL DEF Spec

(* No transfer stays behind on an engine that was shut down                 *)
(* (StoppedIsEmpty), however many callers poll it, whoever services it for  *)
(* whichever transfer, and with any errors and timeouts.                    *)
THEOREM StoppedIsAlwaysEmpty == Spec => []StoppedIsEmpty
<1>1. StopInv => StoppedIsEmpty
  BY DEF StopInv, StoppedIsEmpty, Alive
<1> QED
  BY <1>1, EngineInvHolds, PTL

-----------------------------------------------------------------------------
(* One transfer on the queue.                                               *)
LEMMA OneOnQueue ==
  ASSUME NEW S, NEW x \in S
  PROVE  /\ Append(<< >>, x) = <<x>> /\ <<x>> # << >> /\ Len(<<x>>) = 1
         /\ Head(<<x>>) = x /\ Tail(<<x>>) = << >>
         /\ SubSeq(<<x>>, 0 + 1, Len(<<x>>)) = <<x>>
         /\ \A i \in DOMAIN <<x>> : <<x>>[i] = x
         /\ 1 \in DOMAIN <<x>> /\ <<x>>[1] = x
<1>1. <<x>> \in Seq(S) /\ Len(<<x>>) = 1 /\ 0 + 1 = 1
  OBVIOUS
<1>2. SubSeq(<<x>>, 1, Len(<<x>>)) = <<x>>
  BY <1>1, SubSeqFull
<1> QED
  BY <1>1, <1>2

(* What a caller's service makes of its own transfer, which alone is queued. *)
OwnFailed(c) ==
  /\ "ERROR" \in status
  /\ xstate' = [xstate EXCEPT ![mine[c]] = "FAILED"]
  /\ pc' = [pc EXCEPT ![c] = "resume"]

OwnDone(c) ==
  /\ "ERROR" \notin status
  /\ xstate' = [xstate EXCEPT ![mine[c]] = IF count < desc_num[mine[c]] THEN "FAILED" ELSE "COMPLETED"]
  /\ pc' = [pc EXCEPT ![c] = "unlink"]

LEMMA OwnService ==
  ASSUME PollTypes, ~bug, NEW c \in Caller, PollMark(c), HasRun(c), Reported(c, seen[c])
  PROVE  ~bug' /\ UNCHANGED transfer_list /\ (OwnFailed(c) \/ OwnDone(c))
<1>0. PICK x \in Xfer : x = mine[c]
  BY DEF PollTypes, PollMark, Served
<1>1. /\ transfer_list = <<x>> /\ serviced = NoXfer /\ desc_num[x] \in Nat /\ desc_dequeued = 0
      /\ count \in Nat /\ count <= desc_num[x] /\ seen[c].count = count
  BY <1>0, EngineConstants DEF HasRun, Reported, PollTypes, EngineConstants
<1>2. EngineService(count)
  <2>1. (IF seen[c].count # 0 THEN seen[c].count ELSE count) = count
    BY <1>1
  <2>2. NotYetDequeued(count) = count
    BY <1>1 DEF NotYetDequeued
  <2> QED
    BY <2>1, <2>2 DEF PollMark
<1>3. TakenOff(count) = 0
  BY <1>1, OneOnQueue DEF TakenOff
<1>4. /\ ~bug' /\ transfer_list' = transfer_list
      /\ ServiceError(0, x) \/ ServiceFinal(0, x, count)
  <2>1. /\ Len(transfer_list) = 1 /\ SubSeq(transfer_list, 0 + 1, Len(transfer_list)) = transfer_list
        /\ Head(transfer_list) = x /\ count - DescriptorsOf(0) = count
    BY <1>1, OneOnQueue DEF DescriptorsOf
  <2>2. /\ transfer_list' = SubSeq(transfer_list, 0 + 1, Len(transfer_list)) /\ UNCHANGED bug
        /\ \/ ServiceError(0, Head(SubSeq(transfer_list, 0 + 1, Len(transfer_list))))
           \/ ServiceFinal(0, Head(SubSeq(transfer_list, 0 + 1, Len(transfer_list))),
                           count - DescriptorsOf(0))
    BY <1>2, <1>3, <2>1 DEF EngineService
  <2> QED
    BY <2>1, <2>2
<1>5. ASSUME NEW state, MarkTransfers(0, x, state)
      PROVE  xstate' = [xstate EXCEPT ![x] = state]
  <2>1. 1..0 = {}
    OBVIOUS
  <2>2. \A y : ~ \E i \in 1..0 : transfer_list[i] = y
    BY <2>1
  <2>3. xstate' = [y \in Xfer |-> IF y = x THEN state ELSE xstate[y]]
    BY <1>5, <2>2 DEF MarkTransfers
  <2>4. xstate = [y \in Xfer |-> xstate[y]]
    BY DEF PollTypes
  <2> QED
    BY <2>3, <2>4
<1>6. x # NoXfer /\ pc' = [pc EXCEPT ![c] = AfterMark]
  BY EngineConstants DEF EngineConstants, PollMark
<1>7. CASE ServiceError(0, x)
  <2>1. serviced' = NoXfer
    BY <1>1, <1>7 DEF ServiceError
  <2> QED
    BY <1>0, <1>4, <1>5, <1>6, <1>7, <2>1 DEF ServiceError, OwnFailed, AfterMark
<1>8. CASE ServiceFinal(0, x, count)
  <2>1. serviced' = x
    BY <1>8 DEF ServiceFinal
  <2> QED
    BY <1>0, <1>4, <1>5, <1>6, <1>8, <2>1 DEF ServiceFinal, OwnDone, AfterMark
<1> QED
  BY <1>4, <1>7, <1>8

-----------------------------------------------------------------------------
(* The steps of the only request.  d is any caller after the step.          *)
Phase(c) == /\ Begins(c) /\ Waits(c) /\ Locks(c) /\ Services(c)
            /\ Unlinks(c) /\ Resumes(c) /\ Ends(c)
            /\ pc[c] # "reread"

(* Where the caller c that takes a step goes decides everything: the others *)
(* are idle.                                                                *)
LEMMA OthersIdle ==
  ASSUME PollTypes, OwnInv, NEW c \in Caller, pc[c] # "idle", NEW w, pc' = [pc EXCEPT ![c] = w],
         Phase(c)', w \in {"idle", "create", "queue"} => AtRest'
  PROVE  OwnInv'
<1>1. \A d \in Caller : d # c => pc[d] = "idle" /\ pc'[d] = "idle"
  BY DEF OwnInv, OneAtATime, PollTypes
<1>2. OneAtATime'
  BY <1>1 DEF OneAtATime
<1>3. \A d \in Caller : d # c => Phase(d)'
  BY <1>1 DEF Phase, Begins, Waits, Locks, Services, Unlinks, Resumes, Ends, Inside
<1>4. pc'[c] = w
  BY DEF PollTypes
<1>5. (\A d \in Caller : pc'[d] \in {"idle", "create", "queue"}) => AtRest'
  BY <1>4
<1> QED
  BY <1>2, <1>3, <1>5 DEF OwnInv, Phase

LEMMA OnlyHardware ==
  ASSUME OwnInv, NEW c \in Caller, pc[c] \notin {"idle", "create", "queue"}, UNCHANGED pc, Phase(c)'
  PROVE  OwnInv'
<1>1. \A d \in Caller : d # c => pc'[d] = "idle"
  BY DEF OwnInv, OneAtATime
<1>2. OneAtATime'
  BY DEF OwnInv, OneAtATime
<1>3. \A d \in Caller : d # c => Phase(d)'
  BY <1>1 DEF Phase, Begins, Waits, Locks, Services, Unlinks, Resumes, Ends, Inside
<1> QED
  BY <1>2, <1>3 DEF OwnInv, Phase

LEMMA OwnNext ==
  ASSUME PollTypes, exclusive, timeouts = 0, NoBug, CompletedWasMoved, OwnInv, Alive, Next,
         timeouts' = 0
  PROVE  NoBug' /\ CompletedWasMoved' /\ (Alive' => OwnInv')
<1> USE DEF xferVars, engineVars, hwVars, callerVars, pollVars, NoBug
<1>1. ASSUME NEW c \in Caller, CallerRequest(c)
      PROVE  NoBug' /\ CompletedWasMoved' /\ OwnInv'
  <2>1. /\ \A d \in Caller : pc[d] = "idle"
        /\ pc' = [pc EXCEPT ![c] = "create"]
        /\ UNCHANGED <<xferVars, engineVars, hwVars, mine, seen>>
    BY <1>1 DEF CallerRequest, Request
  <2>2. AtRest'
    BY <2>1 DEF OwnInv, AtRest
  <2>3. \A d \in Caller : pc'[d] = IF d = c THEN "create" ELSE "idle"
    BY <2>1 DEF PollTypes
  <2>4. OwnInv'
    BY <2>2, <2>3 DEF OwnInv, OneAtATime, Begins, Waits, Locks, Services, Unlinks, Resumes, Ends, Inside
  <2> QED
    BY <2>1, <2>4 DEF CompletedWasMoved
<1>2. ASSUME NEW c \in Caller, CallerCreate(c)
      PROVE  NoBug' /\ CompletedWasMoved' /\ OwnInv'
  <2>1. pc[c] = "create" /\ AtRest
    <3>1. pc[c] = "create"
      BY <1>2 DEF CallerCreate, TransferCreate, TransferCreateFails
    <3>2. \A d \in Caller : pc[d] \in {"idle", "create", "queue"}
      BY <3>1 DEF OwnInv, OneAtATime
    <3> QED
      BY <3>1, <3>2 DEF OwnInv
  <2>2. AtRest'
    BY <1>2, <2>1 DEF AtRest, CallerCreate, TransferCreate, TransferCreateFails
  <2>3. CASE TransferCreateFails(c)
    <3>1. pc' = [pc EXCEPT ![c] = "idle"] /\ UNCHANGED <<xstate, moved, bug>>
      BY <2>3 DEF TransferCreateFails
    <3>2. Phase(c)'
      BY <3>1 DEF Phase, Begins, Waits, Locks, Services, Unlinks, Resumes, Ends, Inside, PollTypes
    <3> QED
      BY <2>1, <2>2, <3>1, <3>2, OthersIdle DEF CompletedWasMoved
  <2>4. CASE TransferCreate(c)
    <3>1. PICK x \in Xfer, d \in 1..MaxDesc :
               /\ xstate' = [xstate EXCEPT ![x] = "NEW"]
               /\ desc_num' = [desc_num EXCEPT ![x] = d]
               /\ moved' = moved \ {x}
               /\ mine' = [mine EXCEPT ![c] = x]
      BY <2>4 DEF TransferCreate
    <3>2. pc' = [pc EXCEPT ![c] = "queue"] /\ bug' = bug
      BY <2>4 DEF TransferCreate
    <3>3. pc'[c] = "queue" /\ mine'[c] = x /\ xstate'[x] = "NEW" /\ desc_num'[x] > 0 /\ x \notin moved'
      BY <3>1, <3>2 DEF PollTypes
    <3>4. Phase(c)'
      BY <3>3 DEF Phase, Begins, Waits, Locks, Services, Unlinks, Resumes, Ends, Inside
    <3>5. CompletedWasMoved'
      BY <3>1 DEF CompletedWasMoved, PollTypes
    <3> QED
      BY <2>1, <2>2, <3>2, <3>4, <3>5, OthersIdle
  <2> QED
    BY <1>2, <2>3, <2>4 DEF CallerCreate
<1>3. ASSUME NEW c \in Caller, CallerSubmit(c)
      PROVE  NoBug' /\ CompletedWasMoved' /\ OwnInv'
  <2>0. PICK x \in Xfer : x = mine[c]
    BY <1>3 DEF CallerSubmit, Submit, PollTypes, Served
  <2>1. /\ pc[c] = "queue" /\ pc' = [pc EXCEPT ![c] = "wait"]
        /\ xstate[x] = "NEW" /\ desc_num[x] > 0 /\ x \notin moved
    BY <1>3, <2>0 DEF CallerSubmit, Submit, OwnInv, Begins
  <2>2. AtRest
    <3>1. \A d \in Caller : pc[d] \in {"idle", "create", "queue"}
      BY <2>1 DEF OwnInv, OneAtATime
    <3> QED
      BY <3>1 DEF OwnInv
  <2>3. /\ xstate' = [xstate EXCEPT ![x] = "SUBMITTED"]
        /\ transfer_list' = <<x>> /\ cur' = x /\ run' /\ active' /\ running' /\ desc_dequeued' = 0 /\ count' = 0
        /\ UNCHANGED <<desc_num, locked, serviced, bug, wb, moved, mine>>
    BY <1>3, <2>0, <2>2, OneOnQueue DEF CallerSubmit, Submit, TransferQueue, EngineStart, AtRest
  <2>4. xstate'[x] = "SUBMITTED" /\ pc'[c] = "wait"
    BY <2>1, <2>3 DEF PollTypes
  <2>5. Phase(c)'
    BY <2>0, <2>1, <2>2, <2>3, <2>4
    DEF Phase, Begins, Waits, Locks, Services, Unlinks, Resumes, Ends, Inside, HasRun, AtRest
  <2>6. CompletedWasMoved'
    BY <2>3 DEF CompletedWasMoved, PollTypes
  <2> QED
    BY <2>1, <2>3, <2>5, <2>6, OthersIdle
<1>4. ASSUME NEW c \in Caller, WbMonitor(c)
      PROVE  NoBug' /\ CompletedWasMoved' /\ OwnInv'
  <2>1. /\ pc[c] = "wait" /\ pc' = [pc EXCEPT ![c] = "lock"] /\ Waits(c)
        /\ seen' = [seen EXCEPT ![c] = wb]
        /\ UNCHANGED <<xferVars, engineVars, hwVars, mine>>
    BY <1>4 DEF WbMonitor, OwnInv
  <2>2. ~active
    BY <1>4, <2>1 DEF WbMonitor, WritebackSeen, Expected, Waits, HasRun, NoWriteback
  <2>3. pc'[c] = "lock" /\ seen'[c] = wb
    BY <2>1 DEF PollTypes
  <2>4. Phase(c)'
    BY <2>1, <2>2, <2>3 DEF Phase, Begins, Waits, Locks, Services, Unlinks, Resumes, Ends, Inside, HasRun, Reported
  <2> QED
    BY <2>1, <2>4, OthersIdle DEF CompletedWasMoved
<1>5. ASSUME NEW c \in Caller, WbTimeout(c)
      PROVE  FALSE
  BY <1>5 DEF WbTimeout
<1>6. ASSUME NEW c \in Caller, PollBegin(c)
      PROVE  NoBug' /\ CompletedWasMoved' /\ OwnInv'
  <2>1. /\ pc[c] = "lock" /\ pc' = [pc EXCEPT ![c] = "service"] /\ Locks(c)
        /\ locked' = TRUE
        /\ seen[c].err => "ERROR" \in status'
        /\ UNCHANGED <<xferVars, transfer_list, running, desc_dequeued, serviced, bug, active, cur,
                       count, wb, moved, mine, seen>>
    BY <1>6 DEF PollBegin, OwnInv, StatusReadClear, Locks
  <2>2. pc'[c] = "service"
    BY <2>1 DEF PollTypes
  <2>3. Phase(c)'
    BY <2>1, <2>2 DEF Phase, Begins, Waits, Locks, Services, Unlinks, Resumes, Ends, Inside, HasRun, Reported
  <2> QED
    BY <2>1, <2>3, OthersIdle DEF CompletedWasMoved
<1>7. ASSUME NEW c \in Caller, PollStopped(c)
      PROVE  FALSE
  BY <1>7 DEF PollStopped, OwnInv, Locks
<1>8. ASSUME NEW c \in Caller, PollShutdown(c)
      PROVE  NoBug' /\ CompletedWasMoved' /\ OwnInv'
  <2>1. /\ pc[c] = "service" /\ pc' = [pc EXCEPT ![c] = "inspect"] /\ Services(c)
        /\ UNCHANGED <<xferVars, transfer_list, desc_dequeued, status, locked, serviced, bug, active,
                       cur, count, wb, moved, mine, seen>>
    BY <1>8 DEF PollShutdown, OwnInv
  <2>2. ~seen[c].err => ~running'
    <3>1. ~seen[c].err => seen[c].count # 0
      BY <2>1 DEF Services, Inside, HasRun, Reported
    <3> QED
      BY <1>8, <3>1 DEF PollShutdown, EngineServiceShutdown
  <2>3. pc'[c] = "inspect"
    BY <2>1 DEF PollTypes
  <2>4. Phase(c)'
    BY <2>1, <2>2, <2>3 DEF Phase, Begins, Waits, Locks, Services, Unlinks, Resumes, Ends, Inside, HasRun, Reported
  <2> QED
    BY <2>1, <2>4, OthersIdle DEF CompletedWasMoved
<1>9. ASSUME NEW c \in Caller, PollMark(c)
      PROVE  NoBug' /\ CompletedWasMoved' /\ OwnInv'
  <2>0. PICK x \in Xfer : x = mine[c]
    BY <1>9 DEF PollMark, PollTypes, Served
  <2>1. /\ pc[c] = "inspect" /\ Services(c)
        /\ UNCHANGED <<running, locked, active, mine, moved>>
    BY <1>9 DEF PollMark, OwnInv
  <2>2. ~bug' /\ transfer_list' = <<x>> /\ (OwnFailed(c) \/ OwnDone(c))
    BY <1>9, <2>0, <2>1, OwnService DEF Services, HasRun
  <2>3. locked' /\ ~active' /\ mine'[c] = x
    BY <2>0, <2>1 DEF Services, Reported
  <2>4. CASE OwnFailed(c)
    <3>1. xstate'[x] = "FAILED" /\ pc'[c] = "resume" /\ pc' = [pc EXCEPT ![c] = "resume"]
      BY <2>0, <2>4 DEF OwnFailed, PollTypes
    <3>2. Phase(c)'
      BY <2>2, <2>3, <3>1 DEF Phase, Begins, Waits, Locks, Services, Unlinks, Resumes, Ends
    <3>3. CompletedWasMoved'
      BY <2>1, <2>4 DEF OwnFailed, CompletedWasMoved, PollTypes
    <3> QED
      BY <2>1, <2>2, <3>1, <3>2, <3>3, OthersIdle
  <2>5. CASE OwnDone(c)
    <3>1. ~seen[c].err /\ ~running'
      BY <2>1, <2>5 DEF OwnDone, Services
    <3>2. count = desc_num[x] /\ x \in moved
      BY <2>0, <2>1, <3>1 DEF Services, Reported
    <3>3. xstate' = [xstate EXCEPT ![x] = "COMPLETED"]
      <4>1. ~(count < desc_num[x])
        BY <3>2 DEF PollTypes
      <4> QED
        BY <2>0, <2>5, <4>1 DEF OwnDone
    <3>4. xstate'[x] = "COMPLETED" /\ pc'[c] = "unlink" /\ pc' = [pc EXCEPT ![c] = "unlink"]
      BY <2>5, <3>3 DEF OwnDone, PollTypes
    <3>5. Phase(c)'
      BY <2>2, <2>3, <3>1, <3>4 DEF Phase, Begins, Waits, Locks, Services, Unlinks, Resumes, Ends
    <3>6. CompletedWasMoved'
      BY <2>1, <3>2, <3>3 DEF CompletedWasMoved, PollTypes
    <3> QED
      BY <2>1, <2>2, <3>4, <3>5, <3>6, OthersIdle
  <2> QED
    BY <2>2, <2>4, <2>5
<1>12. ASSUME NEW c \in Caller, PollUnlink(c)
       PROVE  NoBug' /\ CompletedWasMoved' /\ OwnInv'
  <2>1. /\ pc[c] = "unlink" /\ Unlinks(c)
        /\ pc' = [pc EXCEPT ![c] = "resume"]
        /\ transfer_list' = Tail(transfer_list)
        /\ UNCHANGED <<xferVars, running, locked, bug, hwVars, mine>>
    BY <1>12 DEF PollUnlink, ServiceUnlink, OwnInv
  <2>2. transfer_list' = << >> /\ pc'[c] = "resume"
    BY <2>1, OneOnQueue DEF Unlinks, PollTypes, Served
  <2>3. Phase(c)'
    BY <2>1, <2>2 DEF Phase, Begins, Waits, Locks, Services, Unlinks, Resumes, Ends
  <2> QED
    BY <2>1, <2>3, OthersIdle DEF CompletedWasMoved
<1>13. ASSUME NEW c \in Caller, PollResume(c)
       PROVE  NoBug' /\ CompletedWasMoved' /\ OwnInv'
  <2>1. /\ pc[c] = "resume" /\ Resumes(c) /\ EngineServiceResume
        /\ pc' = [pc EXCEPT ![c] = "ended"] /\ wb' = NoWriteback /\ locked' = FALSE
        /\ UNCHANGED <<xferVars, transfer_list, bug, moved, mine>>
    BY <1>13 DEF PollResume, OwnInv
  <2>2. pc'[c] = "ended"
    BY <2>1 DEF PollTypes
  <2>3. CompletedWasMoved'
    BY <2>1 DEF CompletedWasMoved
  <2>4. CASE transfer_list = << >>
    <3>1. ~running /\ ~active /\ xstate[mine[c]] = "COMPLETED"
      BY <2>1, <2>4, OneOnQueue DEF Resumes, PollTypes, Served
    <3>2. serviced' = NoXfer /\ UNCHANGED <<running, active>>
      BY <2>1, <2>4 DEF EngineServiceResume
    <3>3. AtRest'
      BY <2>1, <2>4, <3>1, <3>2 DEF AtRest, NoWriteback
    <3>4. Phase(c)'
      BY <2>1, <2>2, <3>1, <3>3 DEF Phase, Begins, Waits, Locks, Services, Unlinks, Resumes, Ends
    <3> QED
      BY <2>1, <2>3, <3>4, OthersIdle
  <2>5. CASE transfer_list = <<mine[c]>> /\ xstate[mine[c]] = "FAILED"
    <3>1. Phase(c)'
      BY <2>1, <2>2, <2>5 DEF Phase, Begins, Waits, Locks, Services, Unlinks, Resumes, Ends
    <3> QED
      BY <2>1, <2>3, <3>1, OthersIdle
  <2> QED
    BY <2>1, <2>4, <2>5 DEF Resumes
<1>10. ASSUME NEW c \in Caller, CallerEnds(c)
       PROVE  NoBug' /\ CompletedWasMoved' /\ (Alive' => OwnInv')
  <2>1. AfterMonitor(c, "ended")
    BY <1>10 DEF CallerEnds, StatusReread, OwnInv
  <2>0. PICK x \in Xfer : x = mine[c]
    BY <2>1 DEF AfterMonitor, PollTypes, Served
  <2>2. pc[c] = "ended" /\ Ends(c) /\ xstate[x] \in {"COMPLETED", "FAILED"}
    BY <2>0, <2>1 DEF AfterMonitor, OwnInv, Ends
  <2>3. /\ xstate' = [xstate EXCEPT ![x] = "FREE"]
        /\ UNCHANGED <<desc_num, engineVars, hwVars>>
        /\ \E w \in {"create", "idle"} : pc' = [pc EXCEPT ![c] = w]
    BY <2>0, <2>1, <2>2 DEF AfterMonitor
  <2>4. CompletedWasMoved'
    BY <2>3 DEF CompletedWasMoved, PollTypes
  <2>5. CASE transfer_list = <<x>>
    <3>1. x \in Queued' /\ xstate'[x] = "FREE"
      BY <2>3, <2>5, OneOnQueue DEF Queued, PollTypes
    <3> QED
      BY <2>3, <2>4, <3>1 DEF Alive, FreedInUse, InUse
  <2>6. CASE AtRest
    <3>1. AtRest'
      BY <2>3, <2>6 DEF AtRest
    <3>2. PICK w \in {"create", "idle"} : pc' = [pc EXCEPT ![c] = w]
      BY <2>3
    <3>3. pc'[c] = w
      BY <3>2 DEF PollTypes
    <3>4. Phase(c)'
      BY <3>3 DEF Phase, Begins, Waits, Locks, Services, Unlinks, Resumes, Ends, Inside
    <3> QED
      BY <2>2, <2>3, <2>4, <3>1, <3>2, <3>4, OthersIdle
  <2> QED
    BY <2>0, <2>2, <2>5, <2>6 DEF Ends
<1>11. ASSUME HardwareProgress \/ HardwareHalts \/ HardwareFault
       PROVE  NoBug' /\ CompletedWasMoved' /\ OwnInv'
  <2>1. /\ active
        /\ UNCHANGED <<xferVars, engineVars, pc, mine, seen, cur, run>>
        /\ moved \subseteq moved'
    BY <1>11 DEF HardwareProgress, HwDescriptor, HwLastDescriptor, HardwareHalts, HardwareFault, HwError
  <2>2. PICK c \in Caller : pc[c] \notin {"idle", "create", "queue"}
    BY <2>1 DEF OwnInv, AtRest
  <2>3. /\ pc[c] \in {"wait", "ended"} /\ Waits(c) /\ Ends(c)
        /\ pc[c] = "ended" => transfer_list = <<mine[c]>> /\ xstate[mine[c]] = "FAILED"
    BY <2>1, <2>2
    DEF OwnInv, Locks, Services, Unlinks, Resumes, Ends, Inside, Reported, AtRest, PollTypes, Where
  <2>4. CASE pc[c] = "ended"
    <3>1. Phase(c)'
      BY <2>1, <2>3, <2>4 DEF Phase, Begins, Waits, Locks, Services, Unlinks, Resumes, Ends, Inside
    <3> QED
      BY <2>1, <2>2, <3>1, OnlyHardware DEF CompletedWasMoved
  <2>5. CASE pc[c] = "wait"
    <3>0. PICK x \in Xfer : x = mine[c]
      BY <2>5 DEF PollTypes, Served
    <3>1. /\ HasRun(c) /\ running /\ ~locked /\ run /\ wb = NoWriteback
          /\ count < desc_num[x] /\ cur = x /\ count \in Nat
      BY <2>1, <2>3, <2>5, <3>0 DEF Waits, HasRun, PollTypes
    <3>2. HasRun(c)' /\ running' /\ ~locked' /\ run' /\ mine'[c] = x /\ pc'[c] = "wait" /\ desc_num'[x] = desc_num[x]
      BY <2>1, <2>5, <3>0, <3>1 DEF HasRun
    <3>3. IF active' THEN wb' = NoWriteback /\ count' < desc_num[x] /\ x \notin moved'
          ELSE Reported(c, wb)' /\ (wb'.err => "ERROR" \in events')
      <4>0. x \notin moved
        BY <2>1, <2>3, <2>5, <3>0 DEF Waits
      <4>1. CASE HardwareProgress /\ HwDescriptor
        BY <2>1, <3>1, <4>0, <4>1 DEF HwDescriptor
      <4>2. CASE HardwareProgress /\ HwLastDescriptor
        <5>1. /\ ~active' /\ count' = count + 1 /\ count + 1 = desc_num[x]
              /\ wb' = [count |-> count + 1, err |-> FALSE] /\ x \in moved'
          BY <3>1, <4>2, PollConstants DEF HwLastDescriptor, PollConstants
        <5> QED
          BY <3>2, <5>1 DEF Reported
      <4>3. ~HardwareHalts
        BY <3>1 DEF HardwareHalts
      <4>4. CASE HardwareFault
        <5>1. /\ ~active' /\ count' = count
              /\ wb' = [count |-> count, err |-> TRUE] /\ "ERROR" \in events'
          BY <4>4, PollConstants DEF HardwareFault, HwError, PollConstants
        <5> QED
          BY <3>1, <3>2, <5>1 DEF Reported
      <4> QED
        BY <1>11, <4>1, <4>2, <4>3, <4>4 DEF HardwareProgress
    <3>4. Phase(c)'
      BY <3>2, <3>3 DEF Phase, Begins, Waits, Locks, Services, Unlinks, Resumes, Ends, Inside
    <3> QED
      BY <2>1, <2>2, <3>4, OnlyHardware DEF CompletedWasMoved
  <2> QED
    BY <2>3, <2>4, <2>5
<1> QED
  BY <1>1, <1>2, <1>3, <1>4, <1>5, <1>6, <1>7, <1>8, <1>9, <1>10, <1>11, <1>12, <1>13
  DEF Next, CallerStep, CallerPolls, CallerLocks

LEMMA ExclusiveNext == ASSUME PollTypes, ExclusiveInv, Next PROVE ExclusiveInv'
<1>1. exclusive' = exclusive
  BY DEF Next, CallerStep, CallerRequest, CallerCreate, CallerSubmit, CallerPolls, WbMonitor, PollShutdown,
     PollMark, PollUnlink, PollResume, WbTimeout, CallerLocks, PollBegin, PollStopped, CallerEnds, HardwareProgress,
     HardwareHalts, HardwareFault, pollVars
<1>2. timeouts' = timeouts \/ timeouts' = timeouts + 1
  BY DEF Next, CallerStep, CallerRequest, CallerCreate, CallerSubmit, CallerPolls, WbMonitor, PollShutdown,
     PollMark, PollUnlink, PollResume, WbTimeout, CallerLocks, PollBegin, PollStopped, CallerEnds, HardwareProgress,
     HardwareHalts, HardwareFault, pollVars
<1>3. timeouts' = 0 => timeouts = 0
  BY <1>2 DEF PollTypes
<1>4. Alive
  BY DEF Next
<1> QED
  BY <1>1, <1>3, <1>4, OwnNext DEF ExclusiveInv

LEMMA PollInvInit == Init => ExclusiveInv /\ HealthyInv
<1> SUFFICES ASSUME Init PROVE ExclusiveInv /\ HealthyInv
  OBVIOUS
<1> USE DEF Init, EngineInit, HwInit, CallerInit, NoWriteback
<1>1. OwnInv
  BY DEF OwnInv, OneAtATime, AtRest, Begins, Waits, Locks, Services, Unlinks, Resumes, Ends, Inside
<1> QED
  BY <1>1 DEF ExclusiveInv, HealthyInv, NoBug, CompletedWasMoved

-----------------------------------------------------------------------------
LEMMA HealthyNext ==
  ASSUME PollTypes, ExclusiveInv, HealthyInv, Next
  PROVE  HealthyInv'
<1> USE DEF xferVars, engineVars, hwVars, callerVars, pollVars
<1>1. SUFFICES ASSUME healthy'
               PROVE  /\ timeouts' = 0
                      /\ "ERROR" \notin events' \cup status'
                      /\ ~wb'.err /\ \A c \in Caller : ~seen'[c].err
                      /\ exclusive' => \A x \in Xfer : xstate'[x] # "FAILED"
  BY DEF HealthyInv
<1>2. healthy /\ exclusive' = exclusive
  BY <1>1 DEF Next, CallerStep, CallerRequest, CallerCreate, CallerSubmit, CallerPolls, WbMonitor, PollShutdown,
     PollMark, PollUnlink, PollResume, WbTimeout, CallerLocks, PollBegin, PollStopped, CallerEnds, HardwareProgress,
     HardwareHalts, HardwareFault
<1>3. /\ timeouts = 0 /\ "ERROR" \notin events \cup status
      /\ ~wb.err /\ \A c \in Caller : ~seen[c].err
      /\ exclusive => \A x \in Xfer : xstate[x] # "FAILED"
  BY <1>2 DEF HealthyInv
<1>4. ASSUME NEW c \in Caller, CallerRequest(c) \/ CallerCreate(c) \/ CallerSubmit(c) \/ CallerEnds(c)
      PROVE  HealthyInv'
  <2>1. UNCHANGED <<events, wb, seen, timeouts>> /\ status' \subseteq events \cup status \cup {"BUSY"}
    BY <1>4 DEF CallerRequest, Request, CallerCreate, TransferCreate, TransferCreateFails, CallerSubmit,
       Submit, TransferQueue, CallerEnds, AfterMonitor, StatusReread
  <2>2. \A x \in Xfer : xstate'[x] \in {xstate[x], "NEW", "SUBMITTED", "FREE"}
    <3>1. \/ UNCHANGED xstate
          \/ \E y, s : xstate' = [xstate EXCEPT ![y] = s] /\ s \in {"NEW", "SUBMITTED", "FREE"}
      BY <1>4 DEF CallerRequest, Request, CallerCreate, TransferCreate, TransferCreateFails, CallerSubmit,
         Submit, TransferQueue, CallerEnds, AfterMonitor, StatusReread
    <3> QED
      BY <3>1 DEF PollTypes
  <2> QED
    BY <1>2, <1>3, <2>1, <2>2 DEF HealthyInv
<1>5. ASSUME NEW c \in Caller, WbMonitor(c) \/ PollBegin(c) \/ PollStopped(c) \/ PollShutdown(c)
      PROVE  HealthyInv'
  <2>1. UNCHANGED <<xstate, wb, timeouts>> /\ (UNCHANGED seen \/ seen' = [seen EXCEPT ![c] = wb])
    BY <1>5 DEF WbMonitor, PollBegin, PollStopped, PollShutdown
  <2>2. events' \subseteq events /\ status' \subseteq events \cup status \cup {"BUSY"}
    BY <1>5 DEF WbMonitor, PollBegin, PollStopped, PollShutdown, StatusReadClear
  <2>3. \A d \in Caller : ~seen'[d].err
    BY <1>3, <2>1 DEF PollTypes
  <2> QED
    BY <1>2, <1>3, <2>1, <2>2, <2>3 DEF HealthyInv
<1>6. ASSUME NEW c \in Caller, PollMark(c)
      PROVE  HealthyInv'
  <2>1. UNCHANGED <<events, status, wb, seen, timeouts>>
    BY <1>6 DEF PollMark
  <2>2. ASSUME exclusive
        PROVE  \A x \in Xfer : xstate'[x] # "FAILED"
    <3>1. Services(c) /\ pc[c] = "inspect" /\ ~bug
      BY <1>3, <1>6, <2>2 DEF ExclusiveInv, OwnInv, Next, PollMark, NoBug
    <3>2. HasRun(c) /\ Reported(c, seen[c]) /\ ~seen[c].err
      BY <1>3, <3>1 DEF Services
    <3>3. OwnDone(c) /\ mine[c] \in Xfer
      BY <1>3, <1>6, <3>1, <3>2, OwnService DEF OwnFailed, PollTypes, Served
    <3>4. ~(count < desc_num[mine[c]])
      BY <3>2, <3>3 DEF Reported, PollTypes
    <3>5. xstate' = [xstate EXCEPT ![mine[c]] = "COMPLETED"]
      BY <3>3, <3>4 DEF OwnDone
    <3> QED
      BY <1>3, <2>2, <3>5 DEF PollTypes
  <2> QED
    BY <1>2, <1>3, <2>1, <2>2 DEF HealthyInv
<1>10. ASSUME NEW c \in Caller, PollUnlink(c) \/ PollResume(c)
       PROVE  HealthyInv'
  <2>1. /\ UNCHANGED <<xstate, events, status, timeouts>>
        /\ wb' = wb \/ wb' = NoWriteback
        /\ seen' = seen \/ seen' = [seen EXCEPT ![c] = NoWriteback]
    BY <1>10 DEF PollUnlink, PollResume
  <2>2. ~wb'.err /\ \A d \in Caller : ~seen'[d].err
    BY <1>3, <2>1 DEF NoWriteback, PollTypes
  <2> QED
    BY <1>2, <1>3, <2>1, <2>2 DEF HealthyInv
<1>7. ASSUME HardwareProgress \/ HardwareHalts
      PROVE  HealthyInv'
  <2>1. /\ UNCHANGED <<xstate, status, seen, timeouts>>
        /\ events' \subseteq events \cup {"STOPPED", "COMPLETED"}
        /\ UNCHANGED wb \/ wb' = [count |-> count + 1, err |-> FALSE]
    BY <1>7 DEF HardwareProgress, HwDescriptor, HwLastDescriptor, HwReport, HardwareHalts
  <2>2. ~wb'.err
    BY <1>3, <2>1
  <2> QED
    BY <1>2, <1>3, <2>1, <2>2 DEF HealthyInv
<1>8. ~HardwareFault /\ \A c \in Caller : ~WbTimeout(c)
  BY <1>2 DEF HardwareFault, WbTimeout
<1>9. HealthyInv'
  BY <1>4, <1>5, <1>6, <1>7, <1>8, <1>10 DEF Next, CallerStep, CallerPolls, CallerLocks
<1> QED
  BY <1>1, <1>9 DEF HealthyInv

LEMMA PollInvHolds == Spec => [](PollTypes /\ ExclusiveInv /\ HealthyInv)
<1>1. PollTypes /\ ExclusiveInv /\ HealthyInv /\ [Next]_vars => (ExclusiveInv /\ HealthyInv)'
  <2>1. ASSUME ExclusiveInv, HealthyInv, UNCHANGED vars PROVE ExclusiveInv' /\ HealthyInv'
    <3> USE <2>1 DEF vars, xferVars, engineVars, hwVars, callerVars, pollVars
    <3>1. OwnInv' = OwnInv
      BY DEF OwnInv, OneAtATime, AtRest, Begins, Waits, Locks, Services, Unlinks, Resumes, Ends, HasRun, Reported
    <3>2. ExclusiveInv'
      BY <3>1 DEF ExclusiveInv, NoBug, CompletedWasMoved, Alive, FreedInUse, InUse, Queued
    <3>3. HealthyInv'
      BY DEF HealthyInv
    <3> QED
      BY <3>2, <3>3
  <2> QED
    BY <2>1, ExclusiveNext, HealthyNext
<1> QED
  BY <1>1, PollInvInit, EngineInvHolds, PTL DEF Spec

(* When the programs make one request at a time and no poll times out, a    *)
(* caller takes the report of its own transfer (OwnReport): no BUG_ON() is  *)
(* hit and what is reported as completed was moved, also when the hardware  *)
(* fails.                                                                   *)
THEOREM OwnReportAlways == Spec => []OwnReport
<1>1. ExclusiveInv => OwnReport
  BY DEF ExclusiveInv, OwnReport
<1> QED
  BY <1>1, PollInvHolds, PTL

-----------------------------------------------------------------------------
(* The engine as DmaService sees it, with one request at a time on healthy  *)
(* hardware.                                                                *)
Same == UNCHANGED <<PendingTransfers, MovedTransfers>>
Submitted(x) ==
  /\ PendingTransfers = << >> /\ x \notin MovedTransfers
  /\ PendingTransfers' = <<x>> /\ MovedTransfers' = MovedTransfers
TakenBack(x) ==
  /\ x \in MovedTransfers
  /\ MovedTransfers' = MovedTransfers \ {x} /\ PendingTransfers' = PendingTransfers
Moves(x) ==
  /\ PendingTransfers = <<x>>
  /\ PendingTransfers' = << >> /\ MovedTransfers' = MovedTransfers \cup {x}

LEMMA EmptyQueue ==
  /\ transfer_list = << >> => PendingTransfers = << >>
  /\ transfer_list' = << >> => PendingTransfers' = << >>
BY DEF PendingTransfers, HeadMoved

LEMMA OwnQueue ==
  ASSUME NEW x \in Xfer
  PROVE  /\ transfer_list = <<x>> => PendingTransfers = IF x \in moved THEN << >> ELSE <<x>>
         /\ transfer_list' = <<x>> => PendingTransfers' = IF x \in moved' THEN << >> ELSE <<x>>
BY OneOnQueue DEF PendingTransfers, HeadMoved

LEMMA PromisedStep ==
  ASSUME PollTypes, ExclusiveInv, HealthyInv, Promised, Next
  PROVE  Same \/ \E x \in Xfer : Submitted(x) \/ TakenBack(x) \/ Moves(x)
<1> USE DEF xferVars, engineVars, hwVars, callerVars, pollVars
<1>0. /\ OwnInv /\ Alive /\ ~bug /\ timeouts = 0 /\ exclusive /\ healthy
      /\ \A x \in Xfer : xstate[x] = "COMPLETED" => x \in moved
      /\ \A x \in Xfer : xstate[x] # "FAILED"
      /\ "ERROR" \notin status /\ \A c \in Caller : ~seen[c].err
  BY DEF ExclusiveInv, HealthyInv, Promised, Next, NoBug, CompletedWasMoved
<1>1. ASSUME UNCHANGED <<xstate, transfer_list, moved>>
      PROVE  Same
  BY <1>1 DEF Same, PendingTransfers, MovedTransfers, HeadMoved
<1>2. ASSUME NEW c \in Caller,
             CallerRequest(c) \/ WbMonitor(c) \/ PollBegin(c) \/ PollStopped(c) \/ PollShutdown(c)
      PROVE  Same
  BY <1>1, <1>2 DEF CallerRequest, Request, WbMonitor, PollBegin, PollStopped, PollShutdown
<1>3. ASSUME NEW c \in Caller, CallerCreate(c)
      PROVE  Same
  <2>1. CASE TransferCreateFails(c)
    BY <1>1, <2>1 DEF TransferCreateFails
  <2>2. CASE TransferCreate(c)
    <3>1. AtRest
      <4>1. \A d \in Caller : pc[d] \in {"idle", "create", "queue"}
        BY <1>0, <2>2 DEF TransferCreate, OwnInv, OneAtATime
      <4> QED
        BY <1>0, <4>1 DEF OwnInv
    <3>2. PICK x \in Xfer : /\ xstate[x] = "FREE" /\ xstate' = [xstate EXCEPT ![x] = "NEW"]
                            /\ moved' = moved \ {x} /\ UNCHANGED transfer_list
      BY <2>2 DEF TransferCreate
    <3>3. PendingTransfers' = PendingTransfers
      BY <3>1, <3>2, EmptyQueue DEF AtRest
    <3>4. MovedTransfers' = MovedTransfers
      BY <3>2 DEF MovedTransfers, PollTypes
    <3> QED
      BY <3>3, <3>4 DEF Same
  <2> QED
    BY <1>3, <2>1, <2>2 DEF CallerCreate
<1>4. ASSUME NEW c \in Caller, CallerSubmit(c)
      PROVE  \E x \in Xfer : Submitted(x)
  <2>1. PICK x \in Xfer : x = mine[c]
    BY <1>4 DEF CallerSubmit, Submit, PollTypes, Served
  <2>2. AtRest /\ x \notin moved
    <3>1. pc[c] = "queue" /\ \A d \in Caller : pc[d] \in {"idle", "create", "queue"}
      BY <1>0, <1>4 DEF CallerSubmit, Submit, OwnInv, OneAtATime
    <3> QED
      BY <1>0, <2>1, <3>1 DEF OwnInv, Begins
  <2>3. /\ xstate' = [xstate EXCEPT ![x] = "SUBMITTED"]
        /\ transfer_list' = <<x>> /\ UNCHANGED moved
    BY <1>4, <2>1, <2>2, OneOnQueue DEF CallerSubmit, Submit, TransferQueue, AtRest
  <2>4. PendingTransfers = << >> /\ PendingTransfers' = <<x>>
    BY <2>2, <2>3, EmptyQueue, OwnQueue DEF AtRest
  <2>5. x \notin MovedTransfers /\ MovedTransfers' = MovedTransfers
    BY <2>2, <2>3 DEF MovedTransfers, PollTypes
  <2> QED
    BY <2>4, <2>5 DEF Submitted
<1>5. ASSUME NEW c \in Caller, PollMark(c)
      PROVE  Same
  <2>1. PICK x \in Xfer : x = mine[c]
    BY <1>5 DEF PollMark, PollTypes, Served
  <2>2. pc[c] = "inspect" /\ HasRun(c) /\ Reported(c, seen[c]) /\ ~seen[c].err
    BY <1>0, <1>5 DEF PollMark, OwnInv, Services
  <2>3. OwnDone(c) /\ UNCHANGED <<transfer_list, moved>>
    BY <1>0, <1>5, <2>2, OwnService DEF OwnFailed, PollMark
  <2>4. x \in moved /\ xstate[x] = "SUBMITTED" /\ ~(count < desc_num[x])
    BY <2>1, <2>2 DEF HasRun, Reported, PollTypes
  <2>5. xstate' = [xstate EXCEPT ![x] = "COMPLETED"]
    BY <2>1, <2>3, <2>4 DEF OwnDone
  <2>6. PendingTransfers' = PendingTransfers
    BY <2>3 DEF PendingTransfers, HeadMoved
  <2>7. MovedTransfers' = MovedTransfers
    BY <2>3, <2>4, <2>5 DEF MovedTransfers, PollTypes
  <2> QED
    BY <2>6, <2>7 DEF Same
<1>9. ASSUME NEW c \in Caller, PollUnlink(c)
      PROVE  Same
  <2>1. PICK x \in Xfer : x = mine[c]
    BY <1>9 DEF PollUnlink, PollTypes, Served
  <2>2. transfer_list = <<x>> /\ x \in moved
    BY <1>0, <1>9, <2>1 DEF PollUnlink, OwnInv, Unlinks
  <2>3. transfer_list' = << >> /\ UNCHANGED <<xstate, moved>>
    BY <1>9, <2>2, OneOnQueue DEF PollUnlink, ServiceUnlink
  <2>4. PendingTransfers = << >> /\ PendingTransfers' = << >>
    BY <2>2, <2>3, EmptyQueue, OwnQueue
  <2>5. MovedTransfers' = MovedTransfers
    BY <2>3 DEF MovedTransfers
  <2> QED
    BY <2>4, <2>5 DEF Same
<1>10. ASSUME NEW c \in Caller, PollResume(c)
       PROVE  Same
  BY <1>1, <1>10 DEF PollResume
<1>6. ASSUME NEW c \in Caller, CallerEnds(c)
      PROVE  \E x \in Xfer : TakenBack(x)
  <2>1. AfterMonitor(c, "ended")
    BY <1>0, <1>6 DEF CallerEnds, StatusReread, OwnInv
  <2>2. PICK x \in Xfer : x = mine[c]
    BY <2>1 DEF AfterMonitor, PollTypes, Served
  <2>3. AtRest /\ xstate[x] = "COMPLETED"
    BY <1>0, <2>1, <2>2 DEF AfterMonitor, OwnInv, Ends
  <2>4. xstate' = [xstate EXCEPT ![x] = "FREE"] /\ UNCHANGED <<transfer_list, moved>>
    BY <2>1, <2>2, <2>3 DEF AfterMonitor
  <2>5. PendingTransfers' = PendingTransfers
    BY <2>3, <2>4, EmptyQueue DEF AtRest
  <2>6. x \in MovedTransfers /\ MovedTransfers' = MovedTransfers \ {x}
    BY <1>0, <2>3, <2>4 DEF MovedTransfers, PollTypes
  <2> QED
    BY <2>5, <2>6 DEF TakenBack
<1>7. ASSUME HardwareProgress \/ HardwareHalts
      PROVE  Same \/ \E x \in Xfer : Moves(x)
  <2>1. CASE HwDescriptor \/ HardwareHalts
    BY <1>1, <1>7, <2>1 DEF HardwareProgress, HwDescriptor, HardwareHalts
  <2>2. CASE HardwareProgress /\ HwLastDescriptor
    <3>1. active /\ UNCHANGED <<xstate, transfer_list>> /\ moved' = moved \cup {cur}
      BY <2>2 DEF HardwareProgress, HwLastDescriptor
    <3>2. PICK c \in Caller : pc[c] \notin {"idle", "create", "queue"}
      BY <1>0, <3>1 DEF OwnInv, AtRest
    <3>3. pc[c] = "wait" /\ Waits(c) /\ mine[c] \in Xfer
      BY <1>0, <3>1, <3>2
      DEF OwnInv, Locks, Services, Unlinks, Resumes, Ends, Inside, Reported, AtRest, PollTypes, Where, Served
    <3>4. PICK x \in Xfer : x = mine[c]
      BY <3>3
    <3>5. cur = x /\ x \notin moved /\ xstate[x] = "SUBMITTED" /\ transfer_list = <<x>>
      BY <3>1, <3>3, <3>4 DEF Waits, HasRun
    <3>6. PendingTransfers = <<x>> /\ PendingTransfers' = << >>
      BY <3>1, <3>5, OwnQueue
    <3>7. MovedTransfers' = MovedTransfers \cup {x}
      BY <3>1, <3>5 DEF MovedTransfers
    <3> QED
      BY <3>6, <3>7 DEF Moves
  <2> QED
    BY <1>7, <2>1, <2>2 DEF HardwareProgress
<1>8. ~HardwareFault /\ \A c \in Caller : ~WbTimeout(c)
  BY <1>0 DEF HardwareFault, WbTimeout
<1> QED
  BY <1>2, <1>3, <1>4, <1>5, <1>6, <1>7, <1>8, <1>9, <1>10
  DEF Next, CallerStep, CallerPolls, CallerLocks

LEMMA OneCallerStep ==
  ASSUME PollTypes, ExclusiveInv, HealthyInv, [Next]_vars
  PROVE  [OneCaller!Next]_(OneCaller!vars)
<1>1. Promised' = Promised
  BY DEF Promised, vars, pollVars, Next, CallerStep, CallerRequest, CallerCreate, CallerSubmit, CallerPolls,
     WbMonitor, PollShutdown, PollMark, PollUnlink, PollResume, WbTimeout, CallerLocks, PollBegin,
     PollStopped, CallerEnds, HardwareProgress, HardwareHalts, HardwareFault
<1>2. CASE ~Promised
  BY <1>1, <1>2 DEF OneCaller!vars
<1>3. CASE Promised /\ (UNCHANGED vars \/ Same)
  <2>1. Same
    BY <1>3 DEF vars, xferVars, engineVars, hwVars, Same, PendingTransfers, MovedTransfers, HeadMoved
  <2> QED
    BY <1>1, <1>3, <2>1 DEF OneCaller!vars, Same
<1>4. ASSUME Promised, NEW x \in Xfer, Submitted(x)
      PROVE  OneCaller!Submit(x)
  BY <1>1, <1>4, OneOnQueue DEF OneCaller!Submit, OneCaller!Waiting, Submitted
<1>5. ASSUME Promised, NEW x \in Xfer, TakenBack(x)
      PROVE  OneCaller!TakeBack(x)
  BY <1>1, <1>5 DEF OneCaller!TakeBack, TakenBack
<1>6. ASSUME Promised, NEW x \in Xfer, Moves(x)
      PROVE  OneCaller!Move
  BY <1>1, <1>6, OneOnQueue DEF OneCaller!Move, Moves
<1> QED
  BY <1>2, <1>3, <1>4, <1>5, <1>6, PromisedStep DEF OneCaller!Next

(* Poll mode keeps the promise of DmaService to a program that makes one    *)
(* request at a time on healthy hardware, except that it does so in the end *)
(* (the safety part of ServesOneCaller): each transfer is moved once, and   *)
(* given back after it was moved.                                           *)
THEOREM PollImplementsService == Spec => OneCaller!Safety
<1>1. Init => OneCaller!Init
  BY DEF Init, EngineInit, HwInit, OneCaller!Init, PendingTransfers, MovedTransfers, HeadMoved
<1>2. PollTypes /\ ExclusiveInv /\ HealthyInv /\ [Next]_vars => [OneCaller!Next]_(OneCaller!vars)
  BY OneCallerStep
<1> QED
  BY PollInvHolds, <1>1, <1>2, PTL DEF Spec, OneCaller!Safety
=============================================================================
