------------------------ MODULE XdmaInterrupt_proofs ------------------------
(***************************************************************************)
(* Proofs about XdmaInterrupt, for any set of callers and transfers, any   *)
(* number of descriptors and chunks, and callers that signals interrupt:   *)
(* first what holds whatever the hardware does, then what holds when BUSY  *)
(* is clear before the channel reports, and what holds when it reports no  *)
(* error, up to the implementation of DmaService.                          *)
(*                                                                         *)
(* The last part is about XdmaPerf, the same engine with performance tests *)
(* among the requests: XdmaPerf has the state and most steps of            *)
(* XdmaInterrupt, and the proofs share what is known of engine_service().  *)
(***************************************************************************)
EXTENDS XdmaPerf, QueueLemmas, TLAPS

(* A report is pending: executing, reported, or being serviced. *)
Serving == work_pc \in {"service", "inspect"}
InRun == active \/ events # {} \/ Serving

(* A run belongs to the first queued transfer and is accounted from zero.   *)
RunIsHead ==
  InRun => /\ running \/ work_pc = "inspect"
           /\ transfer_list # << >>
           /\ cur = Head(transfer_list)
           /\ desc_dequeued = 0
           /\ count <= desc_num[cur]

(* What a report says is true, and there is one report per run.             *)
ReportIsTrue ==
  /\ active => events = {} /\ count < desc_num[cur]
  /\ InRun /\ count = desc_num[cur] => cur \in moved
  /\ Serving => ~active /\ events = {}

(* From the store of its state to the end of the service, the transfer that *)
(* is over is the serviced one, the first of the queue until it is taken    *)
(* off; no run is reported meanwhile.                                       *)
Finishing == work_pc \in {"unlink", "resume"}
ServicedIsHead ==
  /\ Finishing => ~active /\ events = {}
  /\ ~Finishing => serviced = NoXfer
  /\ work_pc = "unlink" => /\ transfer_list # << >>
                          /\ serviced = Head(transfer_list)

(* The interrupt is masked exactly while its work is due, and what will     *)
(* unmask it is known.                                                      *)
Due == work_pending \/ work_pc # "idle"
MaskIsDue ==
  /\ work_pending => events # {} /\ work_pc = "idle"
  /\ msix_enabled => channel_enabled /\ (enable_mask <=> ~Due) /\ (Due => saved_mask)
  /\ ~msix_enabled => enable_mask /\ (channel_enabled <=> ~Due)
  /\ locked <=> work_pc # "idle"

(* Every transfer on its way to the hardware has descriptors.               *)
HasDescriptors ==
  /\ \A x \in Queued : desc_num[x] > 0
  /\ \A c \in Caller : pc[c] = "queue" => mine[c] \in Xfer /\ desc_num[mine[c]] > 0

FaultInv ==
  /\ TypeOK
  /\ NoBug
  /\ RunIsHead
  /\ ReportIsTrue
  /\ ServicedIsHead
  /\ MaskIsDue
  /\ HasDescriptors
  /\ CompletedWasMoved

-----------------------------------------------------------------------------
LEMMA QueuedIsElems == Queued = Elems(transfer_list) /\ Queued' = Elems(transfer_list')
BY DEF Queued, Elems

LEMMA QueuedInXfer == ASSUME TypeOK PROVE Queued \subseteq Xfer
<1>1. transfer_list \in Seq(Xfer)
  BY DEF TypeOK, EngineTypeOK
<1>2. ASSUME NEW i \in DOMAIN transfer_list PROVE transfer_list[i] \in Xfer
  <2>1. i \in 1..Len(transfer_list)
    BY <1>1, <1>2, LenProperties
  <2> QED
    BY <1>1, <2>1, ElementOfSeq
<1> QED
  BY <1>2 DEF Queued

-----------------------------------------------------------------------------
(* How the work marks the transfer of a reported run: it failed and stays   *)
(* on the queue, or it is over and is taken off next.                       *)
MarkFailed ==
  /\ "ERROR" \in status
  /\ xstate' = [xstate EXCEPT ![Head(transfer_list)] = "FAILED"]
  /\ serviced' = NoXfer
  /\ work_pc' = "resume"

MarkDone ==
  LET h == Head(transfer_list)
  IN /\ "ERROR" \notin status
     /\ xstate' = [xstate EXCEPT ![h] = IF count < desc_num[h] THEN "FAILED" ELSE "COMPLETED"]
     /\ serviced' = h
     /\ work_pc' = "unlink"

LEMMA ServiceEffect ==
  ASSUME TypeOK, RunIsHead, work_pc = "inspect", EngineService(NotYetDequeued(count))
  PROVE  LET h == Head(transfer_list)
         IN /\ bug' = bug /\ transfer_list' = transfer_list /\ desc_dequeued' = desc_dequeued
            /\ \/ /\ "ERROR" \in status
                  /\ xstate' = [xstate EXCEPT ![h] = "FAILED"]
                  /\ run' = FALSE /\ serviced' = serviced
               \/ /\ "ERROR" \notin status
                  /\ xstate' = [xstate EXCEPT ![h] = IF count < desc_num[h] THEN "FAILED"
                                                     ELSE "COMPLETED"]
                  /\ serviced' = h /\ run' = run
<1> DEFINE h == Head(transfer_list)
<1>1. /\ transfer_list # << >> /\ cur = h
      /\ desc_dequeued = 0 /\ count <= desc_num[h]
      /\ transfer_list \in Seq(Xfer) /\ xstate \in [Xfer -> XferState]
      /\ count \in Nat
  BY DEF RunIsHead, InRun, Serving, TypeOK, EngineTypeOK, HwTypeOK
<1>2. h \in Xfer /\ desc_num[h] \in Nat
  BY <1>1, TailFacts DEF TypeOK, EngineTypeOK
<1>3. NotYetDequeued(count) = count
  BY <1>1, <1>2 DEF NotYetDequeued
<1>4. TakenOff(count) = 0
  BY <1>1 DEF TakenOff
<1>5. Len(transfer_list) # 0 /\ SubSeq(transfer_list, 0 + 1, Len(transfer_list)) = transfer_list
  <2>1. Len(transfer_list) \in Nat /\ Len(transfer_list) # 0 /\ 0 + 1 = 1
    BY <1>1, LenProperties, EmptySeq
  <2>2. SubSeq(transfer_list, 1, Len(transfer_list)) = transfer_list
    BY <1>1, SubSeqFull
  <2> QED
    BY <2>1, <2>2
<1>6. DescriptorsOf(0) = 0 /\ count - 0 = count /\ desc_dequeued + 0 = desc_dequeued
  BY <1>1 DEF DescriptorsOf
<1>7. /\ transfer_list' = transfer_list /\ desc_dequeued' = desc_dequeued /\ bug' = bug
      /\ ServiceError(0, h) \/ ServiceFinal(0, h, count)
  <2>1. EngineService(count)
    BY <1>3
  <2>2. /\ transfer_list' = SubSeq(transfer_list, 0 + 1, Len(transfer_list))
        /\ desc_dequeued' = desc_dequeued + DescriptorsOf(0)
        /\ \/ ServiceError(0, Head(SubSeq(transfer_list, 0 + 1, Len(transfer_list))))
           \/ ServiceFinal(0, Head(SubSeq(transfer_list, 0 + 1, Len(transfer_list))),
                           count - DescriptorsOf(0))
        /\ bug' = bug
    BY <1>4, <1>5, <2>1 DEF EngineService
  <2> QED
    BY <1>5, <1>6, <2>2
<1>8. ASSUME NEW state, MarkTransfers(0, h, state)
      PROVE  xstate' = [xstate EXCEPT ![h] = state]
  <2>1. 1..0 = {}
    OBVIOUS
  <2>2. \A x : ~ \E i \in 1..0 : transfer_list[i] = x
    BY <2>1
  <2>3. xstate' = [x \in Xfer |-> IF x = h THEN state ELSE xstate[x]]
    BY <1>8, <2>2 DEF MarkTransfers
  <2>4. xstate = [x \in Xfer |-> xstate[x]]
    BY <1>1
  <2> QED
    BY <1>2, <2>3, <2>4
<1>9. CASE ServiceError(0, h)
  <2>1. /\ "ERROR" \in status /\ MarkTransfers(0, h, "FAILED")
        /\ run' = FALSE /\ serviced' = serviced
    BY <1>9 DEF ServiceError
  <2>2. xstate' = [xstate EXCEPT ![h] = "FAILED"]
    BY <1>8, <2>1
  <2> QED
    BY <1>7, <2>1, <2>2
<1>10. CASE ServiceFinal(0, h, count)
  <2>1. /\ "ERROR" \notin status
        /\ MarkTransfers(0, h, IF count < desc_num[h] THEN "FAILED" ELSE "COMPLETED")
        /\ serviced' = h /\ run' = run
    BY <1>10 DEF ServiceFinal
  <2>2. xstate' = [xstate EXCEPT ![h] = IF count < desc_num[h] THEN "FAILED" ELSE "COMPLETED"]
    BY <1>8, <2>1
  <2> QED
    BY <1>7, <2>1, <2>2
<1> QED
  BY <1>7, <1>9, <1>10

(* The store takes nothing off the queue and wakes nobody.                  *)
LEMMA MarkEffect ==
  ASSUME TypeOK, RunIsHead, ServicedIsHead, WorkMark
  PROVE  /\ work_pc = "inspect" /\ work_pc' \in {"unlink", "resume"}
         /\ MarkFailed \/ MarkDone
         /\ run' \in BOOLEAN
         /\ UNCHANGED <<transfer_list, desc_dequeued, bug, desc_num, running, status, locked,
                        active, busy, cur, count, events, wb, moved, pc, mine, chunks, rc,
                        result, irqVars, work_pending>>
<1> DEFINE h == Head(transfer_list)
<1>1. /\ work_pc = "inspect" /\ work_pc' = AfterMark
      /\ EngineService(NotYetDequeued(count))
      /\ Wake(Queued \ Queued')
      /\ UNCHANGED <<desc_num, running, status, locked, active, busy, cur, count, events, wb, moved,
                     mine, chunks, rc, result, irqVars, work_pending>>
  BY DEF WorkMark
<1>2. /\ bug' = bug /\ transfer_list' = transfer_list /\ desc_dequeued' = desc_dequeued
      /\ \/ /\ "ERROR" \in status
            /\ xstate' = [xstate EXCEPT ![h] = "FAILED"]
            /\ run' = FALSE /\ serviced' = serviced
         \/ /\ "ERROR" \notin status
            /\ xstate' = [xstate EXCEPT ![h] = IF count < desc_num[h] THEN "FAILED"
                                               ELSE "COMPLETED"]
            /\ serviced' = h /\ run' = run
  BY <1>1, ServiceEffect
<1>3. serviced = NoXfer
  BY <1>1 DEF ServicedIsHead, Finishing
<1>4. h \in Xfer /\ h # NoXfer
  BY <1>1, TailFacts, EngineConstants
  DEF EngineConstants, RunIsHead, InRun, Serving, TypeOK, EngineTypeOK
<1>5. MarkFailed \/ MarkDone
  BY <1>1, <1>2, <1>3, <1>4 DEF MarkFailed, MarkDone, AfterMark
<1>6. pc' = pc
  <2>1. Queued \ Queued' = {}
    BY <1>2 DEF Queued
  <2>2. pc' = [c \in Caller |-> pc[c]]
    BY <1>1, <2>1 DEF Wake
  <2>3. pc = [c \in Caller |-> pc[c]]
    BY DEF TypeOK, CallerTypeOK
  <2> QED
    BY <2>2, <2>3
<1>7. run' \in BOOLEAN
  BY <1>2 DEF TypeOK, HwTypeOK
<1>8. work_pc' \in {"unlink", "resume"}
  BY <1>1 DEF AfterMark
<1> QED
  BY <1>1, <1>2, <1>5, <1>6, <1>7, <1>8

(* Waking the callers of some transfers moves no other.                     *)
LEMMA WakeEffect ==
  ASSUME TypeOK, NEW S, Wake(S)
  PROVE  /\ pc' \in [Caller -> Where]
         /\ \A c \in Caller : /\ pc[c] # "sleep" => pc'[c] = pc[c]
                              /\ pc'[c] = "sleep" => pc[c] = "sleep" /\ mine[c] \notin S
                              /\ pc[c] = "sleep" => pc'[c] \in {"sleep", "wait"}
BY DEF Wake, TypeOK, CallerTypeOK, Where

(* The engine is restarted on the first queued transfer, or left as it is.  *)
Restarts == transfer_list # << >> /\ EngineStart(Head(transfer_list))
LeftAsItIs == UNCHANGED <<running, desc_dequeued, run, active, busy, cur, count>>

LEMMA ResumeEffect ==
  ASSUME EngineServiceResume
  PROVE  serviced' = NoXfer /\ (Restarts \/ LeftAsItIs)
BY DEF EngineServiceResume, Restarts, LeftAsItIs

-----------------------------------------------------------------------------
LEMMA FaultInvInit == Init => FaultInv
<1> SUFFICES ASSUME Init PROVE FaultInv
  OBVIOUS
<1> USE DEF Init, EngineInit, HwInit, CallerInit, NoWriteback
<1>0. 0 \in 0..MaxDesc
  BY EngineConstants DEF EngineConstants
<1>1. EngineTypeOK
  <2>1. transfer_list \in Seq(Xfer)
    BY EmptySeq
  <2> QED
    BY <1>0, <2>1 DEF EngineTypeOK, XferState
<1>2. HwTypeOK
  BY <1>0 DEF HwTypeOK
<1>3. CallerTypeOK
  BY EngineConstants DEF CallerTypeOK, EngineConstants, Where
<1>4. TypeOK
  BY <1>1, <1>2, <1>3 DEF TypeOK
<1>5. NoBug /\ RunIsHead /\ ReportIsTrue /\ ServicedIsHead /\ MaskIsDue
  BY DEF NoBug, RunIsHead, InRun, Serving, ReportIsTrue, ServicedIsHead, Finishing, MaskIsDue, Due
<1>6. HasDescriptors /\ CompletedWasMoved
  BY DEF HasDescriptors, CompletedWasMoved, Queued
<1> QED
  BY <1>4, <1>5, <1>6 DEF FaultInv

LEMMA FaultInvNext == FaultInv /\ [Next]_vars => FaultInv'
<1> SUFFICES ASSUME FaultInv, [Next]_vars
             PROVE  FaultInv'
  OBVIOUS
<1> USE EngineConstants DEF FaultInv, EngineConstants
<1>1. ASSUME NEW c \in Caller, CallerRequest(c)
      PROVE  FaultInv'
  <2> USE <1>1 DEF CallerRequest, Request, xferVars, engineVars, hwVars, callerVars, irqVars, workVars
  <2>1. TypeOK'
    BY DEF TypeOK, EngineTypeOK, HwTypeOK, CallerTypeOK, Where, XferState, Event
  <2>2. (NoBug /\ RunIsHead /\ ReportIsTrue /\ ServicedIsHead /\ MaskIsDue)'
    BY DEF NoBug, RunIsHead, InRun, Serving, ReportIsTrue, ServicedIsHead, Finishing, MaskIsDue, Due
  <2>3. HasDescriptors'
    BY DEF HasDescriptors, Queued
  <2>4. CompletedWasMoved'
    BY DEF CompletedWasMoved
  <2> QED
    BY <2>1, <2>2, <2>3, <2>4 DEF FaultInv
<1>2. ASSUME NEW c \in Caller, CallerCreate(c), Alive
      PROVE  FaultInv'
  <2> USE DEF xferVars, engineVars, hwVars, callerVars, irqVars, workVars
  <2>1. PICK x \in Xfer, d \in 1..MaxDesc :
             /\ xstate[x] = "FREE"
             /\ xstate' = [xstate EXCEPT ![x] = "NEW"]
             /\ desc_num' = [desc_num EXCEPT ![x] = d]
             /\ moved' = moved \ {x}
             /\ mine' = [mine EXCEPT ![c] = x]
    BY <1>2 DEF CallerCreate, TransferCreate
  <2>2. /\ pc' = [pc EXCEPT ![c] = "queue"]
        /\ UNCHANGED <<engineVars, run, active, busy, cur, count, events, wb, chunks, rc, result, irqVars, workVars>>
    BY <1>2 DEF CallerCreate, TransferCreate
  <2>3. x \notin Queued
    BY <1>2, <2>1 DEF Alive, FreedInUse, InUse
  <2>4. InRun => cur # x /\ cur \in Xfer
    BY <2>3, QueuedIsElems, TailFacts DEF RunIsHead, TypeOK, EngineTypeOK
  <2>5. TypeOK'
    <3>1. EngineTypeOK'
      BY <2>1, <2>2 DEF TypeOK, EngineTypeOK, XferState
    <3>2. HwTypeOK'
      BY <2>1, <2>2 DEF TypeOK, HwTypeOK
    <3>3. CallerTypeOK'
      BY <2>1, <2>2 DEF TypeOK, CallerTypeOK, Where
    <3> QED
      BY <2>2, <3>1, <3>2, <3>3 DEF TypeOK
  <2>6. RunIsHead'
    BY <2>1, <2>2, <2>4 DEF RunIsHead, InRun, Serving, TypeOK, EngineTypeOK
  <2>7. ReportIsTrue'
    BY <2>1, <2>2, <2>4 DEF ReportIsTrue, RunIsHead, InRun, Serving, TypeOK, EngineTypeOK
  <2>8. NoBug' /\ ServicedIsHead' /\ MaskIsDue'
    BY <2>2 DEF NoBug, ServicedIsHead, Finishing, MaskIsDue, Due
  <2>9. HasDescriptors'
    BY <2>1, <2>2, <2>3 DEF HasDescriptors, Queued, TypeOK, EngineTypeOK, CallerTypeOK, Where
  <2>10. CompletedWasMoved'
    BY <2>1 DEF CompletedWasMoved, TypeOK, EngineTypeOK
  <2> QED
    BY <2>5, <2>6, <2>7, <2>8, <2>9, <2>10 DEF FaultInv
<1>3. ASSUME NEW c \in Caller, CallerCreateFails(c)
      PROVE  FaultInv'
  <2> USE <1>3 DEF CallerCreateFails, TransferCreateFails, xferVars, engineVars, hwVars, callerVars, irqVars, workVars
  <2>1. TypeOK'
    BY DEF TypeOK, EngineTypeOK, HwTypeOK, CallerTypeOK, Where, XferState, Event
  <2>2. (NoBug /\ RunIsHead /\ ReportIsTrue /\ ServicedIsHead /\ MaskIsDue)'
    BY DEF NoBug, RunIsHead, InRun, Serving, ReportIsTrue, ServicedIsHead, Finishing, MaskIsDue, Due
  <2>3. HasDescriptors'
    BY DEF HasDescriptors, Queued
  <2>4. CompletedWasMoved'
    BY DEF CompletedWasMoved
  <2> QED
    BY <2>1, <2>2, <2>3, <2>4 DEF FaultInv
<1>4. ASSUME NEW c \in Caller, CallerSubmit(c)
      PROVE  FaultInv'
  <2> DEFINE x == mine[c]
  <2> USE DEF xferVars, engineVars, hwVars, callerVars, irqVars, workVars
  <2>1. /\ pc[c] = "queue"
        /\ pc' = [pc EXCEPT ![c] = "wait"]
        /\ ~locked
        /\ xstate' = [xstate EXCEPT ![x] = "SUBMITTED"]
        /\ transfer_list' = Append(transfer_list, x)
        /\ UNCHANGED <<desc_num, status, locked, serviced, bug, events, wb, moved, mine, chunks, rc, result, irqVars, workVars>>
    BY <1>4 DEF CallerSubmit, Submit, TransferQueue
  <2>2. IF running
        THEN UNCHANGED <<running, desc_dequeued, run, active, busy, cur, count>>
        ELSE EngineStart(Head(transfer_list'))
    BY <1>4 DEF CallerSubmit, Submit, TransferQueue
  <2>3. x \in Xfer /\ desc_num[x] > 0
    BY <2>1 DEF HasDescriptors
  <2>4. /\ transfer_list' \in Seq(Xfer)
        /\ transfer_list' # << >>
        /\ Head(transfer_list') \in Xfer
        /\ transfer_list # << >> => Head(transfer_list') = Head(transfer_list)
        /\ Elems(transfer_list') = Elems(transfer_list) \cup {x}
    BY <2>1, <2>3, AppendFacts DEF TypeOK, EngineTypeOK
  <2>5. Queued' = Queued \cup {x}
    BY <2>4, QueuedIsElems
  <2>6. Head(transfer_list') \in Queued'
    BY <2>4, QueuedIsElems, TailFacts
  <2>7. HasDescriptors'
    BY <2>1, <2>3, <2>5 DEF HasDescriptors
  <2>8. desc_num[Head(transfer_list')] > 0
    BY <2>1, <2>6, <2>7 DEF HasDescriptors
  <2>9. TypeOK'
    <3>1. /\ running' \in BOOLEAN
          /\ desc_dequeued' \in Nat
          /\ run' \in BOOLEAN /\ active' \in BOOLEAN /\ busy' \in BOOLEAN
          /\ cur' \in Xfer \cup {NoXfer}
          /\ count' \in 0..MaxDesc
      <4>1. CASE running
        BY <2>2, <4>1 DEF TypeOK, EngineTypeOK, HwTypeOK
      <4>2. CASE ~running
        BY <2>2, <2>4, <4>2 DEF EngineStart
      <4> QED
        BY <4>1, <4>2
    <3>2. EngineTypeOK'
      BY <2>1, <2>4, <3>1 DEF TypeOK, EngineTypeOK, XferState
    <3>3. HwTypeOK'
      BY <2>1, <3>1 DEF TypeOK, HwTypeOK
    <3>4. CallerTypeOK'
      BY <2>1 DEF TypeOK, CallerTypeOK, Where
    <3> QED
      BY <2>1, <3>2, <3>3, <3>4 DEF TypeOK
  <2>10. ASSUME running PROVE RunIsHead' /\ ReportIsTrue'
    BY <2>1, <2>2, <2>4, <2>10 DEF RunIsHead, InRun, Serving, ReportIsTrue
  <2>11. ASSUME ~running PROVE RunIsHead' /\ ReportIsTrue'
    <3>1. ~InRun
      BY <2>1, <2>11 DEF RunIsHead, MaskIsDue
    <3> QED
      BY <2>1, <2>2, <2>4, <2>8, <2>11, <3>1
      DEF RunIsHead, InRun, Serving, ReportIsTrue, EngineStart, TypeOK, EngineTypeOK
  <2>12. NoBug' /\ ServicedIsHead' /\ MaskIsDue'
    BY <2>1 DEF NoBug, ServicedIsHead, Finishing, MaskIsDue, Due
  <2>13. CompletedWasMoved'
    BY <2>1, <2>3 DEF CompletedWasMoved, TypeOK, EngineTypeOK
  <2> QED
    BY <2>7, <2>9, <2>10, <2>11, <2>12, <2>13 DEF FaultInv
<1>5. ASSUME NEW c \in Caller, WaitEvent(c)
      PROVE  FaultInv'
  <2> USE <1>5 DEF WaitEvent, xferVars, engineVars, hwVars, callerVars, irqVars, workVars
  <2>1. TypeOK'
    BY DEF TypeOK, EngineTypeOK, HwTypeOK, CallerTypeOK, Where, XferState, Event
  <2>2. (NoBug /\ RunIsHead /\ ReportIsTrue /\ ServicedIsHead /\ MaskIsDue)'
    BY DEF NoBug, RunIsHead, InRun, Serving, ReportIsTrue, ServicedIsHead, Finishing, MaskIsDue, Due
  <2>3. HasDescriptors'
    BY DEF HasDescriptors, Queued
  <2>4. CompletedWasMoved'
    BY DEF CompletedWasMoved
  <2> QED
    BY <2>1, <2>2, <2>3, <2>4 DEF FaultInv
<1>6. ASSUME NEW c \in Caller, Signal(c)
      PROVE  FaultInv'
  <2> USE <1>6 DEF Signal, xferVars, engineVars, hwVars, callerVars, irqVars, workVars
  <2>1. TypeOK'
    BY DEF TypeOK, EngineTypeOK, HwTypeOK, CallerTypeOK, Where, XferState, Event
  <2>2. (NoBug /\ RunIsHead /\ ReportIsTrue /\ ServicedIsHead /\ MaskIsDue)'
    BY DEF NoBug, RunIsHead, InRun, Serving, ReportIsTrue, ServicedIsHead, Finishing, MaskIsDue, Due
  <2>3. HasDescriptors'
    BY DEF HasDescriptors, Queued
  <2>4. CompletedWasMoved'
    BY DEF CompletedWasMoved
  <2> QED
    BY <2>1, <2>2, <2>3, <2>4 DEF FaultInv
<1>7. ASSUME NEW c \in Caller, CallerEnds(c)
      PROVE  FaultInv'
  <2> USE DEF xferVars, engineVars, hwVars, callerVars, irqVars, workVars
  <2>1. /\ xstate' = [xstate EXCEPT ![mine[c]] = "FREE"] \/ xstate' = xstate
        /\ mine' = [mine EXCEPT ![c] = NoXfer]
        /\ \/ chunks[c] > 1 /\ chunks' = [chunks EXCEPT ![c] = @ - 1]
           \/ chunks' = [chunks EXCEPT ![c] = 0]
        /\ \E w \in {"create", "idle", "reread"} : pc' = [pc EXCEPT ![c] = w]
        /\ rc' = [rc EXCEPT ![c] = FALSE]
        /\ UNCHANGED <<desc_num, engineVars, hwVars, irqVars, workVars>>
    BY <1>7 DEF CallerEnds, AfterMonitor
  <2>2. \/ result' = result
        \/ \E r \in {"OK", "EIO", "ERESTARTSYS"} : result' = [result EXCEPT ![c] = r]
    BY <1>7 DEF CallerEnds, AfterMonitor, TypeOK, CallerTypeOK, Where
  <2>3. TypeOK'
    <3>1. EngineTypeOK'
      BY <2>1 DEF TypeOK, EngineTypeOK, XferState
    <3>2. chunks' \in [Caller -> 0..MaxChunks]
      BY <2>1 DEF TypeOK, CallerTypeOK, Where
    <3>3. result' \in [Caller -> {"none", "OK", "EIO", "ERESTARTSYS"}]
      BY <2>2 DEF TypeOK, CallerTypeOK, Where
    <3>4. CallerTypeOK'
      BY <2>1, <3>2, <3>3 DEF TypeOK, CallerTypeOK, Where
    <3> QED
      BY <2>1, <3>1, <3>4 DEF TypeOK, HwTypeOK
  <2>4. (NoBug /\ RunIsHead /\ ReportIsTrue /\ ServicedIsHead /\ MaskIsDue)'
    BY <2>1 DEF NoBug, RunIsHead, InRun, Serving, ReportIsTrue, ServicedIsHead, Finishing, MaskIsDue, Due
  <2>5. HasDescriptors'
    BY <2>1 DEF HasDescriptors, Queued, TypeOK, CallerTypeOK, Where
  <2>6. CompletedWasMoved'
    BY <2>1 DEF CompletedWasMoved, TypeOK, EngineTypeOK
  <2> QED
    BY <2>3, <2>4, <2>5, <2>6 DEF FaultInv
<1>8. ASSUME HardwareProgress
      PROVE  FaultInv'
  <2> USE DEF xferVars, engineVars, hwVars, callerVars, irqVars, workVars
  <2>1. /\ active /\ count' = count + 1
        /\ UNCHANGED <<run, cur, wb, xferVars, engineVars, callerVars, irqVars, workVars>>
        /\ \/ /\ count + 1 < desc_num[cur]
              /\ UNCHANGED <<active, busy, events, moved>>
           \/ /\ count + 1 = desc_num[cur]
              /\ active' = FALSE
              /\ busy' \in BOOLEAN
              /\ events' = events \cup {"STOPPED", "COMPLETED"}
              /\ moved' = moved \cup {cur}
    BY <1>8, InterruptMode DEF HardwareProgress, HardwareMoves, HwDescriptor,
       HwLastDescriptor, HwReport, BusyAtReport
  <2>2. cur \in Xfer /\ desc_num[cur] \in 0..MaxDesc /\ count \in Nat
    BY <2>1, TailFacts DEF RunIsHead, InRun, Serving, TypeOK, EngineTypeOK, HwTypeOK
  <2>3. count' = count + 1 /\ count' <= desc_num[cur]
    <3>1. count + 1 < desc_num[cur] \/ count + 1 = desc_num[cur]
      BY <2>1
    <3>2. count' = count + 1
      BY <2>1
    <3> QED
      BY <2>2, <3>1, <3>2
  <2>4. TypeOK'
    <3>1. count' \in 0..MaxDesc
      BY <2>2, <2>3
    <3>2. HwTypeOK'
      <4>1. events' \subseteq Event /\ moved' \subseteq Xfer
        BY <2>1, <2>2 DEF TypeOK, HwTypeOK, Event
      <4>2. active' \in BOOLEAN /\ busy' \in BOOLEAN
        BY <2>1 DEF TypeOK, HwTypeOK
      <4> QED
        BY <2>1, <3>1, <4>1, <4>2 DEF TypeOK, HwTypeOK
    <3> QED
      BY <2>1, <3>2 DEF TypeOK, EngineTypeOK, CallerTypeOK, Where
  <2>5. InRun /\ ~Serving /\ events = {}
    BY <2>1 DEF InRun, ReportIsTrue
  <2>6. RunIsHead'
    BY <2>1, <2>3, <2>5 DEF RunIsHead
  <2>7. ReportIsTrue'
    <3>1. cur' = cur /\ desc_num' = desc_num /\ ~Serving'
      BY <2>1, <2>5 DEF Serving
    <3>2. CASE count + 1 < desc_num[cur] /\ UNCHANGED <<active, busy, events, moved>>
      BY <2>2, <2>3, <2>5, <3>1, <3>2 DEF ReportIsTrue
    <3>3. CASE /\ count + 1 = desc_num[cur]
               /\ active' = FALSE
               /\ moved' = moved \cup {cur}
      BY <2>5, <3>1, <3>3 DEF ReportIsTrue
    <3> QED
      BY <2>1, <3>2, <3>3
  <2>8. NoBug' /\ ServicedIsHead' /\ MaskIsDue'
    BY <2>1, <2>5 DEF NoBug, ServicedIsHead, Finishing, MaskIsDue, Due
  <2>9. HasDescriptors' /\ CompletedWasMoved'
    BY <2>1 DEF HasDescriptors, Queued, CompletedWasMoved
  <2> QED
    BY <2>4, <2>6, <2>7, <2>8, <2>9 DEF FaultInv
<1>9. ASSUME HardwareFault
      PROVE  FaultInv'
  <2> USE DEF xferVars, engineVars, hwVars, callerVars, irqVars, workVars
  <2>1. /\ active /\ active' = FALSE
        /\ busy' \in BOOLEAN
        /\ events' = events \cup {"ERROR"}
        /\ UNCHANGED <<run, cur, count, wb, moved, xferVars, engineVars, callerVars, irqVars, workVars>>
    BY <1>9, InterruptMode DEF HardwareFault, HwError, BusyAtReport
  <2>2. TypeOK'
    <3>1. HwTypeOK'
      BY <2>1 DEF TypeOK, HwTypeOK, Event
    <3> QED
      BY <2>1, <3>1 DEF TypeOK, EngineTypeOK, CallerTypeOK, Where
  <2>3. RunIsHead' /\ ReportIsTrue'
    BY <2>1 DEF RunIsHead, InRun, Serving, ReportIsTrue
  <2>4. NoBug' /\ ServicedIsHead' /\ MaskIsDue'
    BY <2>1 DEF NoBug, ServicedIsHead, Finishing, MaskIsDue, Due, ReportIsTrue
  <2>5. HasDescriptors' /\ CompletedWasMoved'
    BY <2>1 DEF HasDescriptors, Queued, CompletedWasMoved
  <2> QED
    BY <2>2, <2>3, <2>4, <2>5 DEF FaultInv
<1>10. ASSUME HardwareIdle
      PROVE  FaultInv'
  <2> USE DEF xferVars, engineVars, hwVars, callerVars, irqVars, workVars
  <2>1. /\ busy' = FALSE
        /\ UNCHANGED <<run, active, cur, count, events, wb, moved,
                       xferVars, engineVars, callerVars, irqVars, workVars>>
    BY <1>10 DEF HardwareIdle, HwIdle
  <2>2. TypeOK'
    <3>1. HwTypeOK'
      BY <2>1 DEF TypeOK, HwTypeOK
    <3> QED
      BY <2>1, <3>1 DEF TypeOK, EngineTypeOK, CallerTypeOK, Where
  <2>3. (NoBug /\ RunIsHead /\ ReportIsTrue /\ ServicedIsHead /\ MaskIsDue)'
    BY <2>1 DEF NoBug, RunIsHead, InRun, Serving, ReportIsTrue, ServicedIsHead, Finishing, MaskIsDue, Due
  <2>4. HasDescriptors' /\ CompletedWasMoved'
    BY <2>1 DEF HasDescriptors, Queued, CompletedWasMoved
  <2> QED
    BY <2>2, <2>3, <2>4 DEF FaultInv
<1>11. ASSUME Handler
      PROVE  FaultInv'
  <2> USE DEF xferVars, engineVars, hwVars, callerVars, irqVars, workVars
  <2>1. /\ InterruptRaised
        /\ work_pending'
        /\ \/ /\ ~msix_enabled
              /\ channel_enabled' = FALSE
              /\ UNCHANGED <<enable_mask, saved_mask>>
           \/ /\ msix_enabled
              /\ saved_mask' = enable_mask
              /\ enable_mask' = FALSE
              /\ UNCHANGED channel_enabled
        /\ UNCHANGED <<xferVars, engineVars, hwVars, callerVars, work_pc, msix_enabled>>
    BY <1>11 DEF Handler, Isr, ChannelIrq
  <2>2. events # {} /\ channel_enabled /\ enable_mask
    BY <2>1 DEF InterruptRaised
  <2>3. work_pending' = TRUE
    BY <1>11 DEF Handler, Isr, ChannelIrq
  <2>4. TypeOK'
    <3>1. EngineTypeOK' /\ HwTypeOK' /\ CallerTypeOK'
      BY <2>1 DEF TypeOK, EngineTypeOK, HwTypeOK, CallerTypeOK, Where
    <3>2. channel_enabled' \in BOOLEAN /\ enable_mask' \in BOOLEAN /\ saved_mask' \in BOOLEAN
      BY <2>1 DEF TypeOK
    <3> QED
      BY <2>1, <2>3, <3>1, <3>2 DEF TypeOK
  <2>5. (NoBug /\ RunIsHead /\ ReportIsTrue /\ ServicedIsHead)'
    BY <2>1 DEF NoBug, RunIsHead, InRun, Serving, ReportIsTrue, ServicedIsHead, Finishing
  <2>6. MaskIsDue'
    <3>1. ~Due /\ work_pc = "idle"
      BY <2>2 DEF MaskIsDue, Due
    <3> QED
      BY <2>1, <2>2, <2>3, <3>1 DEF MaskIsDue, Due
  <2>7. HasDescriptors' /\ CompletedWasMoved'
    BY <2>1 DEF HasDescriptors, Queued, CompletedWasMoved
  <2> QED
    BY <2>4, <2>5, <2>6, <2>7 DEF FaultInv
<1>12. ASSUME WorkBegin
      PROVE  FaultInv'
  <2> USE DEF xferVars, engineVars, hwVars, callerVars, irqVars, workVars
  <2>1. /\ work_pc = "idle" /\ work_pc' = "service"
        /\ locked' = TRUE
        /\ work_pending' = FALSE
        /\ events' = {}
        /\ UNCHANGED <<xferVars, transfer_list, running, desc_dequeued, serviced, bug, run, active, busy,
                       cur, count, wb, moved, callerVars, irqVars>>
    BY <1>12 DEF WorkBegin, StatusReadClear
  <2>2. status' \in {events, events \cup {"BUSY"}}
    BY <1>12 DEF WorkBegin, StatusReadClear
  <2>3. TypeOK'
    <3>1. EngineTypeOK'
      <4>1. status' \subseteq Event \cup {"BUSY"}
        BY <2>2 DEF TypeOK, HwTypeOK
      <4> QED
        BY <2>1, <4>1 DEF TypeOK, EngineTypeOK
    <3>2. HwTypeOK'
      BY <2>1 DEF TypeOK, HwTypeOK
    <3>3. CallerTypeOK'
      BY <2>1 DEF TypeOK, CallerTypeOK, Where
    <3> QED
      BY <2>1, <3>1, <3>2, <3>3 DEF TypeOK
  <2>4. work_pending /\ events # {}
    BY <1>12 DEF WorkBegin, MaskIsDue
  <2>5. InRun /\ ~active
    BY <2>4 DEF InRun, ReportIsTrue
  <2>6. (NoBug /\ RunIsHead /\ ReportIsTrue /\ ServicedIsHead)'
    <3>1. NoBug'
      BY <2>1 DEF NoBug
    <3>2. RunIsHead'
      BY <2>1, <2>5 DEF RunIsHead, InRun, Serving
    <3>3. ReportIsTrue' /\ ServicedIsHead'
      BY <2>1, <2>5 DEF ReportIsTrue, ServicedIsHead, Finishing, InRun, Serving
    <3> QED
      BY <3>1, <3>2, <3>3
  <2>7. MaskIsDue'
    BY <2>1, <2>4 DEF MaskIsDue, Due
  <2>8. HasDescriptors'
    BY <2>1 DEF HasDescriptors, Queued
  <2>9. CompletedWasMoved'
    BY <2>1 DEF CompletedWasMoved
  <2> QED
    BY <2>3, <2>6, <2>7, <2>8, <2>9 DEF FaultInv
<1>13. ASSUME WorkMark
      PROVE  FaultInv'
  <2> DEFINE h == Head(transfer_list)
  <2> USE DEF xferVars, engineVars, hwVars, callerVars, irqVars, workVars
  <2>1. /\ work_pc = "inspect" /\ work_pc' \in {"unlink", "resume"}
        /\ MarkFailed \/ MarkDone
        /\ run' \in BOOLEAN
        /\ UNCHANGED <<transfer_list, desc_dequeued, bug, desc_num, running, status, locked,
                       active, busy, cur, count, events, wb, moved, pc, mine, chunks, rc,
                       result, irqVars, work_pending>>
    BY <1>13, MarkEffect
  <2>2. /\ transfer_list # << >> /\ cur = h
        /\ count <= desc_num[h]
        /\ ~active /\ events = {}
        /\ count = desc_num[h] => h \in moved
    BY <2>1 DEF RunIsHead, InRun, Serving, ReportIsTrue
  <2>3. h \in Xfer /\ desc_num[h] \in Nat /\ count \in Nat
    BY <2>2, TailFacts DEF TypeOK, EngineTypeOK, HwTypeOK
  <2>4. \/ /\ xstate' = [xstate EXCEPT ![h] = "FAILED"]
           /\ serviced' \in Xfer \cup {NoXfer}
        \/ /\ h \in moved
           /\ xstate' = [xstate EXCEPT ![h] = "COMPLETED"]
           /\ serviced' \in Xfer \cup {NoXfer}
    <3>1. CASE MarkFailed
      BY <3>1 DEF MarkFailed
    <3>2. CASE MarkDone /\ count < desc_num[h]
      BY <2>3, <3>2 DEF MarkDone
    <3>3. CASE MarkDone /\ ~(count < desc_num[h])
      <4>1. count = desc_num[h]
        BY <2>2, <2>3, <3>3
      <4> QED
        BY <2>2, <2>3, <3>3, <4>1 DEF MarkDone
    <3> QED
      BY <2>1, <3>1, <3>2, <3>3
  <2>5. TypeOK'
    <3>1. EngineTypeOK'
      BY <2>1, <2>4 DEF TypeOK, EngineTypeOK, XferState
    <3>2. HwTypeOK'
      BY <2>1 DEF TypeOK, HwTypeOK
    <3>3. CallerTypeOK'
      BY <2>1 DEF TypeOK, CallerTypeOK
    <3> QED
      BY <2>1, <3>1, <3>2, <3>3 DEF TypeOK
  <2>6. RunIsHead' /\ ReportIsTrue'
    BY <2>1, <2>2 DEF RunIsHead, InRun, Serving, ReportIsTrue
  <2>7. ServicedIsHead'
    <3>1. Finishing' /\ (work_pc' = "unlink" => serviced' = h)
      BY <2>1 DEF Finishing, MarkFailed, MarkDone
    <3> QED
      BY <2>1, <2>2, <3>1 DEF ServicedIsHead
  <2>8. NoBug' /\ MaskIsDue'
    BY <2>1 DEF NoBug, MaskIsDue, Due
  <2>9. HasDescriptors'
    BY <2>1 DEF HasDescriptors, Queued
  <2>10. CompletedWasMoved'
    BY <2>1, <2>4 DEF CompletedWasMoved, TypeOK, EngineTypeOK
  <2> QED
    BY <2>5, <2>6, <2>7, <2>8, <2>9, <2>10 DEF FaultInv
<1>18. ASSUME WorkUnlink
      PROVE  FaultInv'
  <2> USE DEF xferVars, engineVars, hwVars, callerVars, irqVars, workVars
  <2>1. /\ work_pc = "unlink" /\ work_pc' = "resume"
        /\ transfer_list' = Tail(transfer_list)
        /\ desc_dequeued' = desc_dequeued + desc_num[serviced]
        /\ UNCHANGED <<xferVars, running, status, locked, serviced, bug, hwVars, callerVars,
                       irqVars, work_pending>>
    BY <1>18 DEF WorkUnlink, ServiceUnlink
  <2>2. /\ transfer_list # << >> /\ serviced = Head(transfer_list)
        /\ ~active /\ events = {}
    BY <2>1 DEF ServicedIsHead, Finishing
  <2>3. /\ serviced \in Xfer
        /\ Tail(transfer_list) \in Seq(Xfer)
        /\ Elems(Tail(transfer_list)) \subseteq Elems(transfer_list)
    BY <2>2, TailFacts DEF TypeOK, EngineTypeOK
  <2>4. Queued' \subseteq Queued
    BY <2>1, <2>3, QueuedIsElems
  <2>5. TypeOK'
    <3>1. desc_dequeued' \in Nat
      BY <2>1, <2>3 DEF TypeOK, EngineTypeOK
    <3>2. EngineTypeOK'
      BY <2>1, <2>3, <3>1 DEF TypeOK, EngineTypeOK
    <3> QED
      BY <2>1, <3>2 DEF TypeOK, HwTypeOK, CallerTypeOK
  <2>6. (NoBug /\ RunIsHead /\ ReportIsTrue /\ ServicedIsHead /\ MaskIsDue)'
    BY <2>1, <2>2 DEF NoBug, RunIsHead, InRun, Serving, ReportIsTrue, ServicedIsHead, Finishing, MaskIsDue, Due
  <2>7. HasDescriptors'
    BY <2>1, <2>4 DEF HasDescriptors
  <2>8. CompletedWasMoved'
    BY <2>1 DEF CompletedWasMoved
  <2> QED
    BY <2>5, <2>6, <2>7, <2>8 DEF FaultInv
<1>19. ASSUME WorkResume
      PROVE  FaultInv'
  <2> DEFINE h == Head(transfer_list)
  <2> USE DEF xferVars, engineVars, hwVars, callerVars, irqVars, workVars
  <2>1. /\ work_pc = "resume" /\ work_pc' = "reenable"
        /\ Wake({serviced})
        /\ EngineServiceResume
        /\ UNCHANGED <<xferVars, transfer_list, status, locked, bug, events, wb, moved, mine,
                       chunks, rc, result, irqVars, work_pending>>
    BY <1>19 DEF WorkResume
  <2>2. serviced' = NoXfer /\ (Restarts \/ LeftAsItIs)
    BY <2>1, ResumeEffect
  <2>3. ~active /\ events = {}
    BY <2>1 DEF ServicedIsHead, Finishing
  <2>4. transfer_list # << >> => h \in Xfer /\ desc_num[h] \in Nat /\ desc_num[h] > 0
    <3>1. transfer_list # << >> => h \in Xfer /\ h \in Queued
      BY TailFacts, QueuedIsElems DEF TypeOK, EngineTypeOK
    <3> QED
      BY <3>1 DEF HasDescriptors, TypeOK, EngineTypeOK
  <2>5. pc' \in [Caller -> Where] /\ \A c \in Caller : pc'[c] = "queue" => pc[c] = "queue"
    BY <2>1, WakeEffect
  <2>6. TypeOK'
    <3>1. /\ running' \in BOOLEAN /\ desc_dequeued' \in Nat
          /\ run' \in BOOLEAN /\ active' \in BOOLEAN /\ busy' \in BOOLEAN
          /\ cur' \in Xfer \cup {NoXfer} /\ count' \in 0..MaxDesc
      <4>1. CASE Restarts
        BY <2>4, <4>1 DEF Restarts, EngineStart
      <4>2. CASE LeftAsItIs
        BY <4>2 DEF LeftAsItIs, TypeOK, EngineTypeOK, HwTypeOK
      <4> QED
        BY <2>2, <4>1, <4>2
    <3>2. EngineTypeOK'
      BY <2>1, <2>2, <3>1 DEF TypeOK, EngineTypeOK
    <3>3. HwTypeOK'
      BY <2>1, <3>1 DEF TypeOK, HwTypeOK
    <3>4. CallerTypeOK'
      BY <2>1, <2>5 DEF TypeOK, CallerTypeOK
    <3> QED
      BY <2>1, <3>2, <3>3, <3>4 DEF TypeOK
  <2>7. RunIsHead' /\ ReportIsTrue'
    <3>1. CASE Restarts
      BY <2>1, <2>3, <2>4, <3>1 DEF Restarts, RunIsHead, InRun, Serving, ReportIsTrue, EngineStart
    <3>2. CASE LeftAsItIs
      BY <2>1, <2>3, <3>2 DEF LeftAsItIs, RunIsHead, InRun, Serving, ReportIsTrue
    <3> QED
      BY <2>2, <3>1, <3>2
  <2>8. NoBug' /\ ServicedIsHead' /\ MaskIsDue'
    BY <2>1, <2>2 DEF NoBug, ServicedIsHead, Finishing, MaskIsDue, Due
  <2>9. HasDescriptors'
    BY <2>1, <2>5 DEF HasDescriptors, Queued
  <2>10. CompletedWasMoved'
    BY <2>1 DEF CompletedWasMoved
  <2> QED
    BY <2>6, <2>7, <2>8, <2>9, <2>10 DEF FaultInv
<1>14. ASSUME WorkReenable
      PROVE  FaultInv'
  <2> USE DEF xferVars, engineVars, hwVars, callerVars, irqVars, workVars
  <2>1. /\ work_pc = "reenable" /\ work_pc' = "idle"
        /\ locked' = FALSE
        /\ UNCHANGED <<xferVars, transfer_list, running, desc_dequeued, status, serviced, bug,
                       hwVars, callerVars, msix_enabled, saved_mask, work_pending>>
    BY <1>14 DEF WorkReenable
  <2>2. \/ enable_mask' = (enable_mask \/ saved_mask) /\ UNCHANGED channel_enabled
        \/ channel_enabled' = TRUE /\ UNCHANGED enable_mask
    BY <1>14 DEF WorkReenable
  <2>3. TypeOK'
    <3>1. enable_mask' \in BOOLEAN /\ channel_enabled' \in BOOLEAN
      BY <2>2 DEF TypeOK
    <3>2. EngineTypeOK' /\ HwTypeOK'
      BY <2>1 DEF TypeOK, EngineTypeOK, HwTypeOK
    <3>3. CallerTypeOK'
      BY <2>1 DEF TypeOK, CallerTypeOK, Where
    <3> QED
      BY <2>1, <3>1, <3>2, <3>3 DEF TypeOK
  <2>4. (NoBug /\ RunIsHead /\ ReportIsTrue /\ ServicedIsHead)'
    BY <2>1 DEF NoBug, RunIsHead, InRun, Serving, ReportIsTrue, ServicedIsHead, Finishing
  <2>5. MaskIsDue'
    BY <1>14 DEF WorkReenable, MaskIsDue, Due
  <2>6. HasDescriptors'
    BY <2>1 DEF HasDescriptors, Queued
  <2>7. CompletedWasMoved'
    BY <2>1 DEF CompletedWasMoved
  <2> QED
    BY <2>3, <2>4, <2>5, <2>6, <2>7 DEF FaultInv
<1>16. ASSUME NEW c \in Caller, CallerRereads(c)
      PROVE  FaultInv'
  <2> USE DEF xferVars, engineVars, hwVars, callerVars, irqVars, workVars
  <2>1. /\ status' \subseteq events \cup {"BUSY"}
        /\ pc' = [pc EXCEPT ![c] = "idle"]
        /\ result' = [result EXCEPT ![c] = "ERESTARTSYS"]
        /\ UNCHANGED <<xferVars, transfer_list, running, desc_dequeued, locked, serviced, bug,
                       hwVars, mine, chunks, rc, irqVars, workVars>>
    BY <1>16 DEF CallerRereads, StatusReread
  <2>2. TypeOK'
    BY <2>1 DEF TypeOK, EngineTypeOK, HwTypeOK, CallerTypeOK, Where, XferState, Event
  <2>3. (NoBug /\ RunIsHead /\ ReportIsTrue /\ ServicedIsHead /\ MaskIsDue)'
    BY <2>1 DEF NoBug, RunIsHead, InRun, Serving, ReportIsTrue, ServicedIsHead, Finishing, MaskIsDue, Due
  <2>4. HasDescriptors' /\ CompletedWasMoved'
    BY <2>1 DEF HasDescriptors, Queued, CompletedWasMoved, TypeOK, CallerTypeOK, Where
  <2> QED
    BY <2>2, <2>3, <2>4 DEF FaultInv
<1>17. ASSUME WorkShutdown
      PROVE  FaultInv'
  <2> USE DEF xferVars, engineVars, hwVars, callerVars, irqVars, workVars
  <2>1. /\ work_pc = "service"
        /\ running /\ work_pc' = "inspect"
        /\ running' \in BOOLEAN /\ run' \in BOOLEAN
        /\ UNCHANGED <<xferVars, transfer_list, desc_dequeued, status, locked, serviced, bug, active,
                       busy, cur, count, events, wb, moved, callerVars, irqVars, work_pending>>
    BY <1>17 DEF WorkShutdown, EngineServiceShutdown, RunIsHead, InRun, Serving,
       TypeOK, EngineTypeOK, HwTypeOK
  <2>2. TypeOK'
    BY <2>1 DEF TypeOK, EngineTypeOK, HwTypeOK, CallerTypeOK, Where
  <2>3. (NoBug /\ RunIsHead /\ ReportIsTrue /\ ServicedIsHead /\ MaskIsDue)'
    BY <2>1 DEF NoBug, RunIsHead, InRun, Serving, ReportIsTrue, ServicedIsHead, Finishing, MaskIsDue, Due
  <2>4. HasDescriptors' /\ CompletedWasMoved'
    BY <2>1 DEF HasDescriptors, Queued, CompletedWasMoved
  <2> QED
    BY <2>2, <2>3, <2>4 DEF FaultInv
<1>15. CASE UNCHANGED vars
  BY <1>15 DEF vars, xferVars, engineVars, hwVars, callerVars, irqVars, workVars, TypeOK, EngineTypeOK, HwTypeOK, CallerTypeOK, Where, XferState, Event, NoBug, RunIsHead, InRun, Serving, ReportIsTrue, ServicedIsHead, Finishing, MaskIsDue, Due, HasDescriptors, Queued, CompletedWasMoved
<1> QED
  BY <1>1, <1>2, <1>3, <1>4, <1>5, <1>6, <1>7, <1>8, <1>9, <1>10, <1>11, <1>12, <1>13, <1>14, <1>15, <1>16, <1>17,
     <1>18, <1>19 DEF Next, CallerStep, Work

-----------------------------------------------------------------------------
LEMMA FaultInvHolds == Spec => []FaultInv
<1>1. FaultInv /\ [Next]_vars => FaultInv'
  BY FaultInvNext
<1> QED
  BY FaultInvInit, <1>1, PTL DEF Spec

(* Every variable keeps to its range: no counter leaves its bounds and the  *)
(* transfer queue never holds the null pointer.                             *)
THEOREM TypeCorrect == Spec => []TypeOK
<1>1. FaultInv => TypeOK
  BY DEF FaultInv
<1> QED
  BY FaultInvHolds, <1>1, PTL

(* No BUG_ON() of the service routines is ever hit, whatever the hardware   *)
(* reports and however the callers are interrupted.                         *)
THEOREM NoBugEver == Spec => []NoBug
<1>1. FaultInv => NoBug
  BY DEF FaultInv
<1> QED
  BY FaultInvHolds, <1>1, PTL

(* A transfer marked completed was moved in full by the hardware.           *)
THEOREM CompletedIsMoved == Spec => []CompletedWasMoved
<1>1. FaultInv => CompletedWasMoved
  BY DEF FaultInv
<1> QED
  BY FaultInvHolds, <1>1, PTL

(* One run of the hardware never reports more descriptors than its transfer *)
(* has, so engine_service_transfer_list() has nothing to take off.          *)
THEOREM OneTransferEachRun == Spec => []OneTransferPerRun
<1>1. FaultInv => OneTransferPerRun
  <2> SUFFICES ASSUME FaultInv, work_pc = "inspect", transfer_list # << >>
               PROVE  count - desc_dequeued <= desc_num[Head(transfer_list)]
    BY DEF OneTransferPerRun
  <2>1. /\ desc_dequeued = 0
        /\ count <= desc_num[Head(transfer_list)]
        /\ count \in 0..MaxDesc
    BY DEF FaultInv, RunIsHead, InRun, Serving, TypeOK, HwTypeOK
  <2> QED
    BY <2>1
<1> QED
  BY FaultInvHolds, <1>1, PTL

(* Whenever the channel interrupt is masked, the work that unmasks it is    *)
(* scheduled or running.                                                    *)
THEOREM InterruptNeverLost == Spec => []InterruptNotLost
<1>1. FaultInv => InterruptNotLost
  BY DEF FaultInv, MaskIsDue, Due, InterruptNotLost
<1> QED
  BY FaultInvHolds, <1>1, PTL

-----------------------------------------------------------------------------
(* Hardware that is not as bad as it can be.                                *)
NoLateBusy == "busy" \notin Faults
NoErrors == "error" \notin Faults

-----------------------------------------------------------------------------
(* Hardware that clears BUSY in time, and may report errors.                *)

(* A queue that is not empty has a run, and the engine is marked running    *)
(* exactly while it has one, but for the time between the shutdown and the  *)
(* restart.                                                                 *)
Between == work_pc = "inspect" \/ Finishing
QueueHasRun ==
  /\ transfer_list # << >> => InRun \/ Finishing
  /\ running <=> transfer_list # << >> /\ ~Between

(* A run that was reported is over.                                         *)
BusyIsActive == (busy => active) /\ (Serving => "BUSY" \notin status)

PromptInv == FaultInv /\ QueueHasRun /\ BusyIsActive

LEMMA PromptInvInit == Init => PromptInv
<1> SUFFICES ASSUME Init PROVE PromptInv
  OBVIOUS
<1>1. FaultInv
  BY FaultInvInit
<1>2. QueueHasRun /\ BusyIsActive
  BY DEF Init, EngineInit, HwInit, CallerInit, QueueHasRun, Between, Finishing, BusyIsActive, InRun, Serving
<1> QED
  BY <1>1, <1>2 DEF PromptInv

LEMMA PromptInvNext ==
  ASSUME NoLateBusy, PromptInv, [Next]_vars
  PROVE  PromptInv'
<1> USE DEF PromptInv, xferVars, engineVars, hwVars, callerVars, irqVars, workVars
<1>0. FaultInv'
  BY FaultInvNext
<1>1. ASSUME NEW c \in Caller,
             \/ CallerRequest(c) \/ CallerCreate(c) \/ CallerCreateFails(c) \/ WaitEvent(c)
             \/ Signal(c) \/ CallerEnds(c) \/ CallerRereads(c)
      PROVE  PromptInv'
  <2>1. UNCHANGED <<transfer_list, running, active, busy, events, work_pc>>
    BY <1>1 DEF CallerRequest, Request, CallerCreate, TransferCreate, CallerCreateFails,
       TransferCreateFails, WaitEvent, Signal, CallerEnds, AfterMonitor, CallerRereads, StatusReread
  <2>2. QueueHasRun'
    BY <2>1 DEF QueueHasRun, Between, Finishing, InRun, Serving
  <2>3. CASE status' = status
    BY <1>0, <2>1, <2>2, <2>3 DEF BusyIsActive, Serving
  <2>4. CASE CallerRereads(c)
    <3>1. status' = events \cup (IF busy THEN {"BUSY"} ELSE {})
      BY <2>4 DEF CallerRereads, StatusReread
    <3>2. Serving => ~busy /\ events = {}
      BY DEF FaultInv, ReportIsTrue, BusyIsActive
    <3> QED
      BY <1>0, <2>1, <2>2, <3>1, <3>2 DEF BusyIsActive, Serving
  <2> QED
    BY <1>1, <2>3, <2>4 DEF CallerRequest, Request, CallerCreate, TransferCreate, CallerCreateFails,
       TransferCreateFails, WaitEvent, Signal, CallerEnds, AfterMonitor
<1>2. ASSUME NEW c \in Caller, CallerSubmit(c)
      PROVE  PromptInv'
  <2> DEFINE x == mine[c]
  <2>1. /\ ~locked
        /\ transfer_list' = Append(transfer_list, x)
        /\ UNCHANGED <<status, events, work_pc>>
        /\ IF running
           THEN UNCHANGED <<running, active, busy>>
           ELSE EngineStart(Head(transfer_list'))
    BY <1>2 DEF CallerSubmit, Submit, TransferQueue
  <2>2. transfer_list' # << >>
    <3>1. x \in Xfer /\ transfer_list \in Seq(Xfer)
      BY <1>2 DEF CallerSubmit, Submit, FaultInv, HasDescriptors, TypeOK, EngineTypeOK
    <3> QED
      BY <2>1, <3>1, AppendFacts
  <2>3. work_pc = "idle"
    BY <2>1 DEF FaultInv, MaskIsDue
  <2>4. CASE running
    BY <1>0, <2>1, <2>2, <2>3, <2>4 DEF QueueHasRun, Between, Finishing, BusyIsActive, InRun, Serving
  <2>5. CASE ~running
    BY <1>0, <2>1, <2>2, <2>3, <2>5 DEF QueueHasRun, Between, Finishing, BusyIsActive, InRun, Serving, EngineStart
  <2> QED
    BY <2>4, <2>5
<1>3. ASSUME HardwareProgress \/ HardwareFault
      PROVE  PromptInv'
  <2>1. /\ active
        /\ UNCHANGED <<transfer_list, running, status, work_pc>>
        /\ \/ UNCHANGED <<active, busy, events>>
           \/ ~active' /\ ~busy' /\ events' # {}
    BY <1>3, InterruptMode DEF InterruptMode, NoLateBusy, HardwareProgress, HardwareMoves, HwDescriptor,
       HwLastDescriptor, HardwareFault, HwError, HwReport, BusyAtReport
  <2> QED
    BY <1>0, <2>1 DEF QueueHasRun, Between, Finishing, BusyIsActive, InRun, Serving, FaultInv, RunIsHead
<1>4. ~HardwareIdle
  BY DEF HardwareIdle, HwIdle, BusyIsActive
<1>5. ASSUME Handler
      PROVE  PromptInv'
  <2>1. UNCHANGED <<transfer_list, running, status, active, busy, events, work_pc>>
    BY <1>5 DEF Handler, Isr, ChannelIrq
  <2> QED
    BY <1>0, <2>1 DEF QueueHasRun, Between, Finishing, BusyIsActive, InRun, Serving
<1>6. ASSUME WorkBegin
      PROVE  PromptInv'
  <2>1. /\ work_pending /\ work_pc = "idle" /\ work_pc' = "service"
        /\ status' = events \cup (IF busy THEN {"BUSY"} ELSE {})
        /\ UNCHANGED <<transfer_list, running, active, busy>>
    BY <1>6 DEF WorkBegin, StatusReadClear
  <2>2. /\ events # {} /\ ~active /\ ~busy
        /\ "BUSY" \notin events
    BY <2>1 DEF FaultInv, MaskIsDue, ReportIsTrue, BusyIsActive, TypeOK, HwTypeOK, Event
  <2> QED
    BY <1>0, <2>1, <2>2 DEF QueueHasRun, Between, Finishing, BusyIsActive, InRun, Serving
<1>7. ASSUME WorkShutdown
      PROVE  PromptInv'
  <2>1. /\ work_pc = "service" /\ work_pc' = "inspect" /\ ~running'
        /\ UNCHANGED <<transfer_list, status, active, busy>>
    BY <1>7 DEF WorkShutdown, EngineServiceShutdown, BusyIsActive, FaultInv, RunIsHead, InRun, Serving
  <2> QED
    BY <1>0, <2>1 DEF QueueHasRun, Between, Finishing, BusyIsActive, InRun, Serving
<1>8. ASSUME WorkMark
      PROVE  PromptInv'
  <2>1. /\ work_pc = "inspect" /\ work_pc' \in {"unlink", "resume"}
        /\ UNCHANGED <<transfer_list, running, status, active, busy, events>>
    BY <1>8, MarkEffect DEF FaultInv
  <2> QED
    BY <1>0, <2>1 DEF QueueHasRun, Between, Finishing, BusyIsActive, InRun, Serving
<1>11. ASSUME WorkUnlink
      PROVE  PromptInv'
  <2>1. /\ work_pc = "unlink" /\ work_pc' = "resume"
        /\ UNCHANGED <<running, status, active, busy, events>>
    BY <1>11 DEF WorkUnlink
  <2> QED
    BY <1>0, <2>1 DEF QueueHasRun, Between, Finishing, BusyIsActive, InRun, Serving
<1>12. ASSUME WorkResume
      PROVE  PromptInv'
  <2>1. /\ work_pc = "resume" /\ work_pc' = "reenable"
        /\ ~running /\ ~active /\ ~busy
        /\ EngineServiceResume
        /\ UNCHANGED <<transfer_list, status, events>>
    BY <1>12 DEF WorkResume, QueueHasRun, Between, Finishing, BusyIsActive, FaultInv, ServicedIsHead
  <2>2. CASE transfer_list # << >>
    <3>1. active' /\ running'
      BY <2>1, <2>2 DEF EngineServiceResume, EngineStart
    <3> QED
      BY <1>0, <2>1, <2>2, <3>1 DEF QueueHasRun, Between, Finishing, BusyIsActive, InRun, Serving
  <2>3. CASE transfer_list = << >>
    <3>1. ~running' /\ ~active' /\ ~busy'
      BY <2>1, <2>3 DEF EngineServiceResume
    <3> QED
      BY <1>0, <2>1, <2>3, <3>1 DEF QueueHasRun, Between, Finishing, BusyIsActive, InRun, Serving
  <2> QED
    BY <2>2, <2>3
<1>9. ASSUME WorkReenable
      PROVE  PromptInv'
  <2>1. /\ work_pc = "reenable" /\ work_pc' = "idle"
        /\ UNCHANGED <<transfer_list, running, status, active, busy, events>>
    BY <1>9 DEF WorkReenable
  <2> QED
    BY <1>0, <2>1 DEF QueueHasRun, Between, Finishing, BusyIsActive, InRun, Serving
<1>10. CASE UNCHANGED vars
  BY <1>0, <1>10 DEF vars, QueueHasRun, Between, Finishing, BusyIsActive, InRun, Serving
<1> QED
  BY <1>1, <1>2, <1>3, <1>4, <1>5, <1>6, <1>7, <1>8, <1>9, <1>10, <1>11, <1>12 DEF Next, CallerStep, Work

(* No transfer is left behind on an engine that is idle, even if transfers  *)
(* fail.                                                                    *)
THEOREM QueueAlwaysServed == ASSUME NoLateBusy PROVE Spec => []QueueIsServed
<1>1. PromptInv /\ [Next]_vars => PromptInv'
  BY PromptInvNext
<1>2. PromptInv => QueueIsServed
  BY DEF PromptInv, QueueHasRun, Finishing, InRun, Serving, QueueIsServed
<1> QED
  BY PromptInvInit, <1>1, <1>2, PTL DEF Spec

-----------------------------------------------------------------------------
(* Hardware that reports no error, and may clear BUSY late.                 *)

(* An engine that is not running has no transfers, but for the time between *)
(* the shutdown and the restart.                                            *)
IdleIsEmpty == ~running => transfer_list = << >> \/ Between

(* A run that was reported ended without errors and completely.             *)
ReportIsFinal ==
  /\ "ERROR" \notin events
  /\ Serving => "ERROR" \notin status
  /\ InRun /\ ~active => count = desc_num[cur]

(* Nothing is queued twice, the queue holds what is submitted and, until it *)
(* is taken off, the serviced transfer, which is completed.  Its caller may *)
(* have freed it.                                                           *)
QueuedOnce ==
  /\ Distinct(transfer_list)
  /\ \A x \in Xfer :
       x \in Queued <=> (xstate[x] = "SUBMITTED" \/ (work_pc = "unlink" /\ x = serviced))
  /\ Finishing => serviced \in Xfer /\ xstate[serviced] \in {"COMPLETED", "FREE"}

(* Of the queued transfers only the first can have been moved, when its run *)
(* is over and it was not taken off; one that is not queued yet was not     *)
(* moved.                                                                   *)
MovedIsHead ==
  /\ \A x \in Queued \cap moved : x = Head(transfer_list) /\ ~active
  /\ work_pc = "resume" => Queued \cap moved = {}
  /\ \A x \in Xfer : xstate[x] = "NEW" => x \notin moved

(* A caller's transfer is its own, and is where the caller thinks it is.    *)
Owned ==
  /\ \A c, d \in Caller : mine[c] # NoXfer /\ mine[c] = mine[d] => c = d
  /\ \A c \in Caller :
       /\ pc[c] \notin {"queue", "wait", "sleep", "ended"} => mine[c] = NoXfer
       /\ pc[c] = "queue" => mine[c] \in Xfer /\ xstate[mine[c]] = "NEW"
       /\ pc[c] \in {"wait", "sleep", "ended"} =>
            mine[c] \in Xfer /\ xstate[mine[c]] \in {"SUBMITTED", "COMPLETED"}
       /\ pc[c] = "sleep" => xstate[mine[c]] = "SUBMITTED" \/ mine[c] = serviced

SoundInv ==
  /\ FaultInv
  /\ IdleIsEmpty
  /\ ReportIsFinal
  /\ QueuedOnce
  /\ MovedIsHead
  /\ Owned

-----------------------------------------------------------------------------
LEMMA SoundInvInit == Init => SoundInv
<1> SUFFICES ASSUME Init PROVE SoundInv
  OBVIOUS
<1> USE DEF Init, EngineInit, HwInit, CallerInit
<1>1. FaultInv
  BY FaultInvInit
<1>2. Queued = {}
  BY DEF Queued
<1>3. IdleIsEmpty /\ ReportIsFinal
  BY DEF IdleIsEmpty, Between, Finishing, ReportIsFinal, InRun, Serving
<1>4. QueuedOnce
  BY <1>2 DEF QueuedOnce, Finishing, Distinct
<1>5. MovedIsHead /\ Owned
  BY <1>2 DEF MovedIsHead, Owned
<1> QED
  BY <1>1, <1>3, <1>4, <1>5 DEF SoundInv

LEMMA SoundInvNext ==
  ASSUME NoErrors, SoundInv, [Next]_vars
  PROVE  SoundInv'
<1> USE EngineConstants DEF EngineConstants, SoundInv
<1> USE DEF xferVars, engineVars, hwVars, callerVars, irqVars, workVars
<1>0. FaultInv'
  BY FaultInvNext
<1>a. TypeOK /\ transfer_list \in Seq(Xfer) /\ Queued = Elems(transfer_list)
  BY QueuedIsElems DEF FaultInv, TypeOK, EngineTypeOK
<1>b. transfer_list # << >> => Head(transfer_list) \in Xfer /\ Head(transfer_list) \in Queued
  BY <1>a, TailFacts
<1>1. ASSUME NEW c \in Caller, CallerRequest(c)
     PROVE  SoundInv'
  <2> USE <1>1 DEF CallerRequest, Request
  <2>1. IdleIsEmpty' /\ ReportIsFinal'
    BY DEF IdleIsEmpty, Between, Finishing, ReportIsFinal, InRun, Serving
  <2>2. QueuedOnce' /\ MovedIsHead'
    BY DEF QueuedOnce, Finishing, MovedIsHead, Queued
  <2>3. Owned'
    BY <1>a DEF Owned, TypeOK, CallerTypeOK, Where
  <2> QED
    BY <1>0, <2>1, <2>2, <2>3 DEF SoundInv
<1>2. ASSUME NEW c \in Caller, CallerCreate(c), Alive
     PROVE  SoundInv'
  <2>1. PICK x \in Xfer, d \in 1..MaxDesc :
             /\ xstate[x] = "FREE"
             /\ xstate' = [xstate EXCEPT ![x] = "NEW"]
             /\ desc_num' = [desc_num EXCEPT ![x] = d]
             /\ moved' = moved \ {x}
             /\ mine' = [mine EXCEPT ![c] = x]
    BY <1>2 DEF CallerCreate, TransferCreate
  <2>2. /\ pc[c] = "create"
        /\ pc' = [pc EXCEPT ![c] = "queue"]
        /\ UNCHANGED <<engineVars, run, active, busy, cur, count, events, wb, chunks, rc, result, irqVars, workVars>>
    BY <1>2 DEF CallerCreate, TransferCreate
  <2>3. x \notin Queued /\ x # serviced /\ Queued' = Queued
    <3>1. x # NoXfer
      BY EngineConstants DEF EngineConstants
    <3> QED
      BY <1>2, <2>1, <2>2, <3>1 DEF Alive, FreedInUse, InUse, Queued
  <2>4. InRun => cur # x /\ cur \in Xfer
    BY <1>b, <2>3 DEF FaultInv, RunIsHead
  <2>5. IdleIsEmpty' /\ ReportIsFinal'
    BY <1>a, <2>1, <2>2, <2>4 DEF IdleIsEmpty, Between, Finishing, ReportIsFinal, InRun, Serving, TypeOK, EngineTypeOK
  <2>6. QueuedOnce' /\ MovedIsHead'
    BY <1>a, <2>1, <2>2, <2>3 DEF QueuedOnce, Finishing, MovedIsHead, TypeOK, EngineTypeOK
  <2>7. \A e \in Caller : mine[e] # x
    BY <2>1 DEF Owned
  <2>8. Owned'
    BY <1>a, <2>1, <2>2, <2>7 DEF Owned, TypeOK, EngineTypeOK, CallerTypeOK, Where
  <2> QED
    BY <1>0, <2>5, <2>6, <2>8 DEF SoundInv
<1>3. ASSUME NEW c \in Caller, CallerCreateFails(c)
     PROVE  SoundInv'
  <2> USE <1>3 DEF CallerCreateFails, TransferCreateFails
  <2>1. IdleIsEmpty' /\ ReportIsFinal'
    BY DEF IdleIsEmpty, Between, Finishing, ReportIsFinal, InRun, Serving
  <2>2. QueuedOnce' /\ MovedIsHead'
    BY DEF QueuedOnce, Finishing, MovedIsHead, Queued
  <2>3. Owned'
    BY <1>a DEF Owned, TypeOK, CallerTypeOK, Where
  <2> QED
    BY <1>0, <2>1, <2>2, <2>3 DEF SoundInv
<1>4. ASSUME NEW c \in Caller, CallerSubmit(c)
     PROVE  SoundInv'
  <2> DEFINE x == mine[c]
  <2>1. /\ pc[c] = "queue"
        /\ pc' = [pc EXCEPT ![c] = "wait"]
        /\ ~locked
        /\ xstate' = [xstate EXCEPT ![x] = "SUBMITTED"]
        /\ transfer_list' = Append(transfer_list, x)
        /\ UNCHANGED <<desc_num, status, locked, serviced, bug, events, wb, moved, mine, chunks, rc, result, irqVars, workVars>>
        /\ IF running
           THEN UNCHANGED <<running, desc_dequeued, run, active, busy, cur, count>>
           ELSE EngineStart(Head(transfer_list'))
    BY <1>4 DEF CallerSubmit, Submit, TransferQueue
  <2>2. x \in Xfer /\ xstate[x] = "NEW" /\ x \notin moved /\ x \notin Queued /\ ~Finishing
    BY <2>1 DEF Owned, MovedIsHead, QueuedOnce, Finishing, FaultInv, MaskIsDue
  <2>3. /\ transfer_list' # << >>
        /\ transfer_list # << >> => Head(transfer_list') = Head(transfer_list)
        /\ Queued' = Queued \cup {x}
    BY <1>a, <2>1, <2>2, AppendFacts, QueuedIsElems
  <2>4. work_pc = "idle" /\ (transfer_list # << >> => running)
    BY <2>1 DEF FaultInv, MaskIsDue, IdleIsEmpty, Between, Finishing
  <2>5. IdleIsEmpty' /\ ReportIsFinal'
    <3>1. CASE running
      BY <2>1, <2>3, <2>4, <3>1 DEF IdleIsEmpty, Between, Finishing, ReportIsFinal, InRun, Serving
    <3>2. CASE ~running
      BY <2>1, <2>3, <2>4, <3>2 DEF IdleIsEmpty, Between, Finishing, ReportIsFinal, InRun, Serving, EngineStart
    <3> QED
      BY <3>1, <3>2
  <2>6. QueuedOnce'
    <3>1. Distinct(transfer_list')
      BY <1>a, <2>1, <2>2, AppendDistinct DEF QueuedOnce
    <3> QED
      BY <1>a, <2>1, <2>2, <2>3, <3>1 DEF QueuedOnce, Finishing, TypeOK, EngineTypeOK
  <2>7. MovedIsHead'
    <3>1. CASE transfer_list = << >>
      <4>1. Queued = {}
        BY <3>1 DEF Queued
      <4> QED
        BY <1>a, <2>1, <2>2, <2>3, <2>4, <4>1 DEF MovedIsHead, TypeOK, EngineTypeOK
    <3>2. CASE transfer_list # << >>
      <4>1. active' = active /\ Head(transfer_list') = Head(transfer_list)
        BY <2>1, <2>3, <2>4, <3>2
      <4> QED
        BY <1>a, <2>1, <2>2, <2>3, <2>4, <4>1 DEF MovedIsHead, TypeOK, EngineTypeOK
    <3> QED
      BY <3>1, <3>2
  <2>8. Owned'
    BY <1>a, <2>1, <2>2 DEF Owned, TypeOK, EngineTypeOK, CallerTypeOK, Where
  <2> QED
    BY <1>0, <2>5, <2>6, <2>7, <2>8 DEF SoundInv
<1>5. ASSUME NEW c \in Caller, WaitEvent(c)
     PROVE  SoundInv'
  <2> USE <1>5 DEF WaitEvent
  <2>1. IdleIsEmpty' /\ ReportIsFinal'
    BY DEF IdleIsEmpty, Between, Finishing, ReportIsFinal, InRun, Serving
  <2>2. QueuedOnce' /\ MovedIsHead'
    BY DEF QueuedOnce, Finishing, MovedIsHead, Queued
  <2>3. Owned'
    BY <1>a DEF Owned, TypeOK, CallerTypeOK, Where
  <2> QED
    BY <1>0, <2>1, <2>2, <2>3 DEF SoundInv
<1>6. ASSUME NEW c \in Caller, Signal(c)
     PROVE  SoundInv'
  <2> USE <1>6 DEF Signal
  <2>1. IdleIsEmpty' /\ ReportIsFinal'
    BY DEF IdleIsEmpty, Between, Finishing, ReportIsFinal, InRun, Serving
  <2>2. QueuedOnce' /\ MovedIsHead'
    BY DEF QueuedOnce, Finishing, MovedIsHead, Queued
  <2>3. Owned'
    BY <1>a DEF Owned, TypeOK, CallerTypeOK, Where
  <2> QED
    BY <1>0, <2>1, <2>2, <2>3 DEF SoundInv
<1>7. ASSUME NEW c \in Caller, CallerEnds(c)
     PROVE  SoundInv'
  <2> DEFINE x == mine[c]
  <2>1. /\ pc[c] = "ended"
        /\ xstate' = IF xstate[x] # "SUBMITTED" THEN [xstate EXCEPT ![x] = "FREE"] ELSE xstate
        /\ mine' = [mine EXCEPT ![c] = NoXfer]
        /\ \E w \in {"create", "idle", "reread"} : pc' = [pc EXCEPT ![c] = w]
        /\ UNCHANGED <<desc_num, engineVars, hwVars, irqVars, workVars>>
    BY <1>7 DEF CallerEnds, AfterMonitor
  <2>2. x \in Xfer /\ Queued' = Queued
    BY <2>1 DEF Owned, Queued
  <2>3. IdleIsEmpty' /\ ReportIsFinal'
    BY <2>1 DEF IdleIsEmpty, Between, Finishing, ReportIsFinal, InRun, Serving
  <2>4. QueuedOnce' /\ MovedIsHead'
    BY <1>a, <2>1, <2>2 DEF QueuedOnce, Finishing, MovedIsHead, TypeOK, EngineTypeOK
  <2>5. Owned'
    BY <1>a, <2>1, <2>2 DEF Owned, TypeOK, EngineTypeOK, CallerTypeOK, Where
  <2> QED
    BY <1>0, <2>3, <2>4, <2>5 DEF SoundInv
<1>8. ASSUME HardwareProgress
     PROVE  SoundInv'
  <2>1. /\ active
        /\ UNCHANGED <<run, cur, wb, xferVars, engineVars, callerVars, irqVars, workVars>>
        /\ \/ /\ UNCHANGED <<active, busy, events, moved>>
           \/ /\ count + 1 = desc_num[cur] /\ count' = count + 1
              /\ ~active'
              /\ events' = events \cup {"STOPPED", "COMPLETED"}
              /\ moved' = moved \cup {cur}
    BY <1>8, InterruptMode
    DEF InterruptMode, NoErrors, HardwareProgress, HardwareMoves, HwDescriptor, HwLastDescriptor, HwReport, BusyAtReport
  <2>2. /\ transfer_list # << >> /\ cur = Head(transfer_list) /\ cur \in Queued
        /\ xstate[cur] = "SUBMITTED" /\ Queued \cap moved = {}
        /\ Queued' = Queued /\ ~Finishing
    <3>1. transfer_list # << >> /\ cur = Head(transfer_list) /\ cur \in Queued /\ cur \in Xfer
      BY <1>b, <2>1 DEF FaultInv, RunIsHead, InRun
    <3>2. ~Finishing
      BY <2>1 DEF FaultInv, ServicedIsHead
    <3>3. xstate[cur] = "SUBMITTED"
      BY <3>1, <3>2 DEF QueuedOnce, Finishing
    <3> QED
      BY <2>1, <3>1, <3>2, <3>3 DEF MovedIsHead, Queued
  <2>3. IdleIsEmpty' /\ ReportIsFinal'
    BY <2>1, <2>2 DEF IdleIsEmpty, Between, Finishing, ReportIsFinal, InRun, Serving, FaultInv, ReportIsTrue
  <2>4. QueuedOnce' /\ MovedIsHead'
    BY <2>1, <2>2 DEF QueuedOnce, Finishing, MovedIsHead
  <2>5. Owned'
    BY <2>1 DEF Owned
  <2> QED
    BY <1>0, <2>3, <2>4, <2>5 DEF SoundInv
<1>9. ~HardwareFault
  BY DEF HardwareFault, HwError, NoErrors
<1>10. ASSUME HardwareIdle
     PROVE  SoundInv'
  <2>1. UNCHANGED <<active, cur, count, events, moved, xferVars, engineVars, callerVars, workVars>>
    BY <1>10 DEF HardwareIdle, HwIdle
  <2>2. IdleIsEmpty' /\ ReportIsFinal'
    BY <2>1 DEF IdleIsEmpty, Between, Finishing, ReportIsFinal, InRun, Serving
  <2>3. QueuedOnce' /\ MovedIsHead' /\ Owned'
    BY <2>1 DEF QueuedOnce, Finishing, MovedIsHead, Queued, Owned
  <2> QED
    BY <1>0, <2>2, <2>3 DEF SoundInv
<1>11. ASSUME Handler
     PROVE  SoundInv'
  <2>1. UNCHANGED <<xferVars, engineVars, hwVars, callerVars, work_pc>>
    BY <1>11 DEF Handler, Isr, ChannelIrq
  <2>2. IdleIsEmpty' /\ ReportIsFinal'
    BY <2>1 DEF IdleIsEmpty, Between, Finishing, ReportIsFinal, InRun, Serving
  <2>3. QueuedOnce' /\ MovedIsHead' /\ Owned'
    BY <2>1 DEF QueuedOnce, Finishing, MovedIsHead, Queued, Owned
  <2> QED
    BY <1>0, <2>2, <2>3 DEF SoundInv
<1>12. ASSUME WorkBegin
     PROVE  SoundInv'
  <2>1. /\ work_pending /\ work_pc = "idle" /\ work_pc' = "service"
        /\ status' = events \cup (IF busy THEN {"BUSY"} ELSE {})
        /\ events' = {}
        /\ UNCHANGED <<xferVars, transfer_list, running, desc_dequeued, serviced, bug, run,
                       active, busy, cur, count, wb, moved, callerVars, irqVars>>
    BY <1>12 DEF WorkBegin, StatusReadClear
  <2>2. events # {} /\ ~active /\ InRun
    BY <2>1 DEF FaultInv, MaskIsDue, ReportIsTrue, ReportIsFinal, InRun
  <2>3. IdleIsEmpty' /\ ReportIsFinal'
    BY <1>a, <2>1, <2>2 DEF IdleIsEmpty, Between, Finishing, ReportIsFinal, InRun, Serving, TypeOK, HwTypeOK, Event
  <2>4. QueuedOnce' /\ MovedIsHead' /\ Owned'
    BY <2>1 DEF QueuedOnce, Finishing, MovedIsHead, Queued, Owned
  <2> QED
    BY <1>0, <2>3, <2>4 DEF SoundInv
<1>13. ASSUME WorkShutdown
     PROVE  SoundInv'
  <2>1. /\ work_pc = "service" /\ work_pc' = "inspect"
        /\ UNCHANGED <<xferVars, transfer_list, desc_dequeued, status, locked, serviced, bug, active,
                       busy, cur, count, events, wb, moved, callerVars, irqVars, work_pending>>
    BY <1>13 DEF WorkShutdown, EngineServiceShutdown, ReportIsFinal, FaultInv, RunIsHead, InRun, Serving
  <2>2. IdleIsEmpty' /\ ReportIsFinal'
    BY <2>1 DEF IdleIsEmpty, Between, Finishing, ReportIsFinal, InRun, Serving
  <2>3. QueuedOnce' /\ MovedIsHead' /\ Owned'
    BY <2>1 DEF QueuedOnce, Finishing, MovedIsHead, Queued, Owned
  <2> QED
    BY <1>0, <2>2, <2>3 DEF SoundInv
<1>14. ASSUME WorkMark
     PROVE  SoundInv'
  <2> DEFINE h == Head(transfer_list)
  <2>1. /\ work_pc = "inspect"
        /\ UNCHANGED <<transfer_list, desc_num, running, active, cur, count, events, moved, pc,
                       mine, status>>
    BY <1>14, MarkEffect DEF FaultInv
  <2>2. /\ ~active /\ events = {} /\ serviced = NoXfer
        /\ transfer_list # << >> /\ "ERROR" \notin status
        /\ cur = h /\ count = desc_num[h]
    BY <2>1 DEF IdleIsEmpty, ReportIsFinal, FaultInv, ReportIsTrue, RunIsHead, ServicedIsHead,
       Finishing, InRun, Serving
  <2>3. h \in Xfer /\ h \in Queued /\ xstate[h] = "SUBMITTED"
    BY <1>b, <2>1, <2>2 DEF QueuedOnce
  <2>4. /\ xstate' = [xstate EXCEPT ![h] = "COMPLETED"]
        /\ serviced' = h /\ work_pc' = "unlink"
    <3>1. MarkDone
      BY <1>14, <2>2, MarkEffect DEF FaultInv, MarkFailed
    <3>2. ~(count < desc_num[h])
      BY <1>a, <2>2 DEF TypeOK, HwTypeOK
    <3> QED
      BY <3>1, <3>2 DEF MarkDone
  <2>5. IdleIsEmpty' /\ ReportIsFinal'
    BY <2>1, <2>2, <2>4 DEF IdleIsEmpty, Between, Finishing, ReportIsFinal, InRun, Serving
  <2>6. QueuedOnce' /\ MovedIsHead'
    BY <1>a, <2>1, <2>2, <2>3, <2>4 DEF QueuedOnce, Finishing, MovedIsHead, Queued, TypeOK, EngineTypeOK
  <2>7. Owned'
    BY <1>a, <2>1, <2>2, <2>3, <2>4, EngineConstants
    DEF EngineConstants, Owned, TypeOK, EngineTypeOK
  <2> QED
    BY <1>0, <2>5, <2>6, <2>7 DEF SoundInv
<1>18. ASSUME WorkUnlink
     PROVE  SoundInv'
  <2>1. /\ work_pc = "unlink" /\ work_pc' = "resume"
        /\ transfer_list' = Tail(transfer_list)
        /\ UNCHANGED <<xstate, desc_num, running, status, serviced, active, cur, count, events,
                       moved, pc, mine>>
    BY <1>18 DEF WorkUnlink, ServiceUnlink
  <2>2. /\ ~active /\ events = {}
        /\ transfer_list # << >> /\ serviced = Head(transfer_list)
    BY <2>1 DEF FaultInv, ServicedIsHead, Finishing
  <2>3. /\ Distinct(transfer_list')
        /\ serviced \notin Queued'
        /\ Queued = Queued' \cup {serviced}
    BY <1>a, <2>1, <2>2, TailFacts, TailDistinct, QueuedIsElems DEF QueuedOnce
  <2>4. serviced \in Xfer /\ xstate[serviced] \in {"COMPLETED", "FREE"}
    BY <2>1 DEF QueuedOnce, Finishing
  <2>5. IdleIsEmpty' /\ ReportIsFinal'
    BY <2>1, <2>2 DEF IdleIsEmpty, Between, Finishing, ReportIsFinal, InRun, Serving
  <2>6. QueuedOnce'
    BY <2>1, <2>3, <2>4 DEF QueuedOnce, Finishing
  <2>7. MovedIsHead'
    <3>1. Queued' \cap moved' = {}
      BY <2>1, <2>2, <2>3 DEF MovedIsHead
    <3> QED
      BY <2>1, <3>1 DEF MovedIsHead
  <2>8. Owned'
    BY <2>1 DEF Owned
  <2> QED
    BY <1>0, <2>5, <2>6, <2>7, <2>8 DEF SoundInv
<1>19. ASSUME WorkResume
     PROVE  SoundInv'
  <2>1. /\ work_pc = "resume" /\ work_pc' = "reenable"
        /\ Wake({serviced})
        /\ EngineServiceResume
        /\ UNCHANGED <<xstate, desc_num, transfer_list, status, events, moved, mine>>
    BY <1>19 DEF WorkResume
  <2>2. /\ ~active /\ events = {}
        /\ serviced' = NoXfer /\ (Restarts \/ LeftAsItIs)
    BY <2>1, ResumeEffect DEF FaultInv, ServicedIsHead, Finishing
  <2>3. Queued' = Queued /\ \A x \in Xfer : x \in Queued <=> xstate[x] = "SUBMITTED"
    BY <2>1 DEF QueuedOnce, Queued
  <2>4. IdleIsEmpty' /\ ReportIsFinal'
    <3>1. CASE Restarts
      BY <2>1, <2>2, <3>1
      DEF Restarts, EngineStart, IdleIsEmpty, Between, Finishing, ReportIsFinal, InRun, Serving
    <3>2. CASE LeftAsItIs
      <4>1. running \/ transfer_list = << >>
        BY <2>1, <3>2 DEF EngineServiceResume, EngineStart, LeftAsItIs
      <4> QED
        BY <2>1, <2>2, <3>2, <4>1
        DEF LeftAsItIs, IdleIsEmpty, Between, Finishing, ReportIsFinal, InRun, Serving
    <3> QED
      BY <2>2, <3>1, <3>2
  <2>5. QueuedOnce'
    BY <2>1, <2>3 DEF QueuedOnce, Finishing
  <2>6. MovedIsHead'
    <3>1. Queued \cap moved = {}
      BY <2>1 DEF MovedIsHead
    <3> QED
      BY <2>1, <2>3, <3>1 DEF MovedIsHead
  <2>7. Owned'
    <3>1. \A c \in Caller : /\ pc[c] # "sleep" => pc'[c] = pc[c]
                            /\ pc'[c] = "sleep" => pc[c] = "sleep" /\ mine[c] # serviced
                            /\ pc[c] = "sleep" => pc'[c] \in {"sleep", "wait"}
      BY <1>a, <2>1, WakeEffect
    <3> QED
      BY <2>1, <2>2, <3>1 DEF Owned
  <2> QED
    BY <1>0, <2>4, <2>5, <2>6, <2>7 DEF SoundInv
<1>15. ASSUME WorkReenable
     PROVE  SoundInv'
  <2>1. /\ work_pc = "reenable" /\ work_pc' = "idle"
        /\ UNCHANGED <<xferVars, transfer_list, running, desc_dequeued, status, serviced, bug,
                       hwVars, callerVars, work_pending>>
    BY <1>15 DEF WorkReenable
  <2>2. IdleIsEmpty' /\ ReportIsFinal'
    BY <2>1 DEF IdleIsEmpty, Between, Finishing, ReportIsFinal, InRun, Serving
  <2>3. QueuedOnce' /\ MovedIsHead' /\ Owned'
    BY <2>1 DEF QueuedOnce, Finishing, MovedIsHead, Queued, Owned
  <2> QED
    BY <1>0, <2>2, <2>3 DEF SoundInv
<1>16. ASSUME NEW c \in Caller, CallerRereads(c)
     PROVE  SoundInv'
  <2>1. /\ pc[c] = "reread" /\ pc' = [pc EXCEPT ![c] = "idle"]
        /\ status' = events \cup (IF busy THEN {"BUSY"} ELSE {})
        /\ UNCHANGED <<xferVars, transfer_list, running, desc_dequeued, locked, serviced, bug,
                       hwVars, mine, chunks, rc, irqVars, workVars>>
    BY <1>16 DEF CallerRereads, StatusReread
  <2>2. Serving => events = {}
    BY DEF FaultInv, ReportIsTrue
  <2>3. IdleIsEmpty' /\ ReportIsFinal'
    BY <2>1, <2>2 DEF IdleIsEmpty, Between, Finishing, ReportIsFinal, InRun, Serving
  <2>4. QueuedOnce' /\ MovedIsHead'
    BY <2>1 DEF QueuedOnce, Finishing, MovedIsHead, Queued
  <2>5. Owned'
    BY <1>a, <2>1 DEF Owned, TypeOK, CallerTypeOK, Where
  <2> QED
    BY <1>0, <2>3, <2>4, <2>5 DEF SoundInv
<1>17. CASE UNCHANGED vars
  <2>1. IdleIsEmpty' /\ ReportIsFinal'
    BY <1>17 DEF vars, IdleIsEmpty, Between, Finishing, ReportIsFinal, InRun, Serving
  <2>2. QueuedOnce' /\ MovedIsHead' /\ Owned'
    BY <1>17 DEF vars, QueuedOnce, Finishing, MovedIsHead, Queued, Owned
  <2> QED
    BY <1>0, <2>1, <2>2 DEF SoundInv
<1> QED
  BY <1>1, <1>2, <1>3, <1>4, <1>5, <1>6, <1>7, <1>8, <1>9, <1>10, <1>11, <1>12, <1>13, <1>14,
     <1>15, <1>16, <1>17, <1>18, <1>19 DEF Next, CallerStep, Work

LEMMA SoundInvHolds == ASSUME NoErrors PROVE Spec => []SoundInv
<1>1. SoundInv /\ [Next]_vars => SoundInv'
  BY SoundInvNext
<1> QED
  BY SoundInvInit, <1>1, PTL DEF Spec

(* While the channel executes descriptors, they are those of the first      *)
(* queued transfer, of an engine marked as running.                         *)
THEOREM ChannelAlwaysRunsHead == ASSUME NoErrors PROVE Spec => []ChannelRunsHead
<1>1. SoundInv => ChannelRunsHead
  <2> SUFFICES ASSUME SoundInv, active PROVE ChannelRunsHead
    BY DEF ChannelRunsHead
  <2>1. /\ running /\ transfer_list # << >> /\ cur = Head(transfer_list)
        /\ transfer_list \in Seq(Xfer)
    BY DEF SoundInv, FaultInv, RunIsHead, ReportIsTrue, InRun, Serving, TypeOK, EngineTypeOK
  <2>2. cur \in Queued /\ cur \in Xfer /\ ~Finishing
    BY <2>1, TailFacts, QueuedIsElems DEF SoundInv, FaultInv, ServicedIsHead
  <2>3. xstate[cur] = "SUBMITTED"
    BY <2>2 DEF SoundInv, QueuedOnce, Finishing
  <2> QED
    BY <2>1, <2>3 DEF ChannelRunsHead
<1> QED
  BY SoundInvHolds, <1>1, PTL

(* No wake-up is lost: the transfer of a sleeping caller is still to be     *)
(* completed, or is being serviced.                                         *)
THEOREM SleeperAlwaysWoken == ASSUME NoErrors PROVE Spec => []SleeperWillBeWoken
<1>1. SoundInv => SleeperWillBeWoken
  BY DEF SoundInv, Owned, SleeperWillBeWoken
<1> QED
  BY SoundInvHolds, <1>1, PTL

(* A caller may free its transfer before the service is done with it, by    *)
(* testing the state that is stored first; but neither a signal nor the     *)
(* restart nor another caller makes one free a transfer outside that        *)
(* window: what is freed in use is the transfer being serviced, under the   *)
(* lock.                                                                    *)
THEOREM NeverUsedAfterFree == ASSUME NoErrors PROVE Spec => []FreedInServiceOnly
<1>1. SoundInv => FreedInServiceOnly
  <2> SUFFICES ASSUME SoundInv, NEW x \in InUse, xstate[x] = "FREE"
               PROVE  x = serviced /\ locked
    BY DEF FreedInServiceOnly
  <2>1. TypeOK /\ (work_pc # "idle" => locked) /\ (~Finishing => serviced = NoXfer)
    BY DEF SoundInv, FaultInv, MaskIsDue, ServicedIsHead
  <2>2. CASE x \in Queued
    <3>1. x \in Xfer
      BY <2>1, <2>2, QueuedInXfer
    <3> QED
      BY <2>1, <2>2, <3>1 DEF SoundInv, QueuedOnce
  <2>3. CASE x = serviced /\ x # NoXfer
    BY <2>1, <2>3 DEF Finishing
  <2> QED
    BY <2>2, <2>3 DEF InUse
<1> QED
  BY SoundInvHolds, <1>1, PTL

-----------------------------------------------------------------------------
(* The refinement of DmaService, step by step.                              *)

(* The transfer whose run is over but was not serviced yet is the only one  *)
(* on the queue that no longer counts as pending.                           *)
LEMMA PendingNotMoved ==
  ASSUME SoundInv
  PROVE  /\ PendingTransfers \in Seq(Xfer)
         /\ Service!Waiting = Queued \ moved
<1>1. transfer_list \in Seq(Xfer) /\ Queued = Elems(transfer_list) /\ Distinct(transfer_list)
  BY QueuedIsElems DEF SoundInv, FaultInv, TypeOK, EngineTypeOK, QueuedOnce
<1>2. Service!Waiting = Elems(PendingTransfers)
  BY DEF Service!Waiting, Elems
<1>3. CASE HeadMoved
  <2>1. PendingTransfers = Tail(transfer_list) /\ transfer_list # << >>
    BY <1>3 DEF PendingTransfers, HeadMoved
  <2>2. /\ Tail(transfer_list) \in Seq(Xfer)
        /\ Queued = Elems(Tail(transfer_list)) \cup {Head(transfer_list)}
        /\ Head(transfer_list) \notin Elems(Tail(transfer_list))
    BY <1>1, <2>1, TailFacts, TailDistinct
  <2> QED
    BY <1>2, <1>3, <2>1, <2>2 DEF HeadMoved, SoundInv, MovedIsHead
<1>4. CASE ~HeadMoved
  <2>1. PendingTransfers = transfer_list
    BY <1>4 DEF PendingTransfers
  <2>2. Queued \cap moved = {}
    <3>1. transfer_list = << >> => Queued = {}
      BY DEF Queued
    <3> QED
      BY <1>4, <3>1 DEF HeadMoved, SoundInv, MovedIsHead
  <2> QED
    BY <1>1, <1>2, <2>1, <2>2
<1> QED
  BY <1>3, <1>4

(* Submitting to the engine submits to the service.                         *)
LEMMA SubmitImplements ==
  ASSUME SoundInv, NEW c \in Caller, CallerSubmit(c)
  PROVE  Service!Submit(mine[c])
<1> DEFINE x == mine[c]
<1> USE DEF SoundInv
<1>1. /\ pc[c] = "queue"
      /\ xstate' = [xstate EXCEPT ![x] = "SUBMITTED"]
      /\ transfer_list' = Append(transfer_list, x)
      /\ moved' = moved
  BY DEF CallerSubmit, Submit, TransferQueue
<1>2. x \in Xfer /\ xstate[x] = "NEW" /\ x \notin moved /\ x \notin Queued
  <2>1. ~Finishing
    BY DEF CallerSubmit, Submit, TransferQueue, FaultInv, MaskIsDue, Finishing
  <2> QED
    BY <1>1, <2>1 DEF Owned, MovedIsHead, QueuedOnce, Finishing
<1>3. transfer_list \in Seq(Xfer)
  BY DEF FaultInv, TypeOK, EngineTypeOK
<1>4. x \notin Service!Waiting \cup MovedTransfers
  BY <1>2, PendingNotMoved DEF MovedTransfers
<1>5. PendingTransfers' = Append(PendingTransfers, x)
  <2>1. CASE transfer_list = << >>
    BY <1>1, <1>2, <1>3, <2>1, AppendFacts DEF PendingTransfers, HeadMoved
  <2>2. CASE transfer_list # << >>
    <3>1. /\ transfer_list' # << >>
          /\ Head(transfer_list') = Head(transfer_list)
          /\ Tail(transfer_list') = Append(Tail(transfer_list), x)
      BY <1>1, <1>2, <1>3, <2>2, AppendFacts, TailOfAppend
    <3> QED
      BY <1>1, <2>2, <3>1 DEF PendingTransfers, HeadMoved
  <2> QED
    BY <2>1, <2>2
<1>6. MovedTransfers' = MovedTransfers
  BY <1>1, <1>2 DEF MovedTransfers, FaultInv, TypeOK, EngineTypeOK, HwTypeOK
<1> QED
  BY <1>4, <1>5, <1>6 DEF Service!Submit

(* The last descriptor of a run moves the oldest pending transfer, every    *)
(* other descriptor nothing.                                                *)
LEMMA HardwareImplements ==
  ASSUME NoErrors, SoundInv, HardwareProgress
  PROVE  Service!Move \/ UNCHANGED <<PendingTransfers, MovedTransfers>>
<1> USE DEF SoundInv
<1>1. active /\ UNCHANGED <<xstate, transfer_list>>
  BY DEF HardwareProgress, HardwareMoves, HwDescriptor, HwLastDescriptor, xferVars, engineVars
<1>2. /\ transfer_list # << >> /\ cur = Head(transfer_list) /\ cur \notin moved
      /\ transfer_list \in Seq(Xfer) /\ xstate[cur] = "SUBMITTED"
  <2>1. transfer_list # << >> /\ cur = Head(transfer_list) /\ transfer_list \in Seq(Xfer)
    BY <1>1 DEF FaultInv, RunIsHead, InRun, TypeOK, EngineTypeOK
  <2>2. cur \in Queued /\ cur \in Xfer /\ ~Finishing
    BY <1>1, <2>1, TailFacts, QueuedIsElems DEF FaultInv, ServicedIsHead
  <2> QED
    BY <1>1, <2>1, <2>2 DEF QueuedOnce, Finishing, MovedIsHead
<1>3. PendingTransfers = transfer_list
  BY <1>2 DEF PendingTransfers, HeadMoved
<1>4. CASE moved' = moved
  BY <1>1, <1>4 DEF PendingTransfers, HeadMoved, MovedTransfers
<1>5. CASE moved' = moved \cup {cur}
  <2>1. PendingTransfers' = Tail(PendingTransfers)
    BY <1>1, <1>2, <1>3, <1>5 DEF PendingTransfers, HeadMoved
  <2>2. MovedTransfers' = MovedTransfers \cup {Head(PendingTransfers)}
    BY <1>1, <1>2, <1>3, <1>5 DEF MovedTransfers
  <2> QED
    BY <1>2, <1>3, <2>1, <2>2 DEF Service!Move
<1> QED
  BY <1>4, <1>5 DEF HardwareProgress, HardwareMoves, HwDescriptor, HwLastDescriptor

(* Servicing the engine changes nothing for the service: what is completed  *)
(* and leaves the queue was moved before.                                   *)
LEMMA MarkImplements ==
  ASSUME SoundInv, WorkMark
  PROVE  UNCHANGED <<PendingTransfers, MovedTransfers>>
<1> DEFINE h == Head(transfer_list)
<1> USE DEF SoundInv
<1>1. /\ work_pc = "inspect" /\ UNCHANGED <<transfer_list, moved>>
      /\ MarkFailed \/ MarkDone
  BY MarkEffect DEF FaultInv
<1>2. /\ transfer_list # << >> /\ "ERROR" \notin status
      /\ cur = h /\ count = desc_num[h]
  BY <1>1 DEF ReportIsFinal, FaultInv, ReportIsTrue, RunIsHead, InRun, Serving
<1>3. transfer_list \in Seq(Xfer) /\ h \in Xfer /\ h \in Queued
  BY <1>2, TailFacts, QueuedIsElems DEF FaultInv, TypeOK, EngineTypeOK
<1>4. xstate[h] = "SUBMITTED"
  BY <1>1, <1>3 DEF QueuedOnce
<1>5. xstate' = [xstate EXCEPT ![h] = "COMPLETED"]
  <2>1. ~(count < desc_num[h])
    BY <1>2 DEF FaultInv, TypeOK, HwTypeOK
  <2> QED
    BY <1>1, <1>2, <2>1 DEF MarkFailed, MarkDone
<1>6. PendingTransfers' = PendingTransfers
  BY <1>1 DEF PendingTransfers, HeadMoved
<1>7. MovedTransfers' = MovedTransfers
  BY <1>1, <1>3, <1>4, <1>5 DEF MovedTransfers, FaultInv, TypeOK, EngineTypeOK, HwTypeOK
<1> QED
  BY <1>6, <1>7

LEMMA UnlinkImplements ==
  ASSUME SoundInv, Alive, WorkUnlink
  PROVE  UNCHANGED <<PendingTransfers, MovedTransfers>>
<1> DEFINE h == Head(transfer_list)
<1> USE DEF SoundInv
<1>1. /\ work_pc = "unlink" /\ UNCHANGED <<xstate, moved>>
      /\ transfer_list' = Tail(transfer_list)
      /\ transfer_list # << >> /\ serviced = h
  BY DEF WorkUnlink, ServiceUnlink, xferVars, hwVars, FaultInv, ServicedIsHead
<1>2. /\ transfer_list \in Seq(Xfer) /\ h \in Xfer /\ h \in Queued
      /\ h \notin Elems(Tail(transfer_list)) /\ Tail(transfer_list) \in Seq(Xfer)
      /\ Elems(Tail(transfer_list)) \subseteq Queued
  BY <1>1, TailFacts, TailDistinct, QueuedIsElems DEF FaultInv, TypeOK, EngineTypeOK, QueuedOnce
<1>3. h \in moved
  <2>1. xstate[h] # "FREE"
    BY <1>2 DEF Alive, FreedInUse, InUse
  <2> QED
    BY <1>1, <1>2, <2>1 DEF QueuedOnce, Finishing, FaultInv, CompletedWasMoved
<1>4. PendingTransfers = Tail(transfer_list)
  BY <1>1, <1>3 DEF PendingTransfers, HeadMoved
<1>5. ~HeadMoved'
  <2>1. ASSUME transfer_list' # << >> PROVE Head(transfer_list') \in Elems(Tail(transfer_list))
    BY <1>1, <1>2, <2>1, TailFacts
  <2> QED
    BY <1>1, <1>2, <2>1 DEF HeadMoved, MovedIsHead
<1>6. PendingTransfers' = PendingTransfers
  BY <1>1, <1>4, <1>5 DEF PendingTransfers
<1>7. MovedTransfers' = MovedTransfers
  BY <1>1 DEF MovedTransfers
<1> QED
  BY <1>6, <1>7

(* A caller that frees its transfer takes it back from the service, one     *)
(* that a signal woke leaves it there.                                      *)
LEMMA EndImplements ==
  ASSUME SoundInv, NEW c \in Caller, CallerEnds(c)
  PROVE  Service!TakeBack(mine[c]) \/ UNCHANGED <<PendingTransfers, MovedTransfers>>
<1> DEFINE x == mine[c]
<1> USE DEF SoundInv
<1>1. /\ pc[c] = "ended"
      /\ xstate' = IF xstate[x] # "SUBMITTED" THEN [xstate EXCEPT ![x] = "FREE"] ELSE xstate
      /\ UNCHANGED <<transfer_list, moved>>
  BY DEF CallerEnds, AfterMonitor, engineVars, hwVars
<1>2. x \in Xfer /\ xstate[x] \in {"SUBMITTED", "COMPLETED"} /\ xstate \in [Xfer -> XferState]
      /\ moved \subseteq Xfer
  BY <1>1 DEF Owned, FaultInv, TypeOK, EngineTypeOK, HwTypeOK
<1>3. PendingTransfers' = PendingTransfers
  BY <1>1 DEF PendingTransfers, HeadMoved
<1>4. CASE xstate[x] = "SUBMITTED"
  BY <1>1, <1>3, <1>4 DEF MovedTransfers
<1>5. CASE xstate[x] = "COMPLETED"
  <2>1. x \in MovedTransfers
    BY <1>2, <1>5 DEF MovedTransfers, FaultInv, CompletedWasMoved
  <2>2. MovedTransfers' = MovedTransfers \ {x}
    BY <1>1, <1>2, <1>5 DEF MovedTransfers
  <2> QED
    BY <1>3, <2>1, <2>2 DEF Service!TakeBack
<1> QED
  BY <1>2, <1>4, <1>5

(* A new transfer is nothing to the service.                                *)
LEMMA CreateImplements ==
  ASSUME SoundInv, Alive, NEW c \in Caller, CallerCreate(c)
  PROVE  UNCHANGED <<PendingTransfers, MovedTransfers>>
<1> USE DEF SoundInv
<1>1. PICK x \in Xfer :
           /\ xstate[x] = "FREE"
           /\ xstate' = [xstate EXCEPT ![x] = "NEW"]
           /\ moved' = moved \ {x}
           /\ transfer_list' = transfer_list
  BY DEF CallerCreate, TransferCreate, engineVars
<1>2. transfer_list \in Seq(Xfer) /\ xstate \in [Xfer -> XferState] /\ x \notin Queued
  BY <1>1 DEF FaultInv, TypeOK, EngineTypeOK, Alive, FreedInUse, InUse
<1>3. transfer_list # << >> => Head(transfer_list) # x
  BY <1>2, TailFacts, QueuedIsElems
<1>4. PendingTransfers' = PendingTransfers
  BY <1>1, <1>3 DEF PendingTransfers, HeadMoved
<1>5. MovedTransfers' = MovedTransfers
  BY <1>1, <1>2 DEF MovedTransfers, FaultInv, TypeOK, HwTypeOK
<1> QED
  BY <1>4, <1>5

LEMMA StepImplements ==
  ASSUME NoErrors, SoundInv, [Next]_vars
  PROVE  [Service!Next]_(Service!vars)
<1> DEFINE Same == UNCHANGED <<PendingTransfers, MovedTransfers>>
<1>1. ASSUME UNCHANGED <<xstate, transfer_list, moved>> PROVE Same
  BY <1>1 DEF PendingTransfers, HeadMoved, MovedTransfers
<1>2. ASSUME NEW c \in Caller, CallerSubmit(c) PROVE \E x \in Xfer : Service!Submit(x)
  <2>1. mine[c] \in Xfer
    BY <1>2 DEF CallerSubmit, Submit, SoundInv, Owned
  <2> QED
    BY <1>2, <2>1, SubmitImplements
<1>3. ASSUME NEW c \in Caller, CallerEnds(c) PROVE Same \/ \E x \in Xfer : Service!TakeBack(x)
  <2>1. mine[c] \in Xfer
    BY <1>3 DEF CallerEnds, AfterMonitor, SoundInv, Owned
  <2> QED
    BY <1>3, <2>1, EndImplements
<1>4. ASSUME NEW c \in Caller, CallerCreate(c), Alive PROVE Same
  BY <1>4, CreateImplements
<1>5. ASSUME HardwareProgress PROVE Same \/ Service!Move
  BY <1>5, HardwareImplements
<1>6. ASSUME WorkMark \/ WorkUnlink, Alive PROVE Same
  BY <1>6, MarkImplements, UnlinkImplements
<1>7. ASSUME NEW c \in Caller,
             \/ CallerRequest(c) \/ CallerCreateFails(c) \/ WaitEvent(c) \/ Signal(c) \/ CallerRereads(c)
      PROVE  Same
  <2>1. UNCHANGED <<xstate, transfer_list, moved>>
    BY <1>7 DEF CallerRequest, Request, CallerCreateFails, TransferCreateFails, WaitEvent, Signal,
       CallerRereads, StatusReread, xferVars, engineVars, hwVars
  <2> QED
    BY <1>1, <2>1
<1>8. ASSUME \/ HardwareFault \/ HardwareIdle \/ Handler \/ WorkBegin \/ WorkShutdown \/ WorkResume
             \/ WorkReenable \/ UNCHANGED vars
      PROVE  Same
  <2>1. UNCHANGED <<xstate, transfer_list, moved>>
    BY <1>8 DEF HardwareFault, HwError, HardwareIdle, HwIdle, Handler, Isr, ChannelIrq, WorkBegin,
       WorkShutdown, WorkResume, WorkReenable, vars, xferVars, engineVars, hwVars
  <2> QED
    BY <1>1, <2>1
<1>9. Same \/ Service!Next
  <2> HIDE DEF Same
  <2>1. CASE Service!Move
    BY <2>1 DEF Service!Next
  <2>2. CASE \E x \in Xfer : Service!Submit(x) \/ Service!TakeBack(x)
    BY <2>2 DEF Service!Next
  <2> QED
    BY <1>2, <1>3, <1>4, <1>5, <1>6, <1>7, <1>8, <2>1, <2>2 DEF Next, CallerStep, Work
<1> QED
  BY <1>9 DEF Service!vars

(* The engine does what DmaService promises, but for its progress: every    *)
(* transfer is moved once, in the order of submission, and is taken back by *)
(* its caller only after it was moved.                                      *)
THEOREM EngineImplementsService == ASSUME NoErrors PROVE Spec => Service!Safety
<1>1. Init => Service!Init
  BY DEF Init, EngineInit, HwInit, Service!Init, PendingTransfers, MovedTransfers, HeadMoved
<1>2. SoundInv /\ [Next]_vars => [Service!Next]_(Service!vars)
  BY StepImplements
<1> QED
  BY SoundInvHolds, <1>1, <1>2, PTL DEF Spec, Service!Safety

(* What a caller may rely on, by the promise alone: a transfer is pending   *)
(* once, and not any more when it was moved.                                *)
MovedOnce ==
  /\ PendingTransfers \in Seq(Xfer)
  /\ Distinct(PendingTransfers)
  /\ Service!Waiting \cap MovedTransfers = {}

LEMMA PromiseStep ==
  ASSUME MovedOnce, [Service!Next]_(Service!vars)
  PROVE  MovedOnce'
<1> USE DEF MovedOnce
<1>1. /\ Service!Waiting = Elems(PendingTransfers)
      /\ Service!Waiting' = Elems(PendingTransfers')
  BY DEF Service!Waiting, Elems
<1>2. CASE UNCHANGED <<PendingTransfers, MovedTransfers>>
  BY <1>1, <1>2
<1>3. ASSUME NEW x \in Xfer, Service!Submit(x) PROVE MovedOnce'
  <2>1. /\ x \notin Elems(PendingTransfers) /\ x \notin MovedTransfers
        /\ PendingTransfers' = Append(PendingTransfers, x)
        /\ MovedTransfers' = MovedTransfers
    BY <1>1, <1>3 DEF Service!Submit
  <2>2. /\ PendingTransfers' \in Seq(Xfer) /\ Distinct(PendingTransfers')
        /\ Elems(PendingTransfers') = Elems(PendingTransfers) \cup {x}
    BY <2>1, AppendFacts, AppendDistinct
  <2> QED
    BY <1>1, <2>1, <2>2
<1>4. CASE Service!Move
  <2>1. /\ PendingTransfers # << >>
        /\ PendingTransfers' = Tail(PendingTransfers)
        /\ MovedTransfers' = MovedTransfers \cup {Head(PendingTransfers)}
    BY <1>4 DEF Service!Move
  <2>2. /\ PendingTransfers' \in Seq(Xfer) /\ Distinct(PendingTransfers')
        /\ Elems(PendingTransfers') \subseteq Elems(PendingTransfers)
        /\ Head(PendingTransfers) \notin Elems(PendingTransfers')
    BY <2>1, TailFacts, TailDistinct
  <2> QED
    BY <1>1, <2>1, <2>2
<1>5. ASSUME NEW x \in Xfer, Service!TakeBack(x) PROVE MovedOnce'
  BY <1>1, <1>5 DEF Service!TakeBack
<1> QED
  BY <1>2, <1>3, <1>4, <1>5 DEF Service!Next, Service!vars

(* DmaService excludes that a transfer is moved twice, and so does the      *)
(* engine, because it implements it: what was moved is not pending again    *)
(* before its caller took it back, whether a signal interrupts it or not.   *)
THEOREM EngineMovesOnce == ASSUME NoErrors PROVE Spec => []MovedOnce
<1>1. Service!Init => MovedOnce
  BY DEF Service!Init, MovedOnce, Service!Waiting, Distinct
<1>2. MovedOnce /\ [Service!Next]_(Service!vars) => MovedOnce'
  BY PromiseStep
<1>3. Service!Safety => []MovedOnce
  BY <1>1, <1>2, PTL DEF Service!Safety
<1> QED
  BY <1>3, EngineImplementsService, PTL

-----------------------------------------------------------------------------
(* The performance test (XdmaPerf): tests next to requests, a channel that  *)
(* PERF_STOP halts half-way, work that is taken before it runs.             *)

(* The run of a test goes on after its last descriptor, and one that was    *)
(* halted may have ended without a report.  The hardware shows no error.    *)
PerfReport ==
  /\ active => events = {}
  /\ InRun /\ count = desc_num[cur] => cur \in moved
  /\ Serving => ~active /\ events = {}
  /\ "ERROR" \notin events /\ "ERROR" \notin status
  /\ ServicedIsHead

(* As MaskIsDue, with the work that was taken off the workqueue.            *)
PerfDue == work_pending \/ taken \/ work_pc # "idle"
PerfMask ==
  /\ work_pending \/ taken => events # {} /\ work_pc = "idle"
  /\ ~(work_pending /\ taken)
  /\ msix_enabled => channel_enabled /\ (enable_mask <=> ~PerfDue) /\ (PerfDue => saved_mask)
  /\ ~msix_enabled => enable_mask /\ (channel_enabled <=> ~PerfDue)
  /\ locked <=> work_pc # "idle"

(* What is queued is submitted, once, but for the serviced transfer until   *)
(* it is taken off.                                                         *)
PerfQueued ==
  /\ Distinct(transfer_list)
  /\ \A x \in Queued :
       /\ desc_num[x] > 0
       /\ xstate[x] = "SUBMITTED" \/ (work_pc = "unlink" /\ x = serviced)

(* A caller's transfer is its own and no test's; the transfer of a test is  *)
(* never given back.                                                        *)
PerfOwned ==
  /\ \A c, d \in Caller : mine[c] # NoXfer /\ mine[c] = mine[d] => c = d
  /\ \A c \in Caller : mine[c] \notin cyclic
  /\ \A c \in Caller : mine[c] # NoXfer => xstate[mine[c]] # "FREE"
  /\ \A c \in Caller : pc[c] \in {"wait", "sleep", "ended"} => mine[c] \in Xfer /\ xstate[mine[c]] # "NEW"
  /\ \A c \in Caller :
       pc[c] = "queue" => mine[c] \in Xfer /\ xstate[mine[c]] = "NEW" /\ desc_num[mine[c]] > 0
  /\ \A x \in cyclic : xstate[x] # "FREE"
  /\ tester = "submit" => test \in cyclic /\ xstate[test] = "NEW" /\ desc_num[test] > 0

(* Where programs have to keep them apart, a test is alone on the engine    *)
(* until its transfer has left the queue.                                   *)
TestBegun == xdma_perf \/ Queued \cap cyclic # {}
TestAlone ==
  Apart => /\ tester # "idle" => xdma_perf
           /\ TestBegun => /\ \A c \in Caller : pc[c] = "idle"
                           /\ Len(transfer_list) <= 1
                           /\ work_pc = "resume" => transfer_list = << >>
           /\ tester = "submit" => transfer_list = << >>

PerfTypes ==
  /\ cyclic \subseteq Xfer /\ test \in Xfer \cup {NoXfer}
  /\ tester \in {"idle", "submit", "stop", "free"} /\ perf_step \in {"none", "held", "done"}
  /\ careful \in BOOLEAN /\ xdma_perf \in BOOLEAN /\ idle_enabled \in BOOLEAN /\ taken \in BOOLEAN

PerfInv ==
  /\ TypeOK /\ PerfTypes
  /\ NoBug
  /\ RunIsHead /\ PerfReport
  /\ PerfMask
  /\ PerfQueued /\ PerfOwned
  /\ TestAlone
  /\ CompletedWasMoved

LEMMA PerfInvInit == PerfInit => PerfInv
<1> SUFFICES ASSUME PerfInit PROVE PerfInv
  OBVIOUS
<1>1. Init
  BY DEF PerfInit
<1>2. TypeOK /\ NoBug /\ RunIsHead /\ CompletedWasMoved
  BY <1>1, FaultInvInit DEF FaultInv
<1>3. PerfTypes
  BY DEF PerfInit, PerfTypes
<1>4. /\ ~active /\ events = {} /\ status = {} /\ work_pc = "idle" /\ work_pending = FALSE
      /\ channel_enabled = TRUE /\ enable_mask = TRUE /\ locked = FALSE
      /\ transfer_list = << >> /\ Queued = {}
      /\ \A c \in Caller : pc[c] = "idle" /\ mine[c] = NoXfer
  BY <1>1 DEF Init, EngineInit, HwInit, CallerInit, Queued
<1>5. PerfReport /\ PerfMask
  BY <1>1, <1>4, FaultInvInit DEF PerfInit, FaultInv, PerfReport, PerfMask, PerfDue, InRun, Serving
<1>6. PerfQueued
  BY <1>4 DEF PerfQueued, Distinct
<1>7. PerfOwned
  <2>1. cyclic = {} /\ tester = "idle"
    BY DEF PerfInit
  <2> QED
    BY <1>4, <2>1 DEF PerfOwned
<1>8. TestAlone
  BY <1>4 DEF PerfInit, TestAlone, TestBegun
<1> QED
  BY <1>2, <1>3, <1>5, <1>6, <1>7, <1>8 DEF PerfInv

(* What does not change keeps what is known of it.                          *)
LEMMA EngineTypeFrame ==
  ASSUME EngineTypeOK, UNCHANGED <<xferVars, engineVars>> PROVE EngineTypeOK'
BY DEF EngineTypeOK, xferVars, engineVars

LEMMA HwTypeFrame == ASSUME HwTypeOK, UNCHANGED hwVars PROVE HwTypeOK'
BY DEF HwTypeOK, hwVars

LEMMA CallerTypeFrame == ASSUME CallerTypeOK, UNCHANGED callerVars PROVE CallerTypeOK'
BY DEF CallerTypeOK, callerVars

LEMMA RunFrame ==
  ASSUME RunIsHead, PerfReport,
         UNCHANGED <<active, events, work_pc, running, transfer_list, cur, desc_dequeued, count,
                     desc_num, moved, status, serviced>>
  PROVE  RunIsHead' /\ PerfReport'
BY DEF RunIsHead, PerfReport, InRun, Serving, ServicedIsHead, Finishing

LEMMA MaskFrame ==
  ASSUME PerfMask, UNCHANGED <<work_pending, taken, work_pc, events, irqVars, locked>>
  PROVE  PerfMask'
BY DEF PerfMask, PerfDue, irqVars

LEMMA QueueFrame ==
  ASSUME PerfQueued, UNCHANGED <<transfer_list, xstate, desc_num>>,
         work_pc = "unlink" => UNCHANGED <<work_pc, serviced>>
  PROVE  PerfQueued'
BY DEF PerfQueued, Queued, Distinct

(* A transfer may be over, and callers may go where they own as much.       *)
LEMMA OwnedFrame ==
  ASSUME PerfInv,
         UNCHANGED <<mine, cyclic, tester, test, desc_num>>,
         \A x \in Xfer : \/ xstate'[x] = xstate[x]
                         \/ xstate[x] = "SUBMITTED" /\ xstate'[x] \in {"COMPLETED", "FAILED"},
         \A c \in Caller :
           /\ pc'[c] = "queue" => pc[c] = "queue"
           /\ pc'[c] \in {"wait", "sleep", "ended"} => pc[c] \in {"wait", "sleep", "ended"}
  PROVE  PerfOwned'
<1>1. /\ cyclic \subseteq Xfer
      /\ \A c \in Caller : mine[c] \in Xfer \cup {NoXfer}
      /\ PerfOwned
  BY DEF PerfInv, TypeOK, CallerTypeOK, PerfTypes
<1>2. \A c \in Caller : mine[c] # NoXfer => xstate'[mine[c]] # "FREE"
  BY <1>1 DEF PerfOwned
<1>3. \A c \in Caller : pc'[c] \in {"wait", "sleep", "ended"} =>
        mine[c] \in Xfer /\ xstate'[mine[c]] # "NEW"
  BY <1>1 DEF PerfOwned
<1>4. \A c \in Caller : pc'[c] = "queue" =>
        mine[c] \in Xfer /\ xstate'[mine[c]] = "NEW" /\ desc_num[mine[c]] > 0
  BY <1>1 DEF PerfOwned
<1>5. \A x \in cyclic : xstate'[x] # "FREE"
  BY <1>1 DEF PerfOwned
<1>6. tester = "submit" => test \in cyclic /\ xstate'[test] = "NEW" /\ desc_num[test] > 0
  BY <1>1 DEF PerfOwned
<1> QED
  BY <1>1, <1>2, <1>3, <1>4, <1>5, <1>6 DEF PerfOwned

(* Tests are as they were, and callers at rest stay there.                  *)
LEMMA AloneFrame ==
  ASSUME TestAlone,
         UNCHANGED <<msix_enabled, tester, xdma_perf, cyclic, transfer_list>>,
         work_pc' = "resume" => work_pc = "resume",
         Apart /\ TestBegun => \A c \in Caller : pc[c] = "idle" => pc'[c] = "idle"
  PROVE  TestAlone'
BY DEF TestAlone, TestBegun, Apart, Queued

(* Steps of a caller outside the queue.                                     *)
LEMMA PerfCallerQuiet ==
  ASSUME PerfInv, NEW c \in Caller, UNCHANGED perfVars,
         \/ (Apart => NoTest) /\ CallerRequest(c)
         \/ CallerCreateFails(c) \/ Signal(c) \/ WaitEvent(c)
  PROVE  PerfInv'
<1> USE DEF PerfInv
<1>1. UNCHANGED <<xferVars, engineVars, hwVars, mine, irqVars, workVars>>
  BY DEF CallerRequest, Request, CallerCreateFails, TransferCreateFails, Signal, WaitEvent, callerVars
<1>2. /\ pc \in [Caller -> Where] /\ mine \in [Caller -> Xfer \cup {NoXfer}]
      /\ chunks \in [Caller -> 0..MaxChunks] /\ rc \in [Caller -> BOOLEAN]
      /\ result \in [Caller -> {"none", "OK", "EIO", "ERESTARTSYS"}]
  BY DEF TypeOK, CallerTypeOK
<1>3. PICK w \in Where :
        /\ pc' = [pc EXCEPT ![c] = w]
        /\ \/ w \in {"create", "idle"} /\ pc[c] \in {"idle", "create"}
           \/ w \in {"sleep", "ended"} /\ pc[c] \in {"wait", "sleep"}
  <2>1. CASE CallerRequest(c) \/ CallerCreateFails(c)
    BY <2>1 DEF CallerRequest, Request, CallerCreateFails, TransferCreateFails, Where
  <2>2. CASE Signal(c)
    BY <2>2 DEF Signal, Where
  <2>3. CASE WaitEvent(c)
    BY <2>3 DEF WaitEvent, Where
  <2> QED
    BY <2>1, <2>2, <2>3
<1>4. CallerTypeOK'
  <2>1. pc' \in [Caller -> Where]
    BY <1>2, <1>3
  <2>2. chunks' \in [Caller -> 0..MaxChunks]
    <3>1. \A n \in 1..MaxChunks : n \in 0..MaxChunks
      BY EngineConstants DEF EngineConstants
    <3>2. CASE CallerRequest(c)
      BY <1>2, <3>1, <3>2 DEF CallerRequest, Request
    <3>3. CASE CallerCreateFails(c) \/ Signal(c) \/ WaitEvent(c)
      BY <1>2, <3>3 DEF CallerCreateFails, TransferCreateFails, Signal, WaitEvent
    <3> QED
      BY <3>2, <3>3
  <2>3. rc' \in [Caller -> BOOLEAN] /\ result' \in [Caller -> {"none", "OK", "EIO", "ERESTARTSYS"}]
    BY <1>2 DEF CallerRequest, Request, CallerCreateFails, TransferCreateFails, Signal, WaitEvent
  <2>4. mine' \in [Caller -> Xfer \cup {NoXfer}]
    BY <1>1, <1>2
  <2> QED
    BY <2>1, <2>2, <2>3, <2>4 DEF CallerTypeOK
<1>5. TypeOK' /\ PerfTypes' /\ NoBug'
  <2>1. EngineTypeOK' /\ HwTypeOK'
    BY <1>1, EngineTypeFrame, HwTypeFrame DEF TypeOK
  <2> QED
    BY <1>1, <1>4, <2>1 DEF TypeOK, PerfTypes, NoBug, perfVars, irqVars, workVars, engineVars
<1>6. (RunIsHead /\ PerfReport /\ PerfMask /\ PerfQueued)'
  BY <1>1, RunFrame, MaskFrame, QueueFrame DEF xferVars, engineVars, hwVars, workVars, perfVars
<1>7. PerfOwned'
  <2>1. \A e \in Caller :
          /\ pc'[e] = "queue" => pc[e] = "queue"
          /\ pc'[e] \in {"wait", "sleep", "ended"} => pc[e] \in {"wait", "sleep", "ended"}
    BY <1>2, <1>3
  <2>2. xstate' = xstate /\ UNCHANGED <<mine, cyclic, tester, test, desc_num>>
    BY <1>1 DEF xferVars, perfVars
  <2> QED
    BY <2>1, <2>2, OwnedFrame
<1>8. TestAlone'
  <2>1. Apart => ~TestBegun
    <3>1. CASE CallerRequest(c) /\ (Apart => NoTest)
      BY <3>1 DEF NoTest, TestBegun
    <3>2. CASE CallerCreateFails(c) \/ Signal(c) \/ WaitEvent(c)
      BY <3>2 DEF TestAlone, CallerCreateFails, TransferCreateFails, Signal, WaitEvent
    <3> QED
      BY <3>1, <3>2
  <2>2. UNCHANGED <<msix_enabled, tester, xdma_perf, cyclic, transfer_list, work_pc>>
    BY <1>1 DEF irqVars, perfVars, engineVars, workVars
  <2> QED
    BY <2>1, <2>2, AloneFrame
<1>9. CompletedWasMoved'
  BY <1>1 DEF CompletedWasMoved, xferVars, hwVars
<1> QED
  BY <1>4, <1>5, <1>6, <1>7, <1>8, <1>9

LEMMA PerfCallerRereads ==
  ASSUME PerfInv, NEW c \in Caller, CallerRereads(c), UNCHANGED perfVars
  PROVE  PerfInv'
<1> USE DEF PerfInv
<1>1. /\ pc[c] = "reread"
      /\ pc' = [pc EXCEPT ![c] = "idle"]
      /\ result' = [result EXCEPT ![c] = "ERESTARTSYS"]
      /\ status' = events \cup (IF busy THEN {"BUSY"} ELSE {})
      /\ UNCHANGED <<xferVars, transfer_list, running, desc_dequeued, locked, serviced, bug, hwVars, mine,
                     chunks, rc, irqVars, workVars>>
  BY DEF CallerRereads, StatusReread
<1>2. pc \in [Caller -> Where]
  BY DEF TypeOK, CallerTypeOK
<1>3. TypeOK' /\ PerfTypes' /\ NoBug'
  <2>1. EngineTypeOK'
    <3>1. status' \subseteq Event \cup {"BUSY"}
      BY <1>1 DEF TypeOK, HwTypeOK
    <3> QED
      BY <1>1, <3>1 DEF TypeOK, EngineTypeOK, xferVars
  <2>2. HwTypeOK'
    BY <1>1, HwTypeFrame DEF TypeOK
  <2>3. CallerTypeOK'
    BY <1>1 DEF TypeOK, CallerTypeOK, Where
  <2> QED
    BY <1>1, <2>1, <2>2, <2>3 DEF TypeOK, PerfTypes, NoBug, perfVars, irqVars, workVars
<1>4. RunIsHead' /\ PerfReport'
  <2>1. "ERROR" \notin status'
    BY <1>1 DEF PerfReport
  <2>2. UNCHANGED <<active, events, work_pc, running, transfer_list, cur, desc_dequeued, count,
                    desc_num, moved>>
    BY <1>1 DEF xferVars, hwVars, workVars
  <2> QED
    BY <1>1, <2>1, <2>2 DEF RunIsHead, PerfReport, InRun, Serving, ServicedIsHead, Finishing
<1>5. PerfMask' /\ PerfQueued'
  BY <1>1, MaskFrame, QueueFrame DEF xferVars, hwVars, workVars, perfVars
<1>6. PerfOwned'
  <2>1. \A e \in Caller :
          /\ pc'[e] = "queue" => pc[e] = "queue"
          /\ pc'[e] \in {"wait", "sleep", "ended"} => pc[e] \in {"wait", "sleep", "ended"}
    BY <1>1, <1>2
  <2>2. xstate' = xstate /\ UNCHANGED <<mine, cyclic, tester, test, desc_num>>
    BY <1>1 DEF xferVars, perfVars
  <2> QED
    BY <2>1, <2>2, OwnedFrame
<1>7. TestAlone'
  <2>1. \A e \in Caller : pc[e] = "idle" => pc'[e] = "idle"
    BY <1>1, <1>2
  <2>2. UNCHANGED <<msix_enabled, tester, xdma_perf, cyclic, transfer_list, work_pc>>
    BY <1>1 DEF irqVars, perfVars, workVars
  <2> QED
    BY <2>1, <2>2, AloneFrame
<1>8. CompletedWasMoved'
  BY <1>1 DEF CompletedWasMoved, xferVars, hwVars
<1> QED
  BY <1>3, <1>4, <1>5, <1>6, <1>7, <1>8

(* A transfer that is given back was not queued, or is being taken off, and *)
(* was its caller's only.                                                   *)
LEMMA PerfCallerEnds ==
  ASSUME PerfInv, NEW c \in Caller, CallerEnds(c), UNCHANGED perfVars
  PROVE  PerfInv'
<1> DEFINE x == mine[c]
<1> USE DEF PerfInv
<1>1. /\ pc[c] = "ended"
      /\ mine' = [mine EXCEPT ![c] = NoXfer]
      /\ UNCHANGED <<desc_num, engineVars, hwVars, irqVars, workVars>>
      /\ xstate' = IF xstate[x] # "SUBMITTED" THEN [xstate EXCEPT ![x] = "FREE"] ELSE xstate
  BY DEF CallerEnds, AfterMonitor
<1>2. PICK w \in {"reread", "create", "idle"} : pc' = [pc EXCEPT ![c] = w]
  BY DEF CallerEnds, AfterMonitor
<1>3. /\ pc \in [Caller -> Where] /\ mine \in [Caller -> Xfer \cup {NoXfer}]
      /\ chunks \in [Caller -> 0..MaxChunks] /\ rc \in [Caller -> BOOLEAN]
      /\ result \in [Caller -> {"none", "OK", "EIO", "ERESTARTSYS"}]
      /\ xstate \in [Xfer -> XferState] /\ NoXfer \notin Xfer
  BY EngineConstants DEF TypeOK, CallerTypeOK, EngineTypeOK, EngineConstants
<1>4. x \in Xfer /\ x \notin cyclic /\ \A e \in Caller : e # c => mine[e] # x
  BY <1>1, <1>3 DEF PerfOwned
<1>5. PICK freed \in {x, NoXfer} :
        /\ freed = x => xstate[x] # "SUBMITTED"
        /\ \A y \in Xfer : xstate'[y] = IF y = freed THEN "FREE" ELSE xstate[y]
  <2>1. CASE xstate[x] # "SUBMITTED"
    BY <1>1, <1>3, <1>4, <2>1
  <2>2. CASE xstate[x] = "SUBMITTED"
    BY <1>1, <1>3, <1>4, <2>2
  <2> QED
    BY <2>1, <2>2
<1>6. TypeOK' /\ PerfTypes' /\ NoBug'
  <2>1. EngineTypeOK'
    <3>1. xstate' \in [Xfer -> XferState]
      BY <1>1, <1>3 DEF XferState
    <3> QED
      BY <1>1, <3>1 DEF TypeOK, EngineTypeOK, engineVars
  <2>2. HwTypeOK'
    BY <1>1, HwTypeFrame DEF TypeOK
  <2>3. CallerTypeOK'
    <3>1. pc' \in [Caller -> Where]
      BY <1>2, <1>3 DEF Where
    <3>2. mine' \in [Caller -> Xfer \cup {NoXfer}]
      BY <1>1, <1>3
    <3>3. chunks' \in [Caller -> 0..MaxChunks]
      <4>1. PICK n : /\ chunks' = [chunks EXCEPT ![c] = n]
                     /\ \/ n = 0
                        \/ chunks[c] > 1 /\ n = chunks[c] - 1
        BY <1>3 DEF CallerEnds, AfterMonitor
      <4>2. n \in 0..MaxChunks
        BY <1>3, <4>1, EngineConstants DEF EngineConstants
      <4> QED
        BY <1>3, <4>1, <4>2
    <3>4. rc' \in [Caller -> BOOLEAN]
      BY <1>3 DEF CallerEnds, AfterMonitor
    <3>5. result' \in [Caller -> {"none", "OK", "EIO", "ERESTARTSYS"}]
      BY <1>3 DEF CallerEnds, AfterMonitor
    <3> QED
      BY <3>1, <3>2, <3>3, <3>4, <3>5 DEF CallerTypeOK
  <2> QED
    BY <1>1, <2>1, <2>2, <2>3 DEF TypeOK, PerfTypes, NoBug, perfVars, irqVars, workVars, engineVars
<1>7. (RunIsHead /\ PerfReport /\ PerfMask)'
  BY <1>1, RunFrame, MaskFrame DEF engineVars, hwVars, workVars, perfVars
<1>8. PerfQueued'
  <2>1. UNCHANGED <<transfer_list, desc_num, serviced, work_pc>> /\ Queued' = Queued
    BY <1>1 DEF engineVars, workVars, Queued
  <2>2. ASSUME NEW y \in Queued
        PROVE  xstate'[y] = "SUBMITTED" \/ (work_pc = "unlink" /\ y = serviced)
    <3>1. y \in Xfer /\ (xstate[y] = "SUBMITTED" \/ (work_pc = "unlink" /\ y = serviced))
      BY <2>2, QueuedInXfer DEF PerfQueued
    <3> QED
      BY <1>3, <1>5, <3>1
  <2> QED
    BY <2>1, <2>2 DEF PerfQueued
<1>9. PerfOwned'
  <2>1. \A e \in Caller : mine'[e] = IF e = c THEN NoXfer ELSE mine[e]
    BY <1>1, <1>3
  <2>2. \A e \in Caller : mine'[e] # NoXfer =>
          e # c /\ mine'[e] = mine[e] /\ mine[e] \in Xfer /\ mine[e] # freed /\ xstate'[mine[e]] = xstate[mine[e]]
    BY <1>3, <1>4, <1>5, <2>1
  <2>3. \A e \in Caller : pc'[e] \in {"queue", "wait", "sleep", "ended"} => e # c /\ pc'[e] = pc[e]
    BY <1>2, <1>3
  <2>4. \A y \in cyclic : y \in Xfer /\ xstate'[y] = xstate[y]
    BY <1>3, <1>4, <1>5 DEF PerfTypes
  <2>5. UNCHANGED <<cyclic, tester, test, desc_num>>
    BY <1>1 DEF perfVars
  <2>6. \A e, f \in Caller : mine'[e] # NoXfer /\ mine'[e] = mine'[f] => e = f
    BY <2>1 DEF PerfOwned
  <2>7. \A e \in Caller : mine'[e] \notin cyclic
    BY <1>3, <2>1 DEF PerfOwned, PerfTypes
  <2>8. \A e \in Caller : mine'[e] # NoXfer => xstate'[mine'[e]] # "FREE"
    BY <2>2 DEF PerfOwned
  <2>9. \A e \in Caller : /\ pc'[e] \in {"wait", "sleep", "ended"} => mine'[e] \in Xfer /\ xstate'[mine'[e]] # "NEW"
                          /\ pc'[e] = "queue" => mine'[e] \in Xfer /\ xstate'[mine'[e]] = "NEW"
                                                 /\ desc_num[mine'[e]] > 0
    <3> TAKE e \in Caller
    <3>1. CASE pc'[e] \in {"queue", "wait", "sleep", "ended"}
      <4>1. e # c /\ pc'[e] = pc[e] /\ mine'[e] = mine[e]
        BY <2>1, <2>3, <3>1
      <4>2. mine[e] \in Xfer
        BY <3>1, <4>1 DEF PerfOwned
      <4>3. xstate'[mine[e]] = xstate[mine[e]]
        BY <1>3, <2>2, <4>1, <4>2
      <4> QED
        BY <3>1, <4>1, <4>2, <4>3 DEF PerfOwned
    <3>2. CASE pc'[e] \notin {"queue", "wait", "sleep", "ended"}
      BY <3>2
    <3> QED
      BY <3>1, <3>2
  <2> QED
    BY <2>4, <2>5, <2>6, <2>7, <2>8, <2>9 DEF PerfOwned
<1>10. TestAlone'
  <2>1. Apart => ~TestBegun
    BY <1>1 DEF TestAlone
  <2>2. UNCHANGED <<msix_enabled, tester, xdma_perf, cyclic, transfer_list, work_pc>>
    BY <1>1 DEF irqVars, perfVars, engineVars, workVars
  <2> QED
    BY <2>1, <2>2, AloneFrame
<1>11. CompletedWasMoved'
  BY <1>1, <1>5 DEF CompletedWasMoved, hwVars
<1> QED
  BY <1>6, <1>7, <1>8, <1>9, <1>10, <1>11

(* A new transfer of a caller or of a test: it was free, so it was nobody's *)
(* and not in use.                                                          *)
Created(x, d) ==
  /\ x \in Xfer /\ d \in 1..MaxDesc
  /\ xstate[x] = "FREE"
  /\ xstate' = [xstate EXCEPT ![x] = "NEW"]
  /\ desc_num' = [desc_num EXCEPT ![x] = d]
  /\ moved' = moved \ {x}
  /\ UNCHANGED <<engineVars, run, active, busy, cur, count, events, wb, irqVars, workVars, taken>>

LEMMA CreatedIsNew ==
  ASSUME PerfInv, Alive, NEW x, NEW d, Created(x, d)
  PROVE  /\ x \notin Queued /\ x \notin cyclic /\ \A c \in Caller : mine[c] # x
         /\ xstate'[x] = "NEW" /\ desc_num'[x] = d /\ d > 0
         /\ \A y \in Xfer : y # x => xstate'[y] = xstate[y] /\ desc_num'[y] = desc_num[y]
<1> USE DEF PerfInv, Created
<1>1. x # NoXfer /\ d \in 1..MaxDesc /\ MaxDesc \in Nat
  BY EngineConstants DEF EngineConstants
<1>2. x \notin Queued
  BY DEF Alive, FreedInUse, InUse
<1>3. x \notin cyclic /\ \A c \in Caller : mine[c] # x
  BY <1>1 DEF PerfOwned
<1>4. xstate \in [Xfer -> XferState] /\ desc_num \in [Xfer -> 0..MaxDesc]
  BY DEF TypeOK, EngineTypeOK
<1> QED
  BY <1>1, <1>2, <1>3, <1>4

LEMMA CreatedKeeps ==
  ASSUME PerfInv, Alive, NEW x, NEW d, Created(x, d)
  PROVE  /\ EngineTypeOK' /\ HwTypeOK'
         /\ (NoBug /\ RunIsHead /\ PerfReport /\ PerfMask /\ PerfQueued /\ CompletedWasMoved)'
<1> USE DEF PerfInv
<1>1. /\ x \in Xfer /\ d \in 1..MaxDesc
      /\ xstate' = [xstate EXCEPT ![x] = "NEW"] /\ desc_num' = [desc_num EXCEPT ![x] = d]
      /\ moved' = moved \ {x}
      /\ UNCHANGED <<transfer_list, running, desc_dequeued, status, locked, serviced, bug, run, active, busy,
                     cur, count, events, wb, irqVars, work_pending, work_pc, taken>>
  BY DEF Created, engineVars, workVars
<1>2. /\ x \notin Queued /\ xstate'[x] = "NEW" /\ d \in 0..MaxDesc
      /\ \A y \in Xfer : y # x => xstate'[y] = xstate[y] /\ desc_num'[y] = desc_num[y]
  BY <1>1, CreatedIsNew, EngineConstants DEF EngineConstants
<1>3. EngineTypeOK'
  <2>1. xstate' \in [Xfer -> XferState]
    BY <1>1 DEF TypeOK, EngineTypeOK, XferState
  <2>2. desc_num' \in [Xfer -> 0..MaxDesc]
    BY <1>1, <1>2 DEF TypeOK, EngineTypeOK
  <2> QED
    BY <1>1, <2>1, <2>2 DEF TypeOK, EngineTypeOK
<1>4. HwTypeOK'
  BY <1>1 DEF TypeOK, HwTypeOK
<1>5. InRun => cur # x /\ cur \in Xfer /\ desc_num'[cur] = desc_num[cur]
  <2>1. ASSUME InRun PROVE cur \in Queued
    BY <2>1, QueuedIsElems, TailFacts DEF RunIsHead, TypeOK, EngineTypeOK
  <2> QED
    BY <1>2, <2>1, QueuedInXfer
<1>6. InRun' = InRun
  BY <1>1 DEF InRun, Serving
<1>7. RunIsHead'
  BY <1>1, <1>5, <1>6 DEF RunIsHead
<1>8. PerfReport'
  BY <1>1, <1>5, <1>6 DEF PerfReport, Serving, ServicedIsHead, Finishing
<1>9. PerfMask'
  BY <1>1, MaskFrame
<1>10. PerfQueued'
  <2>1. Queued' = Queued /\ \A y \in Queued : y \in Xfer /\ y # x
    BY <1>1, <1>2, QueuedInXfer DEF Queued
  <2> QED
    BY <1>1, <1>2, <2>1 DEF PerfQueued
<1>11. CompletedWasMoved'
  BY <1>1, <1>2 DEF CompletedWasMoved
<1> QED
  BY <1>1, <1>3, <1>4, <1>7, <1>8, <1>9, <1>10, <1>11 DEF NoBug

LEMMA PerfCallerCreate ==
  ASSUME PerfInv, Alive, NEW c \in Caller, CallerCreate(c), UNCHANGED perfVars
  PROVE  PerfInv'
<1> USE DEF PerfInv
<1>1. PICK x \in Xfer, d \in 1..MaxDesc :
           /\ xstate[x] = "FREE"
           /\ xstate' = [xstate EXCEPT ![x] = "NEW"]
           /\ desc_num' = [desc_num EXCEPT ![x] = d]
           /\ moved' = moved \ {x}
           /\ mine' = [mine EXCEPT ![c] = x]
  BY DEF CallerCreate, TransferCreate
<1>2. /\ pc[c] = "create"
      /\ pc' = [pc EXCEPT ![c] = "queue"]
      /\ UNCHANGED <<engineVars, run, active, busy, cur, count, events, wb, chunks, rc, result,
                     irqVars, workVars>>
  BY DEF CallerCreate, TransferCreate
<1>3. Created(x, d)
  BY <1>1, <1>2 DEF Created, perfVars
<1>4. EngineTypeOK' /\ HwTypeOK' /\ (NoBug /\ RunIsHead /\ PerfReport /\ PerfMask /\ PerfQueued /\ CompletedWasMoved)'
  BY <1>3, CreatedKeeps
<1>5. /\ x \notin Queued /\ x \notin cyclic /\ \A e \in Caller : mine[e] # x
      /\ xstate'[x] = "NEW" /\ desc_num'[x] = d /\ d > 0
      /\ \A y \in Xfer : y # x => xstate'[y] = xstate[y] /\ desc_num'[y] = desc_num[y]
  BY <1>3, CreatedIsNew
<1>6. pc \in [Caller -> Where] /\ mine \in [Caller -> Xfer \cup {NoXfer}]
  BY DEF TypeOK, CallerTypeOK
<1>7. TypeOK' /\ PerfTypes'
  <2>1. CallerTypeOK'
    BY <1>1, <1>2 DEF TypeOK, CallerTypeOK, Where
  <2> QED
    BY <1>2, <1>4, <2>1 DEF TypeOK, PerfTypes, perfVars, irqVars, workVars
<1>8. PerfOwned'
  <2>1. \A e \in Caller : IF e = c THEN mine'[e] = x /\ pc'[e] = "queue"
                          ELSE mine'[e] = mine[e] /\ mine[e] # x /\ pc'[e] = pc[e]
    BY <1>1, <1>2, <1>5, <1>6
  <2>2. UNCHANGED <<cyclic, tester, test>>
    BY DEF perfVars
  <2>3. \A e \in Caller : mine[e] # NoXfer =>
          mine[e] \in Xfer /\ xstate'[mine[e]] = xstate[mine[e]] /\ desc_num'[mine[e]] = desc_num[mine[e]]
    BY <1>5, <1>6
  <2>4. \A e, f \in Caller : mine'[e] # NoXfer /\ mine'[e] = mine'[f] => e = f
    BY <2>1 DEF PerfOwned
  <2>5. \A e \in Caller : mine'[e] \notin cyclic /\ (mine'[e] # NoXfer => xstate'[mine'[e]] # "FREE")
    BY <1>5, <2>1, <2>3 DEF PerfOwned
  <2>6. \A e \in Caller : pc'[e] \in {"wait", "sleep", "ended"} => mine'[e] \in Xfer /\ xstate'[mine'[e]] # "NEW"
    BY <1>5, <2>1 DEF PerfOwned
  <2>7. \A e \in Caller : pc'[e] = "queue" =>
          mine'[e] \in Xfer /\ xstate'[mine'[e]] = "NEW" /\ desc_num'[mine'[e]] > 0
    <3> TAKE e \in Caller
    <3>1. CASE e = c
      BY <1>5, <2>1, <3>1
    <3>2. CASE e # c
      BY <1>5, <2>1, <3>2 DEF PerfOwned
    <3> QED
      BY <3>1, <3>2
  <2>8. \A y \in cyclic : y \in Xfer /\ xstate'[y] = xstate[y] /\ desc_num'[y] = desc_num[y]
    BY <1>5 DEF PerfTypes
  <2>9. (\A y \in cyclic : xstate[y] # "FREE")
        /\ (tester = "submit" => test \in cyclic /\ xstate[test] = "NEW" /\ desc_num[test] > 0)
    BY DEF PerfOwned
  <2>10. (\A y \in cyclic : xstate'[y] # "FREE")
         /\ (tester = "submit" => test \in cyclic /\ xstate'[test] = "NEW" /\ desc_num'[test] > 0)
    BY <2>8, <2>9
  <2> QED
    BY <2>2, <2>4, <2>5, <2>6, <2>7, <2>10 DEF PerfOwned
<1>9. TestAlone'
  <2>1. Apart => ~TestBegun
    BY <1>2 DEF TestAlone
  <2>2. UNCHANGED <<msix_enabled, tester, xdma_perf, cyclic, transfer_list, work_pc>>
    BY <1>2 DEF irqVars, perfVars, engineVars, workVars
  <2> QED
    BY <2>1, <2>2, AloneFrame
<1> QED
  BY <1>4, <1>7, <1>8, <1>9

LEMMA PerfStartKeeps ==
  ASSUME PerfInv, Alive, PerfStart
  PROVE  PerfInv'
<1> USE DEF PerfInv
<1>1. PICK x \in Xfer :
           /\ xstate[x] = "FREE"
           /\ xstate' = [xstate EXCEPT ![x] = "NEW"]
           /\ desc_num' = [desc_num EXCEPT ![x] = MaxDesc]
           /\ cyclic' = cyclic \cup {x}
           /\ moved' = moved \ {x}
           /\ test' = x
  BY DEF PerfStart
<1>2. /\ Apart => AtRest
      /\ tester = "idle" /\ tester' = "submit"
      /\ xdma_perf' = TRUE
      /\ UNCHANGED <<engineVars, run, active, busy, cur, count, events, wb, callerVars, irqVars,
                     workVars, careful, idle_enabled, taken, perf_step>>
  BY DEF PerfStart
<1>3. MaxDesc \in 1..MaxDesc
  BY EngineConstants DEF EngineConstants
<1>4. Created(x, MaxDesc)
  BY <1>1, <1>2, <1>3 DEF Created
<1>5. EngineTypeOK' /\ HwTypeOK' /\ (NoBug /\ RunIsHead /\ PerfReport /\ PerfMask /\ PerfQueued /\ CompletedWasMoved)'
  BY <1>4, CreatedKeeps
<1>6. /\ x \notin Queued /\ x \notin cyclic /\ \A e \in Caller : mine[e] # x
      /\ xstate'[x] = "NEW" /\ desc_num'[x] = MaxDesc /\ MaxDesc > 0
      /\ \A y \in Xfer : y # x => xstate'[y] = xstate[y] /\ desc_num'[y] = desc_num[y]
  BY <1>4, CreatedIsNew
<1>7. TypeOK' /\ PerfTypes'
  <2>1. CallerTypeOK'
    BY <1>2, CallerTypeFrame DEF TypeOK
  <2> QED
    BY <1>1, <1>2, <1>5, <2>1 DEF TypeOK, PerfTypes, irqVars, workVars
<1>8. PerfOwned'
  <2>1. UNCHANGED <<pc, mine>> /\ mine \in [Caller -> Xfer \cup {NoXfer}]
    BY <1>2 DEF callerVars, TypeOK, CallerTypeOK
  <2>2. \A e \in Caller : mine[e] # NoXfer =>
          mine[e] \in Xfer /\ xstate'[mine[e]] = xstate[mine[e]] /\ desc_num'[mine[e]] = desc_num[mine[e]]
    BY <1>6, <2>1
  <2>3. \A e, f \in Caller : mine'[e] # NoXfer /\ mine'[e] = mine'[f] => e = f
    BY <2>1 DEF PerfOwned
  <2>4. \A e \in Caller : mine'[e] \notin cyclic'
    BY <1>1, <1>6, <2>1 DEF PerfOwned
  <2>5. \A e \in Caller : mine'[e] # NoXfer => xstate'[mine'[e]] # "FREE"
    BY <2>1, <2>2 DEF PerfOwned
  <2>6. \A e \in Caller : pc'[e] \in {"wait", "sleep", "ended"} => mine'[e] \in Xfer /\ xstate'[mine'[e]] # "NEW"
    BY <1>6, <2>1 DEF PerfOwned
  <2>7. \A e \in Caller : pc'[e] = "queue" =>
          mine'[e] \in Xfer /\ xstate'[mine'[e]] = "NEW" /\ desc_num'[mine'[e]] > 0
    BY <1>6, <2>1 DEF PerfOwned
  <2>8. \A y \in cyclic' : xstate'[y] # "FREE"
    BY <1>1, <1>6 DEF PerfOwned, PerfTypes
  <2>9. test' \in cyclic' /\ xstate'[test'] = "NEW" /\ desc_num'[test'] > 0
    BY <1>1, <1>6
  <2> QED
    BY <2>3, <2>4, <2>5, <2>6, <2>7, <2>8, <2>9 DEF PerfOwned
<1>9. TestAlone'
  <2>1. Apart' = Apart /\ transfer_list' = transfer_list /\ pc' = pc
    BY <1>2 DEF Apart, irqVars, engineVars, callerVars
  <2>2. Apart => transfer_list = << >> /\ \A c \in Caller : pc[c] = "idle"
    BY <1>2 DEF AtRest
  <2>3. Len(<< >>) <= 1
    BY EmptySeq
  <2> QED
    BY <1>2, <2>1, <2>2, <2>3 DEF TestAlone
<1> QED
  BY <1>5, <1>7, <1>8, <1>9

(* transfer_queue() of a new transfer, by a caller or by a test.  Only a    *)
(* stopped engine is started, whose interrupt is not masked then.           *)
LEMMA PerfQueueKeeps ==
  ASSUME PerfInv, NEW x \in Xfer, xstate[x] = "NEW", desc_num[x] > 0,
         TransferQueue(x), StartModeConfig,
         UNCHANGED <<msix_enabled, channel_enabled, saved_mask, workVars, taken>>
  PROVE  /\ EngineTypeOK' /\ HwTypeOK'
         /\ (NoBug /\ RunIsHead /\ PerfReport /\ PerfMask /\ PerfQueued /\ CompletedWasMoved)'
         /\ UNCHANGED irqVars
         /\ xstate'[x] = "SUBMITTED" /\ \A y \in Xfer : y # x => xstate'[y] = xstate[y]
         /\ Queued' = Queued \cup {x} /\ Len(transfer_list') = Len(transfer_list) + 1
<1> USE DEF PerfInv
<1>1. /\ ~locked
      /\ xstate' = [xstate EXCEPT ![x] = "SUBMITTED"]
      /\ transfer_list' = Append(transfer_list, x)
      /\ UNCHANGED <<desc_num, status, locked, serviced, bug, events, wb, moved>>
      /\ IF running
         THEN UNCHANGED <<running, desc_dequeued, run, active, busy, cur, count>>
         ELSE EngineStart(Head(transfer_list'))
  BY DEF TransferQueue
<1>2. /\ transfer_list \in Seq(Xfer) /\ xstate \in [Xfer -> XferState]
      /\ desc_num \in [Xfer -> 0..MaxDesc]
  BY DEF TypeOK, EngineTypeOK
<1>3. /\ transfer_list' \in Seq(Xfer) /\ transfer_list' # << >> /\ Head(transfer_list') \in Xfer
      /\ transfer_list # << >> => Head(transfer_list') = Head(transfer_list)
      /\ Queued' = Queued \cup {x}
  BY <1>1, <1>2, AppendFacts, QueuedIsElems
<1>4. work_pc = "idle" /\ (~running => ~InRun)
  BY <1>1 DEF PerfMask, RunIsHead
<1>5. xstate'[x] = "SUBMITTED" /\ \A y \in Xfer : y # x => xstate'[y] = xstate[y]
  BY <1>1, <1>2
<1>6. x \notin Queued
  BY <1>4 DEF PerfQueued
<1>7. PerfQueued'
  <2>1. Distinct(transfer_list')
    BY <1>1, <1>2, <1>6, AppendDistinct, QueuedIsElems DEF PerfQueued
  <2>2. \A y \in Queued : y \in Xfer /\ y # x
    BY <1>6, QueuedInXfer
  <2> QED
    BY <1>1, <1>3, <1>4, <1>5, <2>1, <2>2 DEF PerfQueued
<1>8. UNCHANGED irqVars
  <2>1. CASE running
    BY <1>1, <2>1 DEF StartModeConfig, irqVars
  <2>2. CASE ~running
    <3>1. ~PerfDue
      BY <1>4, <2>2 DEF PerfDue, PerfMask, InRun
    <3>2. enable_mask = TRUE
      BY <3>1 DEF PerfMask, TypeOK
    <3> QED
      BY <3>2 DEF StartModeConfig, irqVars
  <2> QED
    BY <2>1, <2>2
<1>9. PerfMask'
  BY <1>1, <1>8, MaskFrame DEF workVars
<1>10. CompletedWasMoved'
  BY <1>1, <1>5 DEF CompletedWasMoved
<1>11. EngineTypeOK' /\ HwTypeOK' /\ RunIsHead' /\ PerfReport'
  <2>0. xstate' \in [Xfer -> XferState]
    BY <1>1, <1>2 DEF XferState
  <2>1. CASE running
    <3>1. UNCHANGED <<running, desc_dequeued, run, active, busy, cur, count>>
      BY <1>1, <2>1
    <3>2. EngineTypeOK'
      BY <1>1, <1>2, <1>3, <2>0, <3>1 DEF TypeOK, EngineTypeOK
    <3>3. HwTypeOK'
      BY <1>1, <3>1 DEF TypeOK, HwTypeOK
    <3>4. InRun' = InRun /\ Serving' = Serving
      BY <1>1, <3>1 DEF InRun, Serving, workVars
    <3>5. RunIsHead'
      BY <1>1, <1>3, <2>1, <3>1, <3>4 DEF RunIsHead
    <3>6. PerfReport'
      BY <1>1, <1>4, <3>1, <3>4 DEF PerfReport, ServicedIsHead, Finishing, workVars
    <3> QED
      BY <3>2, <3>3, <3>5, <3>6
  <2>2. CASE ~running
    <3> DEFINE h == Head(transfer_list')
    <3>1. /\ running' = TRUE /\ desc_dequeued' = 0 /\ run' = TRUE /\ active' = TRUE /\ busy' = TRUE
          /\ cur' = h /\ count' = 0
      BY <1>1, <2>2 DEF EngineStart
    <3>2. h \in Xfer /\ h \in Queued' /\ desc_num'[h] = desc_num[h] /\ desc_num[h] > 0 /\ desc_num[h] \in Nat
      <4>1. h \in Queued'
        BY <1>3, TailFacts, QueuedIsElems
      <4>2. desc_num'[h] > 0
        BY <1>7, <4>1 DEF PerfQueued
      <4> QED
        BY <1>1, <1>2, <1>3, <4>1, <4>2
    <3> HIDE DEF h
    <3>3. 0 \in Nat /\ 0 \in 0..MaxDesc
      BY EngineConstants DEF EngineConstants
    <3>4. EngineTypeOK'
      BY <1>1, <1>2, <1>3, <2>0, <3>1, <3>3 DEF TypeOK, EngineTypeOK
    <3>5. HwTypeOK'
      BY <1>1, <3>1, <3>2, <3>3 DEF TypeOK, HwTypeOK
    <3>6. events' = {} /\ ~Serving'
      BY <1>1, <1>4, <2>2 DEF InRun, Serving, workVars
    <3>7. RunIsHead'
      BY <1>1, <1>3, <3>1, <3>2 DEF RunIsHead, h
    <3>8. PerfReport'
      BY <1>1, <1>4, <3>1, <3>2, <3>6 DEF PerfReport, ServicedIsHead, Finishing, workVars
    <3> QED
      BY <3>4, <3>5, <3>7, <3>8
  <2> QED
    BY <2>1, <2>2
<1>12. Len(transfer_list') = Len(transfer_list) + 1
  BY <1>1, <1>2
<1> QED
  BY <1>1, <1>3, <1>5, <1>7, <1>8, <1>9, <1>10, <1>11, <1>12 DEF NoBug

LEMMA PerfSubmitKeeps ==
  ASSUME PerfInv, NEW c \in Caller, PerfSubmit(c)
  PROVE  PerfInv'
<1> DEFINE x == mine[c]
<1> USE DEF PerfInv
<1>1. /\ pc[c] = "queue"
      /\ pc' = [pc EXCEPT ![c] = "wait"]
      /\ UNCHANGED <<mine, chunks, rc, result>>
      /\ TransferQueue(x) /\ StartModeConfig
      /\ UNCHANGED <<msix_enabled, channel_enabled, saved_mask, workVars,
                     careful, xdma_perf, cyclic, tester, test, taken, perf_step>>
  BY DEF PerfSubmit, Submit
<1>2. x \in Xfer /\ xstate[x] = "NEW" /\ desc_num[x] > 0 /\ x \notin cyclic
  BY <1>1 DEF PerfOwned
<1>3. /\ EngineTypeOK' /\ HwTypeOK'
      /\ (NoBug /\ RunIsHead /\ PerfReport /\ PerfMask /\ PerfQueued /\ CompletedWasMoved)'
      /\ UNCHANGED irqVars
      /\ xstate'[x] = "SUBMITTED" /\ \A y \in Xfer : y # x => xstate'[y] = xstate[y]
      /\ Queued' = Queued \cup {x} /\ Len(transfer_list') = Len(transfer_list) + 1
  BY <1>1, <1>2, PerfQueueKeeps
<1>4. desc_num' = desc_num
  BY <1>1 DEF TransferQueue
<1>5. pc \in [Caller -> Where] /\ mine \in [Caller -> Xfer \cup {NoXfer}] /\ NoXfer \notin Xfer
  BY EngineConstants DEF TypeOK, CallerTypeOK, EngineConstants
<1>6. TypeOK' /\ PerfTypes'
  <2>1. CallerTypeOK'
    BY <1>1 DEF TypeOK, CallerTypeOK, Where
  <2>2. idle_enabled' \in BOOLEAN
    BY <1>1 DEF StartModeConfig, PerfTypes
  <2>3. work_pending' = work_pending /\ work_pc' = work_pc
    BY <1>1 DEF workVars
  <2>4. PerfTypes'
    BY <1>1, <2>2 DEF PerfTypes
  <2> QED
    BY <1>3, <2>1, <2>3, <2>4 DEF TypeOK, irqVars
<1>7. PerfOwned'
  <2>1. \A e \in Caller : IF e = c THEN pc'[e] = "wait" ELSE mine[e] # x /\ pc'[e] = pc[e]
    BY <1>1, <1>2, <1>5 DEF PerfOwned
  <2>2. \A e \in Caller : mine[e] # NoXfer => mine[e] \in Xfer
    BY <1>5
  <2>3. \A e \in Caller : e # c /\ mine[e] # NoXfer => xstate'[mine[e]] = xstate[mine[e]]
    BY <1>3, <2>1, <2>2
  <2>4. \A e \in Caller : mine[e] # NoXfer => xstate'[mine[e]] # "FREE"
    BY <1>3, <2>3 DEF PerfOwned
  <2>5. \A e \in Caller : pc'[e] \in {"wait", "sleep", "ended"} => mine[e] \in Xfer /\ xstate'[mine[e]] # "NEW"
    <3> TAKE e \in Caller
    <3>1. CASE e = c
      BY <1>2, <1>3, <3>1
    <3>2. CASE e # c
      BY <1>3, <2>1, <3>2 DEF PerfOwned
    <3> QED
      BY <3>1, <3>2
  <2>6. \A e \in Caller : pc'[e] = "queue" => mine[e] \in Xfer /\ xstate'[mine[e]] = "NEW" /\ desc_num[mine[e]] > 0
    BY <1>3, <2>1 DEF PerfOwned
  <2>7. \A y \in cyclic : y \in Xfer /\ xstate'[y] = xstate[y]
    BY <1>2, <1>3 DEF PerfTypes
  <2>8. \A y \in cyclic : xstate'[y] # "FREE"
    BY <2>7 DEF PerfOwned
  <2>9. tester = "submit" => test \in cyclic /\ xstate'[test] = "NEW" /\ desc_num[test] > 0
    BY <2>7 DEF PerfOwned
  <2>10. \A e \in Caller : mine[e] \notin cyclic
    BY DEF PerfOwned
  <2>11. \A e, f \in Caller : mine[e] # NoXfer /\ mine[e] = mine[f] => e = f
    BY DEF PerfOwned
  <2> QED
    BY <1>1, <1>4, <2>4, <2>5, <2>6, <2>8, <2>9, <2>10, <2>11 DEF PerfOwned
<1>8. TestAlone'
  <2>1. Apart => ~TestBegun
    BY <1>1 DEF TestAlone
  <2>2. /\ Apart' = Apart /\ UNCHANGED <<tester, xdma_perf, cyclic>>
        /\ TestBegun' = TestBegun
    BY <1>1, <1>2, <1>3 DEF Apart, TestBegun
  <2>3. Apart => tester = "idle"
    BY <2>1 DEF TestAlone, TestBegun, PerfTypes
  <2> QED
    BY <2>1, <2>2, <2>3 DEF TestAlone
<1> QED
  BY <1>3, <1>6, <1>7, <1>8

LEMMA PerfQueueTest ==
  ASSUME PerfInv, PerfQueue
  PROVE  PerfInv'
<1> USE DEF PerfInv
<1>1. /\ tester = "submit" /\ tester' = "idle" /\ test' = NoXfer
      /\ TransferQueue(test) /\ StartModeConfig
      /\ UNCHANGED <<callerVars, msix_enabled, channel_enabled, saved_mask, workVars,
                     careful, xdma_perf, cyclic, taken, perf_step>>
  BY DEF PerfQueue
<1>2. test \in Xfer /\ xstate[test] = "NEW" /\ desc_num[test] > 0 /\ test \in cyclic
  BY <1>1 DEF PerfOwned, PerfTypes
<1>3. /\ EngineTypeOK' /\ HwTypeOK'
      /\ (NoBug /\ RunIsHead /\ PerfReport /\ PerfMask /\ PerfQueued /\ CompletedWasMoved)'
      /\ UNCHANGED irqVars
      /\ xstate'[test] = "SUBMITTED" /\ \A y \in Xfer : y # test => xstate'[y] = xstate[y]
      /\ Queued' = Queued \cup {test} /\ Len(transfer_list') = Len(transfer_list) + 1
  BY <1>1, <1>2, PerfQueueKeeps
<1>4. desc_num' = desc_num /\ UNCHANGED <<pc, mine>>
  BY <1>1 DEF TransferQueue, callerVars
<1>5. TypeOK' /\ PerfTypes'
  <2>1. CallerTypeOK'
    BY <1>1, CallerTypeFrame DEF TypeOK
  <2>2. idle_enabled' \in BOOLEAN
    BY <1>1 DEF StartModeConfig, PerfTypes
  <2>3. work_pending' = work_pending /\ work_pc' = work_pc
    BY <1>1 DEF workVars
  <2>4. PerfTypes'
    BY <1>1, <2>2 DEF PerfTypes
  <2> QED
    BY <1>3, <2>1, <2>3, <2>4 DEF TypeOK, irqVars
<1>6. PerfOwned'
  <2>1. \A e \in Caller : mine[e] # test /\ (mine[e] # NoXfer => mine[e] \in Xfer)
    BY <1>2 DEF PerfOwned, TypeOK, CallerTypeOK
  <2>2. \A e \in Caller : mine[e] # NoXfer => xstate'[mine[e]] = xstate[mine[e]]
    BY <1>3, <2>1
  <2>3. \A e \in Caller : mine[e] # NoXfer => xstate'[mine[e]] # "FREE"
    BY <2>2 DEF PerfOwned
  <2>4. \A e \in Caller : pc[e] \in {"wait", "sleep", "ended"} => mine[e] \in Xfer /\ xstate'[mine[e]] # "NEW"
    BY <1>3, <2>1 DEF PerfOwned
  <2>5. \A e \in Caller : pc[e] = "queue" => mine[e] \in Xfer /\ xstate'[mine[e]] = "NEW" /\ desc_num[mine[e]] > 0
    BY <1>3, <2>1 DEF PerfOwned
  <2>6. \A y \in cyclic : xstate'[y] # "FREE"
    BY <1>3 DEF PerfOwned, PerfTypes
  <2>7. /\ \A e \in Caller : mine[e] \notin cyclic
        /\ \A e, f \in Caller : mine[e] # NoXfer /\ mine[e] = mine[f] => e = f
    BY DEF PerfOwned
  <2> QED
    BY <1>1, <1>4, <2>3, <2>4, <2>5, <2>6, <2>7 DEF PerfOwned
<1>7. TestAlone'
  <2>1. Apart' = Apart /\ xdma_perf' = xdma_perf /\ pc' = pc
    BY <1>1, <1>4 DEF Apart
  <2>2. Apart => transfer_list = << >> /\ xdma_perf
    BY <1>1 DEF TestAlone
  <2>3. Apart => \A e \in Caller : pc[e] = "idle"
    BY <2>2 DEF TestAlone, TestBegun
  <2>4. Len(<< >>) = 0
    BY EmptySeq
  <2>5. Apart => Len(transfer_list') <= 1
    BY <1>3, <2>2, <2>4
  <2>6. work_pc' = "idle"
    BY <1>1 DEF TransferQueue, PerfMask, workVars
  <2> QED
    BY <1>1, <2>1, <2>3, <2>5, <2>6 DEF TestAlone
<1> QED
  BY <1>3, <1>5, <1>6, <1>7

(* What the channel does: a request's or a test's transfer goes on, ends,   *)
(* or is halted half-way.                                                   *)
LEMMA PerfHardwareKeeps ==
  ASSUME PerfInv, Hardware
  PROVE  PerfInv'
<1> USE DEF PerfInv
<1>1. UNCHANGED <<xferVars, engineVars, callerVars, irqVars, workVars, perfVars>>
  BY DEF Hardware
<1>2. /\ active /\ events = {} /\ running /\ ~work_pending /\ ~taken /\ ~Serving
      /\ transfer_list # << >> /\ cur = Head(transfer_list) /\ desc_dequeued = 0
      /\ cur \in Xfer /\ desc_num[cur] \in Nat /\ desc_num[cur] <= MaxDesc
      /\ count \in Nat /\ count <= desc_num[cur]
  <2>1. active
    BY DEF Hardware, HardwareMoves, HwDescriptor, HwLastDescriptor, CyclicDescriptor, CyclicStops,
       HwHalt
  <2>2. InRun /\ events = {} /\ ~Serving
    BY <2>1 DEF InRun, PerfReport
  <2>3. ~work_pending /\ ~taken
    BY <2>2 DEF PerfMask, TypeOK, PerfTypes
  <2>4. /\ running /\ transfer_list # << >> /\ cur = Head(transfer_list)
        /\ desc_dequeued = 0 /\ count <= desc_num[cur]
    BY <2>2 DEF RunIsHead, Serving
  <2>5. cur \in Xfer
    BY <2>4, TailFacts DEF TypeOK, EngineTypeOK
  <2>6. desc_num[cur] \in Nat /\ desc_num[cur] <= MaxDesc /\ count \in Nat
    BY <2>5, EngineConstants DEF TypeOK, EngineTypeOK, HwTypeOK, EngineConstants
  <2> QED
    BY <2>1, <2>2, <2>3, <2>4, <2>5, <2>6
<1>3. /\ UNCHANGED <<run, cur, wb>>
      /\ active' \in BOOLEAN /\ busy' \in BOOLEAN
      /\ count' \in Nat /\ count' <= desc_num[cur]
      /\ count' = desc_num[cur] => cur \in moved'
      /\ moved' \in {moved, moved \cup {cur}}
      /\ active' => events' = {}
      /\ events' \subseteq {"STOPPED", "COMPLETED", "IDLE_STOPPED"}
  <2>1. CASE HwDescriptor
    <3>1. count + 1 < desc_num[cur] /\ count' = count + 1 /\ UNCHANGED <<run, active, busy, cur, events, wb, moved>>
      BY <2>1 DEF HwDescriptor
    <3>2. busy \in BOOLEAN /\ active \in BOOLEAN
      BY DEF TypeOK, HwTypeOK
    <3> QED
      BY <1>2, <3>1, <3>2
  <2>2. CASE HwLastDescriptor
    <3>1. /\ count + 1 = desc_num[cur] /\ count' = count + 1 /\ active' = FALSE
          /\ busy' \in BusyAtReport
          /\ events' = events \cup {"STOPPED", "COMPLETED"}
          /\ wb' = wb /\ moved' = moved \cup {cur} /\ UNCHANGED <<run, cur>>
      BY <2>2, InterruptMode DEF HwLastDescriptor, HwReport
    <3>2. busy' \in BOOLEAN /\ active' \in BOOLEAN /\ ~active'
      BY <3>1 DEF BusyAtReport
    <3>3. count' \in Nat /\ count' <= desc_num[cur]
      BY <1>2, <3>1
    <3>4. cur \in moved' /\ moved' \in {moved, moved \cup {cur}}
      BY <3>1
    <3>5. events' \subseteq {"STOPPED", "COMPLETED", "IDLE_STOPPED"}
      BY <1>2, <3>1
    <3> QED
      BY <3>1, <3>2, <3>3, <3>4, <3>5
  <2>3. CASE CyclicDescriptor
    <3>1. /\ count < desc_num[cur] /\ count' = count + 1
          /\ moved' = IF count' = desc_num[cur] THEN moved \cup {cur} ELSE moved
          /\ UNCHANGED <<run, active, busy, cur, events, wb>>
      BY <2>3 DEF CyclicDescriptor
    <3>2. busy \in BOOLEAN /\ active \in BOOLEAN
      BY DEF TypeOK, HwTypeOK
    <3>3. count' \in Nat /\ count' <= desc_num[cur]
      BY <1>2, <3>1
    <3>4. /\ moved' \in {moved, moved \cup {cur}}
          /\ count' = desc_num[cur] => cur \in moved'
      BY <3>1
    <3>5. events' = {}
      BY <1>2, <3>1
    <3> QED
      BY <3>1, <3>2, <3>3, <3>4, <3>5
  <2>4. CASE HwHalt
    <3>1. /\ active' = FALSE /\ busy' = FALSE
          /\ events' = IF idle_enabled THEN events \cup {"IDLE_STOPPED"} ELSE events
          /\ UNCHANGED <<run, cur, count, wb, moved>>
      BY <2>4 DEF HwHalt
    <3>2. count = desc_num[cur] => cur \in moved
      BY <1>2 DEF PerfReport, InRun
    <3>3. count' \in Nat /\ count' <= desc_num[cur] /\ moved' \in {moved, moved \cup {cur}}
      BY <1>2, <3>1
    <3>4. active' \in BOOLEAN /\ busy' \in BOOLEAN /\ ~active'
      BY <3>1
    <3>5. events' \subseteq {"STOPPED", "COMPLETED", "IDLE_STOPPED"}
      <4>1. CASE idle_enabled
        BY <1>2, <3>1, <4>1
      <4>2. CASE ~idle_enabled
        BY <1>2, <3>1, <4>2
      <4> QED
        BY <4>1, <4>2
    <3> QED
      BY <3>1, <3>2, <3>3, <3>4, <3>5
  <2>5. CASE CyclicStops
    <3>1. /\ count' = desc_num[cur] /\ active' = FALSE /\ busy' = FALSE
          /\ events' = events \cup {"STOPPED", "COMPLETED"}
          /\ wb' = wb /\ moved' = moved \cup {cur} /\ UNCHANGED <<run, cur>>
      BY <2>5, InterruptMode DEF CyclicStops, HwReport
    <3>2. count' \in Nat /\ count' <= desc_num[cur]
      BY <1>2, <3>1
    <3>3. cur \in moved' /\ moved' \in {moved, moved \cup {cur}}
      BY <3>1
    <3>4. events' \subseteq {"STOPPED", "COMPLETED", "IDLE_STOPPED"}
      BY <1>2, <3>1
    <3> QED
      BY <3>1, <3>2, <3>3, <3>4
  <2> QED
    BY <2>1, <2>2, <2>3, <2>4, <2>5 DEF Hardware, HardwareMoves
<1>4. TypeOK' /\ PerfTypes' /\ NoBug'
  <2>1. EngineTypeOK' /\ CallerTypeOK'
    BY <1>1, EngineTypeFrame, CallerTypeFrame DEF TypeOK
  <2>2. HwTypeOK'
    <3>1. count' \in 0..MaxDesc
      BY <1>2, <1>3, EngineConstants DEF EngineConstants
    <3>2. events' \subseteq Event /\ moved' \subseteq Xfer
      BY <1>2, <1>3 DEF Event, TypeOK, HwTypeOK
    <3> QED
      BY <1>3, <3>1, <3>2 DEF TypeOK, HwTypeOK
  <2> QED
    BY <1>1, <2>1, <2>2 DEF TypeOK, PerfTypes, NoBug, irqVars, workVars, perfVars, engineVars
<1>5. RunIsHead'
  BY <1>1, <1>2, <1>3 DEF RunIsHead, xferVars, engineVars
<1>6. PerfReport'
  <2>1. "ERROR" \notin events' /\ "ERROR" \notin status'
    BY <1>1, <1>3 DEF PerfReport, engineVars
  <2>2. ~Serving'
    BY <1>1, <1>2 DEF Serving, workVars
  <2>3. cur' = cur /\ desc_num'[cur] = desc_num[cur]
    BY <1>1, <1>3 DEF xferVars
  <2>4. ServicedIsHead'
    <3>1. ~Finishing /\ serviced = NoXfer
      BY <1>2 DEF PerfReport, ServicedIsHead
    <3> QED
      BY <1>1, <3>1 DEF ServicedIsHead, Finishing, workVars, engineVars
  <2> QED
    BY <1>3, <2>1, <2>2, <2>3, <2>4 DEF PerfReport
<1>7. PerfMask'
  BY <1>1, <1>2 DEF PerfMask, PerfDue, irqVars, workVars, perfVars, engineVars
<1>8. PerfQueued' /\ TestAlone'
  <2>1. UNCHANGED <<transfer_list, serviced, xstate, desc_num, msix_enabled, tester, xdma_perf,
                    cyclic, pc, work_pc>>
    BY <1>1 DEF xferVars, engineVars, irqVars, workVars, perfVars, callerVars
  <2> QED
    BY <2>1, QueueFrame, AloneFrame
<1>9. PerfOwned'
  BY <1>1, OwnedFrame DEF xferVars, perfVars, callerVars
<1>10. CompletedWasMoved'
  BY <1>1, <1>3 DEF CompletedWasMoved, xferVars
<1> QED
  BY <1>4, <1>5, <1>6, <1>7, <1>8, <1>9, <1>10

(* The steps of handlers and work that leave transfers, callers and the     *)
(* channel alone.                                                           *)
LEMMA PerfIrqFrame ==
  ASSUME PerfInv, UNCHANGED <<xferVars, engineVars, hwVars, callerVars, msix_enabled, work_pc,
                              tester, test, xdma_perf, cyclic, careful, idle_enabled>>
  PROVE  /\ EngineTypeOK' /\ HwTypeOK' /\ CallerTypeOK'
         /\ (NoBug /\ PerfQueued /\ PerfOwned /\ TestAlone /\ CompletedWasMoved)'
<1> USE DEF PerfInv
<1>1. EngineTypeOK' /\ HwTypeOK' /\ CallerTypeOK'
  BY EngineTypeFrame, HwTypeFrame, CallerTypeFrame DEF TypeOK
<1>2. PerfQueued' /\ TestAlone'
  BY QueueFrame, AloneFrame DEF xferVars, engineVars, callerVars
<1>3. PerfOwned'
  BY OwnedFrame DEF xferVars, callerVars
<1>4. NoBug' /\ CompletedWasMoved'
  BY DEF NoBug, CompletedWasMoved, xferVars, engineVars, hwVars
<1> QED
  BY <1>1, <1>2, <1>3, <1>4

LEMMA PerfHandlerKeeps ==
  ASSUME PerfInv, Handler, UNCHANGED perfVars
  PROVE  PerfInv'
<1> USE DEF PerfInv
<1>1. /\ events # {} /\ channel_enabled /\ enable_mask
      /\ work_pending' = TRUE
      /\ \/ /\ ~msix_enabled
            /\ channel_enabled' = FALSE
            /\ UNCHANGED <<enable_mask, saved_mask>>
         \/ /\ msix_enabled
            /\ saved_mask' = enable_mask
            /\ enable_mask' = FALSE
            /\ UNCHANGED channel_enabled
      /\ UNCHANGED <<xferVars, engineVars, hwVars, callerVars, work_pc, msix_enabled>>
  BY DEF Handler, Isr, ChannelIrq, InterruptRaised
<1>2. UNCHANGED <<taken, tester, test, xdma_perf, cyclic, careful, idle_enabled, perf_step>>
  BY DEF perfVars
<1>3. /\ EngineTypeOK' /\ HwTypeOK' /\ CallerTypeOK'
      /\ (NoBug /\ PerfQueued /\ PerfOwned /\ TestAlone /\ CompletedWasMoved)'
  BY <1>1, <1>2, PerfIrqFrame
<1>4. RunIsHead' /\ PerfReport'
  BY <1>1, RunFrame DEF xferVars, engineVars, hwVars
<1>5. ~work_pending /\ ~taken /\ work_pc = "idle"
  BY <1>1 DEF PerfMask, PerfDue
<1>6. PerfMask'
  <2>1. events' = events /\ locked' = locked
    BY <1>1 DEF hwVars, engineVars
  <2> QED
    BY <1>1, <1>2, <1>5, <2>1 DEF PerfMask, PerfDue
<1>7. channel_enabled' \in BOOLEAN /\ enable_mask' \in BOOLEAN /\ saved_mask' \in BOOLEAN
  BY <1>1 DEF TypeOK
<1>8. TypeOK' /\ PerfTypes'
  BY <1>1, <1>2, <1>3, <1>7 DEF TypeOK, PerfTypes
<1> QED
  BY <1>3, <1>4, <1>6, <1>8

LEMMA PerfWorkTaken ==
  ASSUME PerfInv, WorkTaken
  PROVE  PerfInv'
<1> USE DEF PerfInv
<1>1. /\ work_pending /\ ~taken /\ work_pc = "idle"
      /\ taken' = TRUE /\ work_pending' = FALSE
      /\ UNCHANGED <<xferVars, engineVars, hwVars, callerVars, irqVars, work_pc,
                     careful, xdma_perf, cyclic, tester, test, idle_enabled, perf_step>>
  BY DEF WorkTaken
<1>2. /\ EngineTypeOK' /\ HwTypeOK' /\ CallerTypeOK'
      /\ (NoBug /\ PerfQueued /\ PerfOwned /\ TestAlone /\ CompletedWasMoved)'
  BY <1>1, PerfIrqFrame DEF irqVars
<1>3. RunIsHead' /\ PerfReport'
  BY <1>1, RunFrame DEF xferVars, engineVars, hwVars
<1>4. PerfMask'
  <2>1. events' = events /\ locked' = locked /\ events # {}
    BY <1>1 DEF hwVars, engineVars, PerfMask
  <2>2. PerfDue /\ PerfDue'
    BY <1>1 DEF PerfDue
  <2> QED
    BY <1>1, <2>1, <2>2 DEF PerfMask, irqVars
<1>5. TypeOK'
  BY <1>1, <1>2 DEF TypeOK, irqVars
<1>6. PerfTypes'
  BY <1>1 DEF PerfTypes
<1> QED
  BY <1>2, <1>3, <1>4, <1>5, <1>6

LEMMA PerfWorkPerf ==
  ASSUME PerfInv, WorkPerf
  PROVE  PerfInv'
<1> USE DEF PerfInv
<1>1. /\ UNCHANGED <<vars, careful, xdma_perf, cyclic, tester, test, idle_enabled, taken>>
      /\ perf_step' \in {"held", "done"}
  BY DEF WorkPerf
<1>2. /\ EngineTypeOK' /\ HwTypeOK' /\ CallerTypeOK'
      /\ (NoBug /\ PerfQueued /\ PerfOwned /\ TestAlone /\ CompletedWasMoved)'
  BY <1>1, PerfIrqFrame DEF vars, irqVars, workVars
<1>3. (RunIsHead /\ PerfReport /\ PerfMask)'
  BY <1>1, RunFrame, MaskFrame DEF vars, xferVars, engineVars, hwVars, workVars
<1>4. TypeOK' /\ PerfTypes'
  BY <1>1, <1>2 DEF TypeOK, PerfTypes, vars, irqVars, workVars
<1> QED
  BY <1>2, <1>3, <1>4

LEMMA PerfWorkBegins ==
  ASSUME PerfInv, PerfWorkBegin
  PROVE  PerfInv'
<1> USE DEF PerfInv
<1>1. /\ taken /\ taken' = FALSE
      /\ locked' = TRUE /\ work_pc' = "service"
      /\ status' = events \cup (IF busy THEN {"BUSY"} ELSE {}) /\ events' = {}
      /\ UNCHANGED <<xferVars, transfer_list, running, desc_dequeued, serviced, bug, run, active, busy, cur,
                     count, wb, moved, callerVars, irqVars, work_pending,
                     careful, xdma_perf, cyclic, tester, test, idle_enabled, perf_step>>
  BY DEF PerfWorkBegin, StatusReadClear
<1>2. events # {} /\ work_pc = "idle" /\ ~work_pending
  BY <1>1 DEF PerfMask
<1>3. InRun /\ ~active
  BY <1>2 DEF InRun, PerfReport
<1>4. TypeOK' /\ PerfTypes' /\ NoBug'
  <2>1. EngineTypeOK'
    <3>1. status' \subseteq Event \cup {"BUSY"}
      BY <1>1 DEF TypeOK, HwTypeOK
    <3> QED
      BY <1>1, <3>1 DEF TypeOK, EngineTypeOK, xferVars
  <2>2. HwTypeOK'
    BY <1>1 DEF TypeOK, HwTypeOK
  <2>3. CallerTypeOK'
    BY <1>1, CallerTypeFrame DEF TypeOK
  <2>4. PerfTypes'
    BY <1>1 DEF PerfTypes
  <2> QED
    BY <1>1, <2>1, <2>2, <2>3, <2>4 DEF TypeOK, NoBug, irqVars
<1>5. RunIsHead'
  BY <1>1, <1>2, <1>3 DEF RunIsHead, xferVars
<1>6. PerfReport'
  <2>1. "ERROR" \notin status'
    BY <1>1 DEF PerfReport
  <2>2. count = desc_num[cur] => cur \in moved
    BY <1>3 DEF PerfReport
  <2> QED
    BY <1>1, <1>2, <1>3, <2>1, <2>2 DEF PerfReport, xferVars, ServicedIsHead, Finishing
<1>7. PerfMask'
  <2>1. PerfDue /\ PerfDue'
    BY <1>1 DEF PerfDue
  <2> QED
    BY <1>1, <1>2, <2>1 DEF PerfMask, irqVars
<1>8. PerfQueued' /\ TestAlone'
  BY <1>1, <1>2, QueueFrame, AloneFrame DEF xferVars, callerVars, irqVars
<1>9. PerfOwned'
  BY <1>1, OwnedFrame DEF xferVars, callerVars
<1>10. CompletedWasMoved'
  BY <1>1 DEF CompletedWasMoved, xferVars
<1> QED
  BY <1>4, <1>5, <1>6, <1>7, <1>8, <1>9, <1>10

LEMMA PerfWorkShutdown ==
  ASSUME PerfInv, WorkShutdown, UNCHANGED perfVars
  PROVE  PerfInv'
<1> USE DEF PerfInv
<1>1. /\ work_pc = "service"
      /\ UNCHANGED <<xferVars, transfer_list, desc_dequeued, status, locked, serviced, bug, active,
                     busy, cur, count, events, wb, moved, callerVars, irqVars, work_pending>>
  BY DEF WorkShutdown
<1>2. InRun /\ running
  BY <1>1 DEF InRun, Serving, RunIsHead
<1>3. work_pc' = "inspect" /\ running' \in BOOLEAN /\ run' \in BOOLEAN
  BY <1>2 DEF WorkShutdown, EngineServiceShutdown, TypeOK, EngineTypeOK, HwTypeOK
<1>4. UNCHANGED <<taken, tester, test, xdma_perf, cyclic, careful, idle_enabled, perf_step>>
  BY DEF perfVars
<1>5. TypeOK' /\ PerfTypes' /\ NoBug'
  <2>1. EngineTypeOK'
    BY <1>1, <1>3 DEF TypeOK, EngineTypeOK, xferVars
  <2>2. HwTypeOK'
    BY <1>1, <1>3 DEF TypeOK, HwTypeOK
  <2>3. CallerTypeOK'
    BY <1>1, CallerTypeFrame DEF TypeOK
  <2>4. PerfTypes'
    BY <1>4 DEF PerfTypes
  <2> QED
    BY <1>1, <1>3, <2>1, <2>2, <2>3, <2>4 DEF TypeOK, NoBug, irqVars
<1>6. RunIsHead'
  BY <1>1, <1>2, <1>3 DEF RunIsHead, xferVars
<1>7. PerfReport'
  <2>1. Serving /\ Serving'
    BY <1>1, <1>3 DEF Serving
  <2>2. count = desc_num[cur] => cur \in moved
    BY <1>2 DEF PerfReport
  <2> QED
    BY <1>1, <1>3, <2>1, <2>2 DEF PerfReport, xferVars, ServicedIsHead, Finishing
<1>8. PerfMask'
  <2>1. PerfDue /\ PerfDue'
    BY <1>1, <1>3 DEF PerfDue
  <2> QED
    BY <1>1, <1>3, <1>4, <2>1 DEF PerfMask, irqVars
<1>9. PerfQueued' /\ TestAlone'
  BY <1>1, <1>3, <1>4, QueueFrame, AloneFrame DEF xferVars, callerVars, irqVars
<1>10. PerfOwned'
  BY <1>1, <1>4, OwnedFrame DEF xferVars, callerVars
<1>11. CompletedWasMoved'
  BY <1>1 DEF CompletedWasMoved, xferVars
<1> QED
  BY <1>5, <1>6, <1>7, <1>8, <1>9, <1>10, <1>11

LEMMA PerfWorkReenables ==
  ASSUME PerfInv, WorkReenable, UNCHANGED perfVars
  PROVE  PerfInv'
<1> USE DEF PerfInv
<1>1. /\ work_pc = "reenable" /\ work_pc' = "idle"
      /\ locked' = FALSE
      /\ \/ /\ msix_enabled
            /\ enable_mask' = (enable_mask \/ saved_mask) /\ UNCHANGED channel_enabled
         \/ /\ ~msix_enabled
            /\ channel_enabled' = TRUE /\ UNCHANGED enable_mask
      /\ UNCHANGED <<xferVars, transfer_list, running, desc_dequeued, status, serviced, bug,
                     hwVars, callerVars, msix_enabled, saved_mask, work_pending>>
  BY DEF WorkReenable
<1>2. UNCHANGED <<taken, tester, test, xdma_perf, cyclic, careful, idle_enabled, perf_step>>
  BY DEF perfVars
<1>3. TypeOK' /\ PerfTypes' /\ NoBug'
  <2>1. EngineTypeOK'
    BY <1>1 DEF TypeOK, EngineTypeOK, xferVars
  <2>2. HwTypeOK' /\ CallerTypeOK'
    BY <1>1, HwTypeFrame, CallerTypeFrame DEF TypeOK
  <2>3. PerfTypes'
    BY <1>2 DEF PerfTypes
  <2>4. channel_enabled' \in BOOLEAN /\ enable_mask' \in BOOLEAN
    BY <1>1 DEF TypeOK
  <2> QED
    BY <1>1, <2>1, <2>2, <2>3, <2>4 DEF TypeOK, NoBug
<1>4. RunIsHead'
  <2>1. InRun' => InRun
    BY <1>1 DEF InRun, Serving, hwVars
  <2> QED
    BY <1>1, <2>1 DEF RunIsHead, xferVars, hwVars
<1>5. PerfReport'
  <2>1. (InRun' => InRun) /\ ~Serving'
    BY <1>1 DEF InRun, Serving, hwVars
  <2> QED
    BY <1>1, <2>1 DEF PerfReport, xferVars, hwVars, ServicedIsHead, Finishing
<1>6. PerfMask'
  <2>1. PerfDue /\ ~work_pending /\ ~taken
    BY <1>1 DEF PerfDue, PerfMask
  <2>2. ~PerfDue'
    BY <1>1, <1>2, <2>1 DEF PerfDue
  <2> QED
    BY <1>1, <1>2, <2>1, <2>2 DEF PerfMask
<1>7. PerfQueued' /\ TestAlone'
  BY <1>1, <1>2, QueueFrame, AloneFrame DEF xferVars, callerVars
<1>8. PerfOwned'
  BY <1>1, <1>2, OwnedFrame DEF xferVars, callerVars
<1>9. CompletedWasMoved'
  BY <1>1 DEF CompletedWasMoved, xferVars, hwVars
<1> QED
  BY <1>3, <1>4, <1>5, <1>6, <1>7, <1>8, <1>9

(* The work marks the head of the queue, whether a request or a test made   *)
(* it: completed when it was moved, failed when it was halted half-way.     *)
LEMMA PerfWorkMarks ==
  ASSUME PerfInv, PerfWorkMark
  PROVE  PerfInv'
<1> DEFINE h == Head(transfer_list)
<1> USE DEF PerfInv
<1>1. /\ work_pc = "inspect" /\ work_pc' = "unlink" /\ serviced' = h
      /\ xstate' = [xstate EXCEPT ![h] = IF count < desc_num[h] THEN "FAILED" ELSE "COMPLETED"]
      /\ run' \in BOOLEAN
      /\ UNCHANGED <<transfer_list, desc_dequeued, bug, desc_num, running, status, locked,
                     active, busy, cur, count, events, wb, moved, pc, mine, chunks, rc,
                     result, irqVars, work_pending>>
  <2>1. WorkMark
    BY DEF PerfWorkMark
  <2>2. ~MarkFailed
    BY DEF MarkFailed, PerfReport
  <2> QED
    BY <2>1, <2>2, MarkEffect DEF PerfReport, MarkDone
<1>2. /\ perf_step' = "none"
      /\ UNCHANGED <<careful, xdma_perf, cyclic, tester, test, idle_enabled, taken>>
  BY DEF PerfWorkMark
<1>3. /\ transfer_list # << >> /\ cur = h /\ count <= desc_num[h]
      /\ ~active /\ events = {}
      /\ count = desc_num[h] => h \in moved
  BY <1>1 DEF RunIsHead, PerfReport, InRun, Serving
<1>4. /\ h \in Xfer /\ h \in Queued
      /\ desc_num[h] \in Nat /\ count \in Nat
      /\ xstate \in [Xfer -> XferState]
  BY <1>3, TailFacts, QueuedIsElems DEF TypeOK, EngineTypeOK, HwTypeOK
<1>5. /\ \A y \in Xfer : y # h => xstate'[y] = xstate[y]
      /\ xstate'[h] \in {"COMPLETED", "FAILED"}
      /\ xstate'[h] = "COMPLETED" => h \in moved
      /\ xstate' \in [Xfer -> XferState]
  <2>1. CASE count < desc_num[h]
    BY <1>1, <1>4, <2>1 DEF XferState
  <2>2. CASE ~(count < desc_num[h])
    <3>1. count = desc_num[h]
      BY <1>3, <1>4, <2>2
    <3> QED
      BY <1>1, <1>3, <1>4, <2>2, <3>1 DEF XferState
  <2> QED
    BY <2>1, <2>2
<1>6. Queued' = Queued
  BY <1>1 DEF Queued
<1> HIDE DEF h
<1>7. TypeOK' /\ PerfTypes'
  <2>1. EngineTypeOK'
    BY <1>1, <1>4, <1>5 DEF TypeOK, EngineTypeOK
  <2>2. HwTypeOK'
    BY <1>1 DEF TypeOK, HwTypeOK
  <2>3. CallerTypeOK'
    BY <1>1 DEF TypeOK, CallerTypeOK
  <2>4. PerfTypes'
    BY <1>2 DEF PerfTypes
  <2> QED
    BY <1>1, <2>1, <2>2, <2>3, <2>4 DEF TypeOK, irqVars
<1>8. RunIsHead' /\ PerfReport'
  <2>1. ~InRun' /\ ~Serving'
    BY <1>1, <1>3 DEF InRun, Serving
  <2>2. ServicedIsHead'
    BY <1>1, <1>3 DEF ServicedIsHead, Finishing, h
  <2> QED
    BY <1>1, <1>3, <2>1, <2>2 DEF RunIsHead, PerfReport
<1>9. PerfMask'
  BY <1>1, <1>2 DEF PerfMask, PerfDue, irqVars
<1>10. PerfQueued'
  <2>1. ASSUME NEW y \in Queued, y # h PROVE xstate'[y] = "SUBMITTED"
    <3>1. y \in Xfer /\ xstate[y] = "SUBMITTED"
      BY <1>1, <2>1, QueuedInXfer DEF PerfQueued
    <3> QED
      BY <1>5, <2>1, <3>1
  <2> QED
    BY <1>1, <1>6, <2>1 DEF PerfQueued
<1>11. PerfOwned'
  <2>1. xstate[h] = "SUBMITTED"
    BY <1>1, <1>4 DEF PerfQueued
  <2>2. \A x \in Xfer : \/ xstate'[x] = xstate[x]
                        \/ xstate[x] = "SUBMITTED" /\ xstate'[x] \in {"COMPLETED", "FAILED"}
    BY <1>5, <2>1
  <2> QED
    BY <1>1, <1>2, <2>2, OwnedFrame
<1>12. TestAlone'
  BY <1>1, <1>2, AloneFrame DEF irqVars
<1>13. NoBug' /\ CompletedWasMoved'
  BY <1>1, <1>5 DEF NoBug, CompletedWasMoved
<1> QED
  BY <1>7, <1>8, <1>9, <1>10, <1>11, <1>12, <1>13

(* It is taken off.  Of a test that is alone nothing is left on the queue.  *)
LEMMA PerfWorkUnlinks ==
  ASSUME PerfInv, WorkUnlink, UNCHANGED perfVars
  PROVE  PerfInv'
<1> DEFINE list == Tail(transfer_list)
<1> USE DEF PerfInv
<1>1. /\ work_pc = "unlink" /\ work_pc' = "resume"
      /\ transfer_list' = list
      /\ desc_dequeued' = desc_dequeued + desc_num[serviced]
      /\ UNCHANGED <<xferVars, running, status, locked, serviced, bug, hwVars, callerVars, irqVars,
                     work_pending>>
  BY DEF WorkUnlink, ServiceUnlink
<1>2. UNCHANGED <<taken, tester, test, xdma_perf, cyclic, careful, idle_enabled, perf_step>>
  BY DEF perfVars
<1>3. /\ transfer_list # << >> /\ serviced = Head(transfer_list)
      /\ ~active /\ events = {}
  BY <1>1 DEF PerfReport, ServicedIsHead, Finishing
<1>4. /\ transfer_list \in Seq(Xfer) /\ serviced \in Xfer /\ list \in Seq(Xfer)
      /\ Queued = Elems(list) \cup {serviced} /\ Queued' = Elems(list)
      /\ Distinct(list) /\ serviced \notin Elems(list)
  <2>1. transfer_list \in Seq(Xfer) /\ Distinct(transfer_list)
    BY DEF TypeOK, EngineTypeOK, PerfQueued
  <2> QED
    BY <1>1, <1>3, <2>1, TailFacts, TailDistinct, QueuedIsElems
<1>5. Len(list) \in Nat /\ Len(transfer_list) = Len(list) + 1
  BY <1>3, <1>4, HeadTailProperties, LenProperties
<1> HIDE DEF list
<1>6. TypeOK' /\ PerfTypes'
  <2>1. EngineTypeOK'
    <3>1. desc_dequeued' \in Nat
      BY <1>1, <1>4 DEF TypeOK, EngineTypeOK
    <3> QED
      BY <1>1, <1>4, <3>1 DEF TypeOK, EngineTypeOK, xferVars
  <2>2. HwTypeOK' /\ CallerTypeOK'
    BY <1>1, HwTypeFrame, CallerTypeFrame DEF TypeOK
  <2>3. PerfTypes'
    BY <1>2 DEF PerfTypes
  <2> QED
    BY <1>1, <2>1, <2>2, <2>3 DEF TypeOK, irqVars
<1>7. RunIsHead' /\ PerfReport'
  <2>1. UNCHANGED <<active, events, status, serviced>>
    BY <1>1 DEF hwVars
  <2>2. ~InRun' /\ ~Serving'
    BY <1>1, <1>3, <2>1 DEF InRun, Serving
  <2>3. ServicedIsHead'
    BY <1>1, <1>3, <2>1 DEF ServicedIsHead, Finishing
  <2> QED
    BY <1>3, <2>1, <2>2, <2>3 DEF RunIsHead, PerfReport
<1>8. PerfMask'
  BY <1>1, <1>2 DEF PerfMask, PerfDue, irqVars, hwVars
<1>9. PerfQueued'
  BY <1>1, <1>4 DEF PerfQueued, xferVars
<1>10. PerfOwned'
  BY <1>1, <1>2, OwnedFrame DEF xferVars, callerVars
<1>11. TestAlone'
  <2>1. UNCHANGED <<tester, xdma_perf, cyclic, pc>> /\ Apart' = Apart /\ (TestBegun' => TestBegun)
    BY <1>1, <1>2, <1>4 DEF Apart, TestBegun, irqVars, callerVars
  <2>2. ~(tester = "submit" /\ Apart)
    BY <1>3 DEF TestAlone
  <2>3. Len(transfer_list) <= 1 => Len(list) <= 1 /\ list = << >>
    BY <1>4, <1>5, EmptySeq
  <2> QED
    BY <1>1, <2>1, <2>2, <2>3 DEF TestAlone
<1>12. NoBug' /\ CompletedWasMoved'
  BY <1>1 DEF NoBug, CompletedWasMoved, xferVars, hwVars
<1> QED
  BY <1>6, <1>7, <1>8, <1>9, <1>10, <1>11, <1>12

(* The engine is restarted for what is queued behind it.  The restart       *)
(* writes the mask only when a test is on.                                  *)
LEMMA PerfWorkResumes ==
  ASSUME ~MsixOverlap, PerfInv, PerfWorkResume
  PROVE  PerfInv'
<1> DEFINE h == Head(transfer_list)
<1> USE DEF PerfInv
<1>1. /\ work_pc = "resume" /\ work_pc' = "reenable"
      /\ Wake({serviced}) /\ EngineServiceResume /\ StartModeConfig
      /\ UNCHANGED <<xferVars, transfer_list, status, locked, bug, events, wb, moved, mine, chunks,
                     rc, result, msix_enabled, channel_enabled, saved_mask, work_pending,
                     careful, xdma_perf, cyclic, tester, test, taken, perf_step>>
  BY DEF PerfWorkResume
<1>2. serviced' = NoXfer /\ (Restarts \/ LeftAsItIs)
  BY <1>1, ResumeEffect
<1>3. ~active /\ events = {}
  BY <1>1 DEF PerfReport, ServicedIsHead, Finishing
<1>4. transfer_list # << >> => h \in Xfer /\ desc_num[h] \in Nat /\ desc_num[h] > 0
  <2>1. transfer_list # << >> => h \in Xfer /\ h \in Queued
    BY TailFacts, QueuedIsElems DEF TypeOK, EngineTypeOK
  <2> QED
    BY <2>1 DEF PerfQueued, TypeOK, EngineTypeOK
<1>5. /\ pc' \in [Caller -> Where]
      /\ \A c \in Caller : /\ pc[c] # "sleep" => pc'[c] = pc[c]
                           /\ pc[c] = "sleep" => pc'[c] \in {"sleep", "wait"}
  BY <1>1, WakeEffect
<1>6. UNCHANGED irqVars
  <2>1. CASE ~running /\ running' /\ xdma_perf
    <3>1. transfer_list # << >>
      BY <1>2, <2>1 DEF Restarts, LeftAsItIs
    <3>2. ~Apart
      BY <1>1, <2>1, <3>1 DEF TestAlone, TestBegun
    <3>3. ~msix_enabled
      BY <3>2 DEF Apart, TypeOK
    <3>4. enable_mask = TRUE
      BY <3>3 DEF PerfMask, TypeOK
    <3> QED
      BY <1>1, <2>1, <3>4 DEF StartModeConfig, irqVars
  <2>2. CASE ~(~running /\ running' /\ xdma_perf)
    BY <1>1, <2>2 DEF StartModeConfig, irqVars
  <2> QED
    BY <2>1, <2>2
<1>7. TypeOK' /\ PerfTypes'
  <2>1. /\ running' \in BOOLEAN /\ desc_dequeued' \in Nat
        /\ run' \in BOOLEAN /\ active' \in BOOLEAN /\ busy' \in BOOLEAN
        /\ cur' \in Xfer \cup {NoXfer} /\ count' \in 0..MaxDesc
    <3>1. CASE Restarts
      <4>1. 0 \in Nat /\ 0 \in 0..MaxDesc
        BY EngineConstants DEF EngineConstants
      <4> QED
        BY <1>4, <3>1, <4>1 DEF Restarts, EngineStart
    <3>2. CASE LeftAsItIs
      BY <3>2 DEF LeftAsItIs, TypeOK, EngineTypeOK, HwTypeOK
    <3> QED
      BY <1>2, <3>1, <3>2
  <2>2. EngineTypeOK'
    BY <1>1, <1>2, <2>1 DEF TypeOK, EngineTypeOK, xferVars
  <2>3. HwTypeOK'
    BY <1>1, <2>1 DEF TypeOK, HwTypeOK
  <2>4. CallerTypeOK'
    BY <1>1, <1>5 DEF TypeOK, CallerTypeOK
  <2>5. idle_enabled' \in BOOLEAN
    BY <1>1 DEF StartModeConfig, PerfTypes
  <2>6. PerfTypes'
    BY <1>1, <2>5 DEF PerfTypes
  <2> QED
    BY <1>1, <1>6, <2>2, <2>3, <2>4, <2>6 DEF TypeOK, irqVars
<1>8. RunIsHead' /\ PerfReport'
  <2>1. /\ events' = {} /\ ~Serving' /\ "ERROR" \notin events' /\ "ERROR" \notin status'
        /\ ServicedIsHead'
    BY <1>1, <1>2, <1>3 DEF Serving, PerfReport, ServicedIsHead, Finishing
  <2>2. CASE Restarts
    <3>1. /\ running' = TRUE /\ active' = TRUE /\ cur' = h /\ count' = 0 /\ desc_dequeued' = 0
          /\ transfer_list # << >> /\ desc_num' = desc_num
      BY <1>1, <2>2 DEF Restarts, EngineStart, xferVars
    <3>2. RunIsHead'
      BY <1>1, <1>4, <3>1 DEF RunIsHead
    <3>3. PerfReport'
      BY <1>4, <2>1, <3>1 DEF PerfReport
    <3> QED
      BY <3>2, <3>3
  <2>3. CASE LeftAsItIs
    <3>1. ~InRun'
      BY <1>3, <2>1, <2>3 DEF InRun, LeftAsItIs
    <3> QED
      BY <2>1, <3>1 DEF RunIsHead, PerfReport
  <2> QED
    BY <1>2, <2>2, <2>3
<1>9. PerfMask'
  <2>1. PerfDue /\ PerfDue'
    BY <1>1 DEF PerfDue
  <2>2. ~work_pending /\ ~taken /\ locked
    BY <1>1 DEF PerfMask
  <2> QED
    BY <1>1, <1>6, <2>1, <2>2 DEF PerfMask, irqVars
<1>10. PerfQueued'
  BY <1>1, QueueFrame DEF xferVars
<1>11. PerfOwned'
  <2>1. \A c \in Caller :
          /\ pc'[c] = "queue" => pc[c] = "queue"
          /\ pc'[c] \in {"wait", "sleep", "ended"} => pc[c] \in {"wait", "sleep", "ended"}
    BY <1>5
  <2> QED
    BY <1>1, <2>1, OwnedFrame DEF xferVars
<1>12. TestAlone'
  BY <1>1, <1>5, AloneFrame
<1>13. NoBug' /\ CompletedWasMoved'
  BY <1>1 DEF NoBug, CompletedWasMoved, xferVars
<1> QED
  BY <1>7, <1>8, <1>9, <1>10, <1>11, <1>12, <1>13

(* What a test does outside the queue: it begins without one, picks a       *)
(* transfer, clears RUN, frees its results.                                 *)
LEMMA PerfRestFrame ==
  ASSUME PerfInv,
         UNCHANGED <<xferVars, engineVars, active, busy, cur, count, events, wb, moved, callerVars,
                     irqVars, workVars, careful, cyclic, idle_enabled, taken, perf_step>>,
         run' \in BOOLEAN, xdma_perf' \in BOOLEAN,
         tester' \in {"idle", "stop", "free"}, test' \in Xfer \cup {NoXfer},
         TestAlone'
  PROVE  PerfInv'
<1> USE DEF PerfInv
<1>1. UNCHANGED <<xstate, desc_num, transfer_list, running, desc_dequeued, status, locked, serviced, bug,
                  pc, mine, work_pending, work_pc>>
  BY DEF xferVars, engineVars, callerVars, workVars
<1>2. TypeOK'
  <2>1. EngineTypeOK' /\ CallerTypeOK'
    BY EngineTypeFrame, CallerTypeFrame DEF TypeOK
  <2>2. HwTypeOK'
    BY DEF TypeOK, HwTypeOK
  <2> QED
    BY <1>1, <2>1, <2>2 DEF TypeOK, irqVars
<1>3. PerfTypes'
  BY DEF PerfTypes
<1>4. RunIsHead' /\ PerfReport'
  BY <1>1, RunFrame
<1>5. PerfMask'
  BY <1>1, MaskFrame
<1>6. PerfQueued'
  BY <1>1, QueueFrame
<1>7. PerfOwned'
  <2>1. tester' # "submit"
    OBVIOUS
  <2> QED
    BY <1>1, <2>1 DEF PerfOwned
<1>8. NoBug' /\ CompletedWasMoved'
  BY <1>1 DEF NoBug, CompletedWasMoved
<1> QED
  BY <1>2, <1>3, <1>4, <1>5, <1>6, <1>7, <1>8

LEMMA PerfRefusedKeeps ==
  ASSUME PerfInv, PerfStartRefused
  PROVE  PerfInv'
<1> USE DEF PerfInv
<1>1. /\ Apart => AtRest
      /\ tester = "idle" /\ xdma_perf' = TRUE
      /\ UNCHANGED <<vars, careful, cyclic, tester, test, idle_enabled, taken, perf_step>>
  BY DEF PerfStartRefused
<1>2. UNCHANGED <<xferVars, engineVars, hwVars, callerVars, irqVars, workVars>>
  BY <1>1 DEF vars
<1>3. TestAlone'
  <2>1. Apart' = Apart /\ transfer_list' = transfer_list /\ pc' = pc
    BY <1>2 DEF Apart, irqVars, engineVars, callerVars
  <2>2. Apart => transfer_list = << >> /\ \A c \in Caller : pc[c] = "idle"
    BY <1>1 DEF AtRest
  <2>3. Len(<< >>) <= 1
    BY EmptySeq
  <2> QED
    BY <1>1, <2>1, <2>2, <2>3 DEF TestAlone
<1>4. /\ UNCHANGED <<run, active, busy, cur, count, events, wb, moved>>
      /\ run \in BOOLEAN /\ test \in Xfer \cup {NoXfer}
  BY <1>2 DEF hwVars, TypeOK, HwTypeOK, PerfTypes
<1> QED
  BY <1>1, <1>2, <1>3, <1>4, PerfRestFrame

LEMMA PerfStopKeeps ==
  ASSUME PerfInv, PerfStop
  PROVE  PerfInv'
<1> USE DEF PerfInv
<1>1. /\ tester = "idle" /\ tester' = "stop" /\ xdma_perf
      /\ test' = IF transfer_list = << >> THEN NoXfer ELSE Head(transfer_list)
      /\ UNCHANGED <<vars, careful, xdma_perf, cyclic, idle_enabled, taken, perf_step>>
  BY DEF PerfStop
<1>2. UNCHANGED <<xferVars, engineVars, hwVars, callerVars, irqVars, workVars>>
  BY <1>1 DEF vars
<1>3. TestAlone'
  <2>1. /\ Apart' = Apart /\ transfer_list' = transfer_list /\ pc' = pc /\ Queued' = Queued
        /\ work_pc' = work_pc
    BY <1>2 DEF Apart, irqVars, engineVars, callerVars, workVars, Queued
  <2> QED
    BY <1>1, <2>1 DEF TestAlone, TestBegun
<1>4. test' \in Xfer \cup {NoXfer}
  BY <1>1, TailFacts DEF TypeOK, EngineTypeOK
<1>5. /\ UNCHANGED <<run, active, busy, cur, count, events, wb, moved>>
      /\ run \in BOOLEAN /\ xdma_perf \in BOOLEAN
  BY <1>2 DEF hwVars, TypeOK, HwTypeOK, PerfTypes
<1> QED
  BY <1>1, <1>2, <1>3, <1>4, <1>5, PerfRestFrame

LEMMA PerfStopRunKeeps ==
  ASSUME PerfInv, PerfStopRun
  PROVE  PerfInv'
<1> USE DEF PerfInv
<1>1. /\ tester = "stop" /\ tester' = "free" /\ run' = (run /\ test = NoXfer)
      /\ UNCHANGED <<xferVars, engineVars, active, busy, cur, count, events, wb, moved, callerVars,
                     irqVars, workVars, careful, xdma_perf, cyclic, test, idle_enabled, taken,
                     perf_step>>
  BY DEF PerfStopRun
<1>2. TestAlone'
  <2>1. /\ Apart' = Apart /\ transfer_list' = transfer_list /\ pc' = pc /\ Queued' = Queued
        /\ work_pc' = work_pc
    BY <1>1 DEF Apart, irqVars, engineVars, callerVars, workVars, Queued
  <2> QED
    BY <1>1, <2>1 DEF TestAlone, TestBegun
<1>3. run' \in BOOLEAN /\ test \in Xfer \cup {NoXfer} /\ xdma_perf \in BOOLEAN
  BY <1>1 DEF PerfTypes
<1> QED
  BY <1>1, <1>2, <1>3, PerfRestFrame

LEMMA PerfStopFreeKeeps ==
  ASSUME PerfInv, PerfStopFree
  PROVE  PerfInv'
<1> USE DEF PerfInv
<1>1. /\ tester' = "idle" /\ test' = NoXfer /\ xdma_perf' = FALSE /\ tester = "free"
      /\ UNCHANGED <<vars, careful, cyclic, idle_enabled, taken, perf_step>>
  BY DEF PerfStopFree
<1>2. UNCHANGED <<xferVars, engineVars, hwVars, callerVars, irqVars, workVars>>
  BY <1>1 DEF vars
<1>3. TestAlone'
  <2>1. /\ Apart' = Apart /\ transfer_list' = transfer_list /\ pc' = pc /\ Queued' = Queued
        /\ work_pc' = work_pc
    BY <1>2 DEF Apart, irqVars, engineVars, callerVars, workVars, Queued
  <2>2. Apart => xdma_perf
    BY <1>1 DEF TestAlone
  <2> QED
    BY <1>1, <2>1, <2>2 DEF TestAlone, TestBegun
<1>4. /\ UNCHANGED <<run, active, busy, cur, count, events, wb, moved>>
      /\ run \in BOOLEAN
  BY <1>2 DEF hwVars, TypeOK, HwTypeOK
<1> QED
  BY <1>1, <1>2, <1>3, <1>4, PerfRestFrame

LEMMA PerfStopCopyFailsKeeps ==
  ASSUME PerfInv, PerfStopCopyFails
  PROVE  PerfInv'
<1> USE DEF PerfInv
<1>1. /\ tester' = "idle" /\ test' = NoXfer
      /\ UNCHANGED <<vars, careful, xdma_perf, cyclic, idle_enabled, taken, perf_step>>
  BY DEF PerfStopCopyFails
<1>2. UNCHANGED <<xferVars, engineVars, hwVars, callerVars, irqVars, workVars>>
  BY <1>1 DEF vars
<1>3. TestAlone'
  <2>1. /\ Apart' = Apart /\ transfer_list' = transfer_list /\ pc' = pc /\ Queued' = Queued
        /\ work_pc' = work_pc
    BY <1>2 DEF Apart, irqVars, engineVars, callerVars, workVars, Queued
  <2> QED
    BY <1>1, <2>1 DEF TestAlone, TestBegun
<1>4. /\ UNCHANGED <<run, active, busy, cur, count, events, wb, moved>>
      /\ run \in BOOLEAN /\ xdma_perf \in BOOLEAN
  BY <1>2 DEF hwVars, TypeOK, HwTypeOK, PerfTypes
<1> QED
  BY <1>1, <1>2, <1>3, <1>4, PerfRestFrame

LEMMA PerfInvNext ==
  ASSUME ~MsixOverlap, PerfInv, [PerfNext]_allVars
  PROVE  PerfInv'
<1>1. CASE UNCHANGED allVars
  <2> USE DEF PerfInv
  <2>1. UNCHANGED <<xferVars, engineVars, hwVars, callerVars, irqVars, workVars, perfVars>>
    BY <1>1 DEF allVars, vars
  <2>2. UNCHANGED <<msix_enabled, tester, test, xdma_perf, cyclic, careful, idle_enabled, taken,
                    perf_step>>
    BY <2>1 DEF irqVars, perfVars
  <2>3. /\ EngineTypeOK' /\ HwTypeOK' /\ CallerTypeOK'
        /\ (NoBug /\ PerfQueued /\ PerfOwned /\ TestAlone /\ CompletedWasMoved)'
    BY <2>1, <2>2, PerfIrqFrame DEF workVars
  <2>4. (RunIsHead /\ PerfReport /\ PerfMask)'
    BY <2>1, <2>2, RunFrame, MaskFrame DEF xferVars, engineVars, hwVars, workVars
  <2>5. TypeOK' /\ PerfTypes'
    BY <2>1, <2>2, <2>3 DEF TypeOK, PerfTypes, irqVars, workVars
  <2> QED
    BY <2>3, <2>4, <2>5
<1>2. CASE PerfNext
  <2>1. ASSUME NEW c \in Caller, CallerMakes(c) \/ CallerRuns(c), UNCHANGED perfVars
        PROVE  PerfInv'
    <3>1. CASE CallerCreate(c)
      BY <1>2, <2>1, <3>1, PerfCallerCreate DEF PerfNext, Defined
    <3>2. CASE CallerEnds(c)
      BY <2>1, <3>2, PerfCallerEnds
    <3>3. CASE CallerRereads(c)
      BY <2>1, <3>3, PerfCallerRereads
    <3>4. CASE \/ (Apart => NoTest) /\ CallerRequest(c)
               \/ CallerCreateFails(c) \/ Signal(c) \/ WaitEvent(c)
      BY <2>1, <3>4, PerfCallerQuiet
    <3> QED
      BY <2>1, <3>1, <3>2, <3>3, <3>4 DEF CallerMakes, CallerRuns
  <2>2. ASSUME NEW c \in Caller, PerfSubmit(c) PROVE PerfInv'
    BY <2>2, PerfSubmitKeeps
  <2>3. CASE Hardware
    BY <2>3, PerfHardwareKeeps
  <2>4. CASE Handler /\ UNCHANGED perfVars
    BY <2>4, PerfHandlerKeeps
  <2>5. CASE WorkRuns
    BY <2>5, PerfWorkTaken, PerfWorkBegins, PerfWorkPerf, PerfWorkShutdown, PerfWorkMarks,
       PerfWorkUnlinks, PerfWorkResumes, PerfWorkReenables DEF WorkRuns
  <2>6. CASE PerfStart \/ PerfStartRefused \/ PerfQueue
    BY <1>2, <2>6, PerfStartKeeps, PerfRefusedKeeps, PerfQueueTest DEF PerfNext, Defined
  <2>7. CASE PerfStop \/ PerfStopRun \/ PerfStopFree \/ PerfStopCopyFails
    BY <2>7, PerfStopKeeps, PerfStopRunKeeps, PerfStopFreeKeeps, PerfStopCopyFailsKeeps
  <2> QED
    BY <1>2, <2>1, <2>2, <2>3, <2>4, <2>5, <2>6, <2>7 DEF PerfNext
<1> QED
  BY <1>1, <1>2

LEMMA PerfInvHolds ==
  ASSUME ~MsixOverlap
  PROVE  PerfSpec => []PerfInv
<1>1. PerfInit => PerfInv
  BY PerfInvInit
<1>2. PerfInv /\ [PerfNext]_allVars => PerfInv'
  BY PerfInvNext
<1> QED
  BY <1>1, <1>2, PTL DEF PerfSpec

(* The variables of the engine keep their types next to tests, and no       *)
(* restart of the engine lets its counts grow.                              *)
THEOREM PerfTypeCorrect ==
  ASSUME ~MsixOverlap
  PROVE  PerfSpec => []TypeOK
<1>1. PerfInv => TypeOK
  BY DEF PerfInv
<1> QED
  BY <1>1, PerfInvHolds, PTL

(* The main result about ioctl(): tests next to requests, with an unlocked  *)
(* PERF_STOP at any moment and tests that could not start, never make       *)
(* engine_service() find an empty queue, and what the channel executes is   *)
(* always the first queued transfer.  Programs of an MSI-X device keep      *)
(* tests and requests apart; with legacy interrupts they need not.          *)
THEOREM TestsKeepQueue ==
  ASSUME ~MsixOverlap
  PROVE  PerfSpec => []QueueSurvivesTests
<1>1. PerfInv => QueueSurvivesTests
  <2> SUFFICES ASSUME PerfInv PROVE QueueSurvivesTests
    OBVIOUS
  <2> USE DEF PerfInv
  <2>1. NoBug
    OBVIOUS
  <2>2. ASSUME active
        PROVE  running /\ transfer_list # << >> /\ cur = Head(transfer_list) /\ xstate[cur] = "SUBMITTED"
    <3>1. InRun /\ ~Serving
      BY <2>2 DEF InRun, PerfReport
    <3>2. running /\ transfer_list # << >> /\ cur = Head(transfer_list)
      BY <3>1 DEF RunIsHead, Serving
    <3>3. cur \in Queued
      BY <3>2, TailFacts, QueuedIsElems DEF TypeOK, EngineTypeOK
    <3> QED
      BY <2>2, <3>2, <3>3 DEF PerfQueued, PerfReport, ServicedIsHead, Finishing
  <2> QED
    BY <2>1, <2>2 DEF QueueSurvivesTests, ChannelRunsHead
<1> QED
  BY <1>1, PerfInvHolds, PTL

(* A PERF_STOP that hits a transfer of read() or write() fails it: whatever *)
(* descriptor it is halted at, a transfer that is reported as completed was *)
(* moved whole.                                                             *)
THEOREM HaltedIsNotCompleted ==
  ASSUME ~MsixOverlap
  PROVE  PerfSpec => []HalfDoneFails
<1>1. PerfInv => HalfDoneFails
  BY DEF PerfInv, HalfDoneFails
<1> QED
  BY <1>1, PerfInvHolds, PTL

(* Signals next to tests: a transfer that is over is on the queue only while *)
(* the work is about to take it off, and transfer_destroy() frees no         *)
(* transfer the engine still uses but that one, under the lock.  One that    *)
(* waits, behind a test too, or that the channel executes is never freed.    *)
THEOREM PerfNeverFreesQueued ==
  ASSUME ~MsixOverlap
  PROVE  PerfSpec => [](FreedInServiceOnly /\ TakenOffEngine)
<1>1. PerfInv => FreedInServiceOnly
  <2> SUFFICES ASSUME PerfInv, NEW x \in InUse, xstate[x] = "FREE"
               PROVE  x = serviced /\ locked
    BY DEF FreedInServiceOnly
  <2> USE DEF PerfInv
  <2>1. locked <=> work_pc # "idle"
    BY DEF PerfMask
  <2>2. CASE x \in Queued
    <3>1. work_pc = "unlink" /\ x = serviced
      BY <2>2 DEF PerfQueued
    <3> QED
      BY <2>1, <3>1
  <2>3. CASE x = serviced /\ serviced # NoXfer
    <3>1. Finishing
      BY <2>3 DEF PerfReport, ServicedIsHead
    <3> QED
      BY <2>1, <2>3, <3>1 DEF Finishing
  <2> QED
    BY <2>2, <2>3 DEF InUse
<1>2. PerfInv => TakenOffEngine
  <2> SUFFICES ASSUME PerfInv, NEW x \in Queued \ {serviced}
               PROVE  xstate[x] \notin {"COMPLETED", "FAILED"}
    BY DEF TakenOffEngine
  <2>1. xstate[x] = "SUBMITTED"
    BY DEF PerfInv, PerfQueued
  <2> QED
    BY <2>1
<1> QED
  BY <1>1, <1>2, PerfInvHolds, PTL
=============================================================================
