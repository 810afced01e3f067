--------------------------- MODULE XdmaRing_proofs ---------------------------
(***************************************************************************)
(* Proofs about XdmaRing, for a ring of any size, packets of any length,   *)
(* any number of readers, both modes and all the faults.                   *)
(***************************************************************************)
EXTENDS XdmaRing, FiniteSetTheorems, SequenceTheorems, WellFoundedInduction, TLAPS

(* What the proofs need to know of the ranges; the counts of blocks need    *)
(* no bound.                                                                *)
Where == {"idle", "wait", "poll", "polling", "failed", "test", "complete", "take", "copy", "overrun"}
FileWhere == {"closed", "starting", "open", "stopping", "draining", "drained", "freeing"}
Outcome == {"none", "packet", "empty", "EIO", "ERESTARTSYS"}
AnyResult == [id : Nat, first : BOOLEAN, eop : BOOLEAN, bad : BOOLEAN]

RingTypes ==
  /\ result \in [Slot -> AnyResult]
  /\ rx_tail \in Slot /\ rx_head \in Slot /\ next_block \in Slot
  /\ written \in Nat /\ taken \in Nat /\ in_packet \in Nat /\ opens \in Nat

ModeTypes ==
  /\ running \in BOOLEAN /\ queued \in BOOLEAN /\ ring \in BOOLEAN /\ locked \in BOOLEAN
  /\ run \in BOOLEAN /\ active \in BOOLEAN /\ busy \in BOOLEAN /\ poll_mode \in BOOLEAN
  /\ "BUSY" \notin events
  /\ work \in {"idle", "service"} /\ file \in FileWhere

ReaderTypes ==
  /\ pc \in [Reader -> Where]
  /\ got \in [Reader -> Seq(AnyResult)]
  /\ outcome \in [Reader -> Outcome]

(* engine->lock has at most one holder, and is held when it has one.        *)
ReaderHolds(r) == pc[r] \in {"polling", "failed", "take"}
CloseHolds == file \in {"draining", "drained"}

LockInv ==
  /\ LockHasHolder
  /\ work = "service" =>
       locked /\ ~CloseHolds /\ "leaked" \notin mishap /\ \A r \in Reader : ~ReaderHolds(r)
  /\ CloseHolds => locked /\ "leaked" \notin mishap
  /\ \A r \in Reader : ReaderHolds(r) =>
       locked /\ "leaked" \notin mishap /\ \A q \in Reader : ReaderHolds(q) => q = r
  /\ "leaked" \in mishap => locked
  /\ file # "open" => \A r \in Reader : pc[r] = "idle"

(* Whoever marks the engine as not running has seen that it is idle, and    *)
(* the ring's memory is given back only then.                               *)
StopInv ==
  /\ queued = running /\ busy = active
  /\ active => running
  /\ work = "service" /\ "BUSY" \notin status => ~active
  /\ \A r \in Reader : pc[r] = "failed" /\ "BUSY" \notin status => ~active
  /\ file = "drained" => "BUSY" \notin status /\ ~active
  /\ file \in {"freeing", "closed"} /\ "interrupted" \notin mishap => ~running
  /\ file = "starting" => ~running
  /\ ring <=> file # "closed"
  /\ ring => opens > 0

(* The hardware's next block follows the last block that waits.             *)
FillInv ==
  ring /\ mishap \cap {"lapped", "leaked"} = {} =>
    /\ taken <= written /\ written <= taken + RingSize
    /\ active => next_block = After(rx_head, written - taken)
    /\ file = "starting" => rx_head = 0 /\ taken = written

(* The blocks that wait in the ring are whole packets, but for the packet   *)
(* the reader is taking and the one the hardware is writing.                *)
Calm ==
  /\ poll_mode /\ "share" \notin env
  /\ mishap \cap {"lapped", "leaked", "bad"} = {}
  /\ opens <= 1

Waiting(k) == result[After(rx_head, k)]
InPacket == \E r \in Reader : pc[r] = "take" /\ got[r] # << >>

PacketsWait ==
  /\ \A k \in 0..(RingSize - 1) : taken + k < written => ~Waiting(k).bad
  /\ \A k \in 1..(RingSize - 1) : taken + k < written => (Waiting(k).first <=> Waiting(k - 1).eop)
  /\ taken < written => (in_packet = 0 <=> Waiting(written - taken - 1).eop)
  /\ taken < written /\ ~InPacket => Waiting(0).first
  /\ taken = written /\ ~InPacket => in_packet = 0
  /\ \A r \in Reader : pc[r] \in {"test", "complete", "take"} => \E s \in Slot : result[s].eop

PacketInv == Calm => /\ opens = 0 => in_packet = 0
                     /\ ring => PacketsWait

(* What a reader took so far are the first blocks of a packet, up to the    *)
(* last one that was taken at all, or a packet.                             *)
InOrder(s) == /\ s[1].first
              /\ \A i \in 2..Len(s) : s[i].id = s[i - 1].id + 1
ReadInv ==
  /\ "share" \notin env => \A r \in Reader \ {Owner} : pc[r] = "idle"
  /\ Calm => \A r \in Reader :
       /\ pc[r] \notin {"idle", "overrun"} => outcome[r] = "none"
       /\ pc[r] \in {"poll", "polling", "failed", "test", "complete"} => got[r] = << >>
       /\ pc[r] # "wait" /\ outcome[r] # "empty"
       /\ pc[r] = "copy" \/ outcome[r] = "packet" => got[r] # << >> /\ InOrder(got[r])
       /\ pc[r] = "take" /\ got[r] # << >> => InOrder(got[r]) /\ got[r][Len(got[r])].id = taken

RingInv ==
  /\ RingTypes /\ ModeTypes /\ ReaderTypes
  /\ LockInv
  /\ StopInv
  /\ FillInv /\ RingIsOrdered
  /\ PacketInv /\ ReadInv

-----------------------------------------------------------------------------
(* A bounded set of numbers that is not empty has the maximum Max chooses.  *)
LEMMA MaxExists ==
  ASSUME NEW n \in Nat, NEW S \in SUBSET (0..n), S # {}
  PROVE  Max(S) \in S /\ \A y \in S : Max(S) >= y
<1> DEFINE T == {n - x : x \in S}
<1>1. T \subseteq Nat /\ T # {}
  <2>1. \A x \in S : x \in 0..n /\ n - x \in Nat
    OBVIOUS
  <2>2. T \subseteq Nat
    BY <2>1
  <2> QED
    BY <2>2
<1>2. PICK t \in T : \A u \in T : ~ (<<u, t>> \in OpToRel(<, Nat))
  BY <1>1, NatLessThanWellFounded, WFMin
<1>3. \A u \in T : ~ (u < t)
  BY <1>1, <1>2 DEF OpToRel
<1>4. PICK x \in S : t = n - x
  OBVIOUS
<1>5. \A y \in S : x >= y
  BY <1>3, <1>4
<1> QED
  BY <1>5 DEF Max

(* Going round the ring.                                                    *)
LEMMA AfterValue ==
  ASSUME NEW s \in Slot, NEW n \in 0..RingSize
  PROVE  /\ After(s, n) \in Slot
         /\ After(s, n) = IF s + n < RingSize THEN s + n ELSE s + n - RingSize
BY RingConstants, Z3 DEF RingConstants, Slot, After

(* Every place of the ring is one distance away, and the distance from the  *)
(* next place is one less.                                                  *)
LEMMA RoundTheRing ==
  ASSUME NEW h \in Slot
  PROVE  /\ After(h, 0) = h /\ After(h, RingSize) = h
         /\ \A k \in 0..RingSize : After(h, k) \in Slot
         /\ \A s \in Slot : \E k \in 0..(RingSize - 1) : s = After(h, k)
         /\ \A j, k \in 0..(RingSize - 1) : After(h, j) = After(h, k) => j = k
         /\ \A k \in 0..(RingSize - 1) : After(After(h, k), 1) = After(h, k + 1)
         /\ \A k \in 0..(RingSize - 1) : After(After(h, 1), k) = After(h, k + 1)
<1> USE RingConstants DEF RingConstants
<1>0. \A n \in 0..RingSize : /\ After(h, n) \in Slot
                             /\ After(h, n) = IF h + n < RingSize THEN h + n ELSE h + n - RingSize
  BY AfterValue
<1>1. After(h, 0) = h /\ After(h, RingSize) = h
  BY <1>0 DEF Slot
<1>2. ASSUME NEW s \in Slot PROVE \E k \in 0..(RingSize - 1) : s = After(h, k)
  <2>1. CASE s >= h
    <3>1. s - h \in 0..(RingSize - 1) /\ After(h, s - h) = s
      BY <1>0, <2>1 DEF Slot
    <3> QED
      BY <3>1
  <2>2. CASE s < h
    <3>1. s - h + RingSize \in 0..(RingSize - 1) /\ After(h, s - h + RingSize) = s
      BY <1>0, <2>2 DEF Slot
    <3> QED
      BY <3>1
  <2> QED
    BY <2>1, <2>2 DEF Slot
<1>3. ASSUME NEW j \in 0..(RingSize - 1), NEW k \in 0..(RingSize - 1), After(h, j) = After(h, k)
      PROVE  j = k
  BY <1>0, <1>3 DEF Slot
<1>4. ASSUME NEW k \in 0..(RingSize - 1) PROVE After(After(h, k), 1) = After(h, k + 1)
  <2>1. After(h, k) \in Slot
    BY <1>0
  <2>2. After(After(h, k), 1) = IF After(h, k) + 1 < RingSize THEN After(h, k) + 1
                                ELSE After(h, k) + 1 - RingSize
    BY <2>1, AfterValue
  <2> QED
    BY <1>0, <2>1, <2>2 DEF Slot
<1>5. ASSUME NEW k \in 0..(RingSize - 1) PROVE After(After(h, 1), k) = After(h, k + 1)
  <2>1. After(h, 1) \in Slot
    BY <1>0
  <2>2. After(After(h, 1), k) = IF After(h, 1) + k < RingSize THEN After(h, 1) + k
                                ELSE After(h, 1) + k - RingSize
    BY <2>1, AfterValue
  <2> QED
    BY <1>0, <2>1, <2>2 DEF Slot
<1> QED
  BY <1>0, <1>1, <1>2, <1>3, <1>4, <1>5

(* engine_ring_process() goes on from rx_tail by at most the whole ring.    *)
LEMMA FollowedInRing ==
  ASSUME RingTypes
  PROVE  Followed \in 0..RingSize
<1> DEFINE P(n) == /\ n > 0 => ~rx_overrun
                   /\ \A i \in 0..(n - 1) : /\ result[After(rx_tail, i)] # Clear
                                            /\ i > 0 => After(rx_tail, i) # rx_head
           S == {n \in 0..RingSize : P(n)}
<1>1. 0 \in 0..RingSize /\ P(0)
  BY RingConstants DEF RingConstants
<1>2. S \in SUBSET (0..RingSize) /\ S # {} /\ RingSize \in Nat
  <2> HIDE DEF P
  <2> QED
    BY <1>1, RingConstants DEF RingConstants
<1>3. Max(S) \in S
  <2> HIDE DEF S
  <2> QED
    BY <1>2, MaxExists
<1> QED
  BY <1>3 DEF Followed

-----------------------------------------------------------------------------
LEMMA RingInvInit == Init => RingInv
<1> SUFFICES ASSUME Init PROVE RingInv
  OBVIOUS
<1> USE RingConstants DEF RingConstants, Init
<1>1. 0 \in Slot
  BY DEF Slot
<1>2. RingTypes
  BY <1>1 DEF RingTypes, AnyResult, Clear
<1>3. ModeTypes
  BY DEF ModeTypes, FileWhere
<1>4. ReaderTypes
  BY DEF ReaderTypes, Where, Outcome
<1>5. LockInv
  BY DEF LockInv, LockHasHolder, CloseHolds, ReaderHolds
<1>6. StopInv
  BY DEF StopInv
<1>7. FillInv /\ RingIsOrdered /\ PacketInv
  BY DEF FillInv, RingIsOrdered, PacketInv
<1>8. ReadInv
  BY DEF ReadInv
<1> QED
  BY <1>2, <1>3, <1>4, <1>5, <1>6, <1>7, <1>8 DEF RingInv

LEMMA RingTypesNext == ASSUME RingInv, Next PROVE RingTypes'
<1> USE RingConstants DEF RingInv, RingConstants, ringVars, hwVars, readVars, openVars
<1>0. RingTypes /\ 0 \in Slot /\ Clear \in AnyResult
  BY DEF Slot, Clear, AnyResult
<1>1. ASSUME Hardware
      PROVE  RingTypes'
  <2>1. /\ UNCHANGED <<rx_tail, rx_head, taken, opens>>
        /\ \/ /\ next_block' = After(next_block, 1)
              /\ written' = written + 1 /\ in_packet' \in {0, in_packet + 1}
              /\ \E x \in AnyResult : result' = [result EXCEPT ![next_block] = x]
           \/ UNCHANGED <<result, next_block, written, in_packet>>
    <3>1. CASE HwBlock
      <4>1. PICK eop \in BOOLEAN, bad \in BOOLEAN :
              result' = [result EXCEPT ![next_block] =
                           [id |-> written + 1, first |-> in_packet = 0, eop |-> eop, bad |-> bad]]
        BY <3>1 DEF HwBlock
      <4>2. [id |-> written + 1, first |-> in_packet = 0, eop |-> eop, bad |-> bad] \in AnyResult
        BY <1>0 DEF RingTypes, AnyResult
      <4>3. in_packet' \in {0, in_packet + 1}
        BY <3>1 DEF HwBlock
      <4> QED
        BY <1>1, <3>1, <4>1, <4>2, <4>3 DEF Hardware, HwBlock
    <3>2. CASE HwStop \/ HwError
      BY <1>1, <3>2 DEF Hardware, HwStop, HwError
    <3> QED
      BY <1>1, <3>1, <3>2 DEF Hardware
  <2>2. After(next_block, 1) \in Slot
    BY <1>0, AfterValue DEF RingTypes
  <2> QED
    BY <1>0, <2>1, <2>2 DEF RingTypes
<1>2. ASSUME NEW r \in Reader, TakeResult(r)
      PROVE  RingTypes'
  <2>1. After(rx_head, 1) \in Slot
    BY <1>0, AfterValue DEF RingTypes
  <2> QED
    BY <1>0, <1>2, <2>1 DEF TakeResult, RingTypes
<1>3. ASSUME WorkService \/ \E r \in Reader : Polling(r)
      PROVE  RingTypes'
  <2>1. After(rx_tail, Followed) \in Slot
    BY <1>0, FollowedInRing, AfterValue DEF RingTypes
  <2> QED
    BY <1>0, <1>3, <2>1 DEF WorkService, Polling, RingProcess, RingTypes
<1>4. ASSUME Open
      PROVE  RingTypes'
  BY <1>0, <1>4 DEF Open, OpenSetup, OpenStart, OpenFailsLocked, OpenUnwinds, ResetRing, RingTypes
<1>5. ASSUME NEW r \in Reader,
             \/ ReadBegin(r) \/ WaitSignal(r) \/ ReadLocks(r) \/ WaitEop(r) \/ PollingError(r)
             \/ PollFailed(r) \/ TestHead(r) \/ TakeNothing(r) \/ CopyToUser(r) \/ ReadEnd(r)
      PROVE  RingTypes'
  BY <1>0, <1>5 DEF ReadBegin, WaitSignal, ReadLocks, PollBegin, CompleteBegin, WaitEop, PollingError,
     PollFailed, TestHead, TakeNothing, CopyToUser, ReadEnd, RingTypes
<1>6. ASSUME WorkBegin \/ CloseStop \/ CloseSignal \/ CloseLocks \/ CloseRuns
      PROVE  RingTypes'
  BY <1>0, <1>6 DEF WorkBegin, CloseStop, CloseSignal, CloseLocks, CloseLock, CloseFree, CloseRuns,
     CloseWait, CloseDrain, CloseDrained, RingTypes
<1> QED
  BY <1>1, <1>2, <1>3, <1>4, <1>5, <1>6 DEF Next, ReadRuns

(* engine_service_shutdown() leaves flags, whatever the status word says. *)
LEMMA ShutdownTypes ==
  ASSUME ModeTypes, ShutdownWhenIdle \/ UNCHANGED <<running, queued, run>>
  PROVE  running' \in BOOLEAN /\ queued' \in BOOLEAN /\ run' \in BOOLEAN
<1>1. running \in BOOLEAN /\ queued \in BOOLEAN /\ run \in BOOLEAN
  BY DEF ModeTypes
<1>2. \/ queued' = FALSE /\ running' = FALSE /\ run' = FALSE
      \/ UNCHANGED <<queued, running, run>>
  BY DEF ShutdownWhenIdle
<1> QED
  BY <1>1, <1>2

LEMMA ModeTypesNext == ASSUME RingInv, Next PROVE ModeTypes'
<1>0. ModeTypes
  BY DEF RingInv
<1> USE <1>0 DEF ModeTypes, FileWhere
<1>1. ASSUME Hardware
      PROVE  ModeTypes'
  <2>1. UNCHANGED <<running, queued, ring, locked, poll_mode, run, work, file>>
    <3>1. UNCHANGED <<running, queued, ring, locked, poll_mode, work, file>>
      BY <1>1 DEF Hardware, engineVars
    <3>2. run' = run
      BY <1>1 DEF Hardware, HwBlock, HwStop, HwError
    <3> QED
      BY <3>1, <3>2
  <2>2. active' \in BOOLEAN /\ busy' \in BOOLEAN
    BY <1>1 DEF Hardware, HwBlock, HwStop, HwError
  <2>3. "BUSY" \notin events'
    <3>1. events' \in {events, events \cup {"COMPLETED"}, events \cup {"STOPPED"}, events \cup {"ERROR"}}
      BY <1>1 DEF Hardware, HwBlock, HwStop, HwError
    <3> QED
      BY <3>1
  <2> QED
    BY <2>1, <2>2, <2>3
<1>2. ASSUME WorkBegin
      PROVE  ModeTypes'
  <2>1. /\ UNCHANGED <<running, queued, ring, poll_mode, run, active, busy, file>>
        /\ locked' = TRUE /\ work' = "service" /\ events' = {}
    BY <1>2 DEF WorkBegin, StatusReadClear
  <2> QED
    BY <2>1
<1>3. ASSUME WorkService
      PROVE  ModeTypes'
  <2>1. /\ UNCHANGED <<ring, poll_mode, active, busy, events, file>>
        /\ locked' = FALSE /\ work' = "idle"
    BY <1>3 DEF WorkService
  <2>2. ShutdownWhenIdle \/ UNCHANGED <<running, queued, run>>
    BY <1>3 DEF WorkService
  <2>3. running' \in BOOLEAN /\ queued' \in BOOLEAN /\ run' \in BOOLEAN
    BY <2>2, ShutdownTypes
  <2> QED
    BY <2>1, <2>3
<1>4. ASSUME NEW r \in Reader, ReadBegin(r) \/ WaitSignal(r) \/ ReadLocks(r)
      PROVE  ModeTypes'
  <2>1. UNCHANGED <<running, queued, ring, run, active, busy, poll_mode, events, work, file>>
    BY <1>4 DEF ReadBegin, WaitSignal, ReadLocks, PollBegin, CompleteBegin, engineVars, hwVars
  <2>2. locked' \in BOOLEAN
    BY <1>4 DEF ReadBegin, WaitSignal, ReadLocks, PollBegin, CompleteBegin, engineVars
  <2> QED
    BY <2>1, <2>2
<1>5. ASSUME NEW r \in Reader, PollingError(r)
      PROVE  ModeTypes'
  <2>1. /\ UNCHANGED <<running, queued, ring, locked, run, active, busy, poll_mode, work, file>>
        /\ events' = {}
    BY <1>5 DEF PollingError, StatusReadClear
  <2> QED
    BY <2>1
<1>6. ASSUME NEW r \in Reader, PollFailed(r)
      PROVE  ModeTypes'
  <2>1. /\ UNCHANGED <<ring, active, busy, poll_mode, events, work, file>>
        /\ locked' = FALSE
        /\ ShutdownWhenIdle
    BY <1>6 DEF PollFailed
  <2>2. running' \in BOOLEAN /\ queued' \in BOOLEAN /\ run' \in BOOLEAN
    BY <2>1, ShutdownTypes
  <2> QED
    BY <2>1, <2>2
<1>7. ASSUME NEW r \in Reader,
             \/ WaitEop(r) \/ Polling(r) \/ TestHead(r) \/ TakeResult(r) \/ TakeNothing(r)
             \/ CopyToUser(r) \/ ReadEnd(r)
      PROVE  ModeTypes'
  <2>1. UNCHANGED <<running, queued, ring, run, active, busy, poll_mode, events, work, file>>
    BY <1>7 DEF WaitEop, Polling, TestHead, TakeResult, TakeNothing, CopyToUser, ReadEnd,
       engineVars, hwVars
  <2>2. locked' \in BOOLEAN
    BY <1>7 DEF WaitEop, Polling, TestHead, TakeResult, TakeEnds, TakeNothing, CopyToUser, ReadEnd,
       engineVars
  <2> QED
    BY <2>1, <2>2
<1>8. ASSUME OpenStart
      PROVE  ModeTypes'
  <2>1. /\ UNCHANGED <<ring, locked, poll_mode, events, work>>
        /\ running' = TRUE /\ queued' = TRUE /\ file' = "open"
    BY <1>8 DEF OpenStart
  <2>2. /\ run' \in BOOLEAN /\ active' \in BOOLEAN /\ busy' \in BOOLEAN
    BY <1>8 DEF OpenStart
  <2> QED
    BY <2>1, <2>2
<1>9. ASSUME OpenSetup \/ OpenFailsLocked \/ OpenUnwinds
      PROVE  ModeTypes'
  <2>1. UNCHANGED <<running, queued, poll_mode, run, active, busy, events, work>>
    BY <1>9 DEF OpenSetup, OpenFailsLocked, OpenUnwinds, engineVars, hwVars
  <2>2. ring' \in BOOLEAN /\ locked' \in BOOLEAN /\ file' \in FileWhere
    BY <1>9 DEF OpenSetup, OpenFailsLocked, OpenUnwinds, engineVars
  <2> QED
    BY <2>1, <2>2
<1>10. ASSUME CloseStop
       PROVE  ModeTypes'
  <2>1. /\ UNCHANGED <<running, queued, ring, locked, poll_mode, active, busy, events, work>>
        /\ run' \in BOOLEAN /\ file' = "stopping"
    BY <1>10 DEF CloseStop, engineVars
  <2> QED
    BY <2>1
<1>11. ASSUME CloseSignal \/ CloseWait \/ CloseLock \/ CloseFree
       PROVE  ModeTypes'
  <2>1. UNCHANGED <<running, queued, poll_mode, run, active, busy, events, work>>
    BY <1>11 DEF CloseSignal, CloseWait, CloseLock, CloseFree, engineVars, hwVars
  <2>2. ring' \in BOOLEAN /\ locked' \in BOOLEAN
    BY <1>11 DEF CloseSignal, CloseWait, CloseLock, CloseFree, engineVars
  <2>3. file' \in FileWhere
    BY <1>11 DEF CloseSignal, CloseWait, CloseLock, CloseFree
  <2> QED
    BY <2>1, <2>2, <2>3
<1>12. ASSUME CloseDrain
       PROVE  ModeTypes'
  <2>1. /\ UNCHANGED <<running, queued, ring, locked, poll_mode, run, active, busy, work>>
        /\ events' = {} /\ file' \in FileWhere
    BY <1>12 DEF CloseDrain, StatusReadClear
  <2> QED
    BY <2>1
<1>13. ASSUME CloseDrained
       PROVE  ModeTypes'
  <2>1. /\ UNCHANGED <<ring, poll_mode, active, busy, events, work>>
        /\ locked' = FALSE /\ file' = "freeing"
        /\ ShutdownWhenIdle
    BY <1>13 DEF CloseDrained
  <2>2. running' \in BOOLEAN /\ queued' \in BOOLEAN /\ run' \in BOOLEAN
    BY <2>1, ShutdownTypes
  <2> QED
    BY <2>1, <2>2
<1>14. CASE \E r \in Reader : ReadBegin(r) \/ WaitSignal(r) \/ ReadLocks(r) \/ ReadRuns(r)
  BY <1>4, <1>5, <1>6, <1>7, <1>14 DEF ReadRuns
<1>15. CASE Open
  BY <1>8, <1>9, <1>15 DEF Open
<1>16. CASE CloseLocks \/ CloseRuns
  BY <1>11, <1>12, <1>13, <1>16 DEF CloseLocks, CloseRuns
<1> QED
  BY <1>1, <1>2, <1>3, <1>10, <1>11, <1>14, <1>15, <1>16 DEF Next

LEMMA ReaderTypesNext == ASSUME RingInv, Next PROVE ReaderTypes'
<1> USE DEF RingInv, ReaderTypes, Where, Outcome, ringVars, engineVars, hwVars, readVars, openVars
<1>1. ASSUME NEW r \in Reader, TakeResult(r)
      PROVE  ReaderTypes'
  <2>1. result[rx_head] \in AnyResult
    BY DEF RingTypes
  <2>2. Append(got[r], result[rx_head]) \in Seq(AnyResult)
    BY <2>1
  <2> QED
    BY <1>1, <2>2 DEF TakeResult, TakeEnds
<1>2. ASSUME NEW r \in Reader, ReadBegin(r)
      PROVE  ReaderTypes'
  BY <1>2 DEF ReadBegin
<1>3. ASSUME NEW r \in Reader,
             \/ WaitSignal(r) \/ ReadLocks(r) \/ WaitEop(r) \/ Polling(r) \/ PollingError(r)
             \/ PollFailed(r) \/ TestHead(r) \/ TakeNothing(r) \/ CopyToUser(r) \/ ReadEnd(r)
      PROVE  ReaderTypes'
  BY <1>3 DEF WaitSignal, Returns, ReadLocks, PollBegin, CompleteBegin, WaitEop, Polling, PollingError,
     PollFailed, TestHead, TakeNothing, CopyToUser, ReadEnd
<1>4. ASSUME \/ Hardware \/ WorkBegin \/ WorkService \/ Open
             \/ CloseStop \/ CloseSignal \/ CloseLocks \/ CloseRuns
      PROVE  ReaderTypes'
  BY <1>4 DEF Hardware, WorkBegin, WorkService, Open, OpenSetup, OpenStart, OpenFailsLocked, OpenUnwinds,
     CloseStop, CloseSignal, CloseLocks, CloseLock, CloseFree, CloseRuns, CloseWait, CloseDrain, CloseDrained
<1> QED
  BY <1>1, <1>2, <1>3, <1>4 DEF Next, ReadRuns

-----------------------------------------------------------------------------
(* Who holds the lock.                                                      *)
LEMMA LockNext == ASSUME RingInv, Next PROVE LockInv'
<1> USE DEF RingInv, ringVars, engineVars, hwVars, readVars, openVars
<1>0. pc \in [Reader -> Where]
  BY DEF ReaderTypes
<1>a. ~locked => /\ work # "service" /\ ~CloseHolds /\ "leaked" \notin mishap
                 /\ \A r \in Reader : ~ReaderHolds(r)
  BY DEF LockInv
<1>1. ASSUME Hardware
      PROVE  LockInv'
  <2>1. /\ UNCHANGED <<locked, work, file, pc>>
        /\ "leaked" \in mishap' <=> "leaked" \in mishap
    BY <1>1 DEF Hardware, HwBlock, HwStop, HwError
  <2> QED
    BY <2>1 DEF LockInv, LockHasHolder, CloseHolds, ReaderHolds
<1>2. ASSUME WorkBegin
      PROVE  LockInv'
  BY <1>2, <1>a DEF WorkBegin, LockInv, LockHasHolder, CloseHolds, ReaderHolds
<1>3. ASSUME WorkService
      PROVE  LockInv'
  <2>1. /\ work = "service" /\ work' = "idle" /\ locked' = FALSE
        /\ UNCHANGED <<file, pc, mishap>>
    BY <1>3 DEF WorkService
  <2> QED
    BY <2>1 DEF LockInv, LockHasHolder, CloseHolds, ReaderHolds
<1>4. ASSUME NEW r \in Reader,
             ReadBegin(r) \/ WaitSignal(r) \/ WaitEop(r) \/ TestHead(r) \/ CopyToUser(r) \/ ReadEnd(r)
      PROVE  LockInv'
  <2>1. /\ UNCHANGED <<locked, work, file, mishap>>
        /\ ~ReaderHolds(r) /\ (file = "open" \/ pc[r] # "idle")
    BY <1>4 DEF ReadBegin, WaitSignal, WaitEop, TestHead, CopyToUser, ReadEnd, ReaderHolds
  <2>2. PICK w \in Where \ {"polling", "failed", "take"} : pc' = [pc EXCEPT ![r] = w]
    BY <1>4 DEF ReadBegin, WaitSignal, Returns, WaitEop, TestHead, CopyToUser, ReadEnd, Where
  <2> QED
    BY <1>0, <2>1, <2>2 DEF LockInv, LockHasHolder, CloseHolds, ReaderHolds
<1>5. ASSUME NEW r \in Reader, ReadLocks(r)
      PROVE  LockInv'
  <2>1. /\ ~locked /\ locked' = TRUE /\ pc[r] # "idle"
        /\ UNCHANGED <<work, file, mishap>>
    BY <1>5 DEF ReadLocks, PollBegin, CompleteBegin
  <2>2. PICK w \in {"polling", "take"} : pc' = [pc EXCEPT ![r] = w]
    BY <1>5 DEF ReadLocks, PollBegin, CompleteBegin
  <2> QED
    BY <1>0, <1>a, <2>1, <2>2 DEF LockInv, LockHasHolder, CloseHolds, ReaderHolds
<1>6. ASSUME NEW r \in Reader, Polling(r) \/ PollingError(r) \/ PollFailed(r) \/ TakeResult(r) \/ TakeNothing(r)
      PROVE  LockInv'
  <2>1. ReaderHolds(r) /\ UNCHANGED <<work, file, mishap>>
    BY <1>6 DEF Polling, PollingError, PollFailed, TakeResult, TakeNothing, ReaderHolds
  <2>2. \/ UNCHANGED <<locked, pc>>
        \/ UNCHANGED locked /\ pc' = [pc EXCEPT ![r] = "failed"]
        \/ locked' = FALSE /\ \E w \in Where \ {"polling", "failed", "take"} : pc' = [pc EXCEPT ![r] = w]
    <3>1. CASE Polling(r)
      BY <3>1 DEF Polling, Where
    <3>2. CASE PollingError(r)
      BY <3>2 DEF PollingError
    <3>3. CASE PollFailed(r) \/ TakeNothing(r)
      BY <3>3 DEF PollFailed, Returns, TakeNothing, Where
    <3>4. CASE TakeResult(r)
      BY <3>4 DEF TakeResult, TakeEnds, Where
    <3> QED
      BY <1>6, <3>1, <3>2, <3>3, <3>4
  <2>3. /\ work # "service" /\ ~CloseHolds /\ "leaked" \notin mishap /\ locked /\ file = "open"
        /\ \A q \in Reader : ReaderHolds(q) => q = r
    BY <2>1 DEF LockInv, ReaderHolds, CloseHolds
  <2>4. CASE UNCHANGED <<locked, pc>>
    BY <2>1, <2>4 DEF LockInv, LockHasHolder, CloseHolds, ReaderHolds
  <2>5. CASE UNCHANGED locked /\ pc' = [pc EXCEPT ![r] = "failed"]
    BY <1>0, <2>1, <2>3, <2>5 DEF LockInv, LockHasHolder, CloseHolds, ReaderHolds
  <2>6. ASSUME locked' = FALSE,
               NEW w \in Where \ {"polling", "failed", "take"}, pc' = [pc EXCEPT ![r] = w]
        PROVE  LockInv'
    <3>1. \A q \in Reader : ~ReaderHolds(q)'
      BY <1>0, <2>3, <2>6 DEF ReaderHolds
    <3> QED
      BY <2>1, <2>3, <2>6, <3>1 DEF LockInv, LockHasHolder, CloseHolds
  <2> QED
    BY <2>2, <2>4, <2>5, <2>6
<1>7. ASSUME OpenSetup \/ OpenStart \/ OpenUnwinds
      PROVE  LockInv'
  <2>1. /\ ~locked /\ UNCHANGED <<locked, work, pc, mishap>>
        /\ file' = file \/ file' \in {"starting", "open"}
        /\ file # "open" \/ file' = "open"
    BY <1>7 DEF OpenSetup, OpenStart, OpenUnwinds
  <2> QED
    BY <1>a, <2>1 DEF LockInv, LockHasHolder, CloseHolds, ReaderHolds
<1>8. ASSUME OpenFailsLocked
      PROVE  LockInv'
  <2>1. /\ ~locked /\ locked' = TRUE /\ "leaked" \in mishap'
        /\ UNCHANGED <<work, pc, file>>
    BY <1>8 DEF OpenFailsLocked
  <2> QED
    BY <1>a, <2>1 DEF LockInv, LockHasHolder, CloseHolds, ReaderHolds
<1>9. ASSUME CloseStop \/ CloseSignal \/ CloseWait \/ CloseFree
      PROVE  LockInv'
  <2>1. /\ UNCHANGED <<locked, work, pc>>
        /\ "leaked" \in mishap' <=> "leaked" \in mishap
        /\ ~CloseHolds /\ ~CloseHolds'
        /\ \A r \in Reader : pc[r] = "idle"
    BY <1>9 DEF CloseStop, CloseSignal, CloseWait, CloseFree, CloseHolds, LockInv
  <2> QED
    BY <2>1 DEF LockInv, LockHasHolder, ReaderHolds, CloseHolds
<1>10. ASSUME CloseLock
      PROVE  LockInv'
  <2>1. /\ ~locked /\ locked' = TRUE /\ file = "stopping" /\ file' = "draining"
        /\ UNCHANGED <<work, pc, mishap>>
    BY <1>10 DEF CloseLock
  <2> QED
    BY <1>a, <2>1 DEF LockInv, LockHasHolder, CloseHolds, ReaderHolds
<1>11. ASSUME CloseDrain
      PROVE  LockInv'
  <2>1. /\ file = "draining" /\ file' \in {"draining", "drained"}
        /\ UNCHANGED <<locked, work, pc, mishap>>
    BY <1>11 DEF CloseDrain
  <2> QED
    BY <2>1 DEF LockInv, LockHasHolder, CloseHolds, ReaderHolds
<1>12. ASSUME CloseDrained
      PROVE  LockInv'
  <2>1. /\ file = "drained" /\ file' = "freeing" /\ locked' = FALSE
        /\ UNCHANGED <<work, pc, mishap>>
    BY <1>12 DEF CloseDrained
  <2> QED
    BY <2>1 DEF LockInv, LockHasHolder, CloseHolds, ReaderHolds
<1> QED
  BY <1>1, <1>2, <1>3, <1>4, <1>5, <1>6, <1>7, <1>8, <1>9, <1>10, <1>11, <1>12
  DEF Next, ReadRuns, Open, CloseLocks, CloseRuns

(* Who stops the engine has seen it idle.                                   *)
LEMMA StopNext == ASSUME RingInv, Next PROVE StopInv'
<1> USE DEF RingInv, ringVars, engineVars, hwVars, readVars, openVars
<1>0. /\ pc \in [Reader -> Where] /\ "BUSY" \notin events
      /\ opens \in Nat /\ running \in BOOLEAN /\ queued \in BOOLEAN
      /\ active \in BOOLEAN /\ busy \in BOOLEAN /\ ring \in BOOLEAN
      /\ ~FreedInUse
  BY DEF ReaderTypes, RingTypes, ModeTypes, Next
<1>a. ~locked => work # "service" /\ file # "drained" /\ \A r \in Reader : pc[r] # "failed"
  BY DEF LockInv, CloseHolds, ReaderHolds
<1>b. file # "open" => \A r \in Reader : pc[r] # "failed"
  BY DEF LockInv
<1>1. ASSUME Hardware
      PROVE  StopInv'
  <2>1. /\ UNCHANGED <<running, queued, ring, status, work, file, opens, pc>>
        /\ "interrupted" \in mishap' <=> "interrupted" \in mishap
    BY <1>1 DEF Hardware, HwBlock, HwStop, HwError
  <2>2. (active' => active) /\ busy' = active'
    BY <1>1 DEF Hardware, HwBlock, HwStop, HwError, StopInv
  <2> QED
    BY <2>1, <2>2 DEF StopInv
<1>2. ASSUME WorkBegin
      PROVE  StopInv'
  <2>1. /\ ~locked
        /\ status' = events \cup (IF busy THEN {"BUSY"} ELSE {})
        /\ UNCHANGED <<running, queued, ring, active, busy, file, opens, mishap, pc>>
    BY <1>2 DEF WorkBegin, StatusReadClear
  <2> QED
    BY <1>0, <1>a, <2>1 DEF StopInv
<1>3. ASSUME NEW r \in Reader, PollingError(r)
      PROVE  StopInv'
  <2>1. /\ pc[r] = "polling" /\ pc' = [pc EXCEPT ![r] = "failed"]
        /\ status' = events \cup (IF busy THEN {"BUSY"} ELSE {})
        /\ UNCHANGED <<running, queued, ring, active, busy, file, work, opens, mishap>>
    BY <1>3 DEF PollingError, StatusReadClear
  <2>2. work # "service" /\ file = "open" /\ ~CloseHolds
    BY <2>1 DEF LockInv, ReaderHolds, CloseHolds
  <2> QED
    BY <1>0, <2>1, <2>2 DEF StopInv
<1>4. ASSUME CloseDrain
      PROVE  StopInv'
  <2>1. /\ file = "draining" /\ file' = IF busy THEN "draining" ELSE "drained"
        /\ status' = events \cup (IF busy THEN {"BUSY"} ELSE {})
        /\ UNCHANGED <<running, queued, ring, active, busy, work, opens, mishap, pc>>
    BY <1>4 DEF CloseDrain, StatusReadClear
  <2>2. work # "service"
    BY <2>1 DEF LockInv, CloseHolds
  <2> QED
    BY <1>0, <1>b, <2>1, <2>2 DEF StopInv
<1>5. ASSUME WorkService \/ CloseDrained \/ \E r \in Reader : PollFailed(r)
      PROVE  StopInv'
  <2>1. UNCHANGED <<ring, status, active, busy, opens, mishap>>
    BY <1>5 DEF WorkService, CloseDrained, PollFailed
  <2>2. /\ \/ ShutdownWhenIdle
           \/ ~ring /\ file # "drained" /\ UNCHANGED <<queued, running>>
        /\ file' = file \/ (file = "drained" /\ file' = "freeing")
        /\ work' \in {work, "idle"}
        /\ \A r \in Reader : pc'[r] \in {pc[r], "idle"}
    <3>1. CASE WorkService
      <4>1. work = "service" /\ work' = "idle" /\ UNCHANGED <<file, pc>> /\ file # "drained"
        BY <3>1 DEF WorkService, LockInv, CloseHolds
      <4> QED
        BY <3>1, <4>1 DEF WorkService
    <3>2. CASE CloseDrained
      BY <3>2 DEF CloseDrained
    <3>3. ASSUME NEW r \in Reader, PollFailed(r) PROVE <2>2!:
      BY <1>0, <3>3 DEF PollFailed, Returns
    <3> QED
      BY <1>5, <3>1, <3>2, <3>3
  <2>3. \/ UNCHANGED <<queued, running>> /\ (ring => ~running \/ "BUSY" \in status)
        \/ queued' = FALSE /\ running' = FALSE /\ "BUSY" \notin status
    BY <2>2 DEF ShutdownWhenIdle, StopInv
  <2>4. "BUSY" \notin status => ~active
    <3>1. CASE WorkService
      BY <3>1 DEF WorkService, StopInv
    <3>2. CASE CloseDrained
      BY <3>2 DEF CloseDrained, StopInv
    <3>3. ASSUME NEW r \in Reader, PollFailed(r) PROVE <2>4!:
      BY <3>3 DEF PollFailed, StopInv
    <3> QED
      BY <1>5, <3>1, <3>2, <3>3
  <2>5. \A r \in Reader : pc'[r] = "failed" => pc[r] = "failed"
    BY <2>2
  <2>6. file = "drained" => "BUSY" \notin status /\ ring
    BY DEF StopInv
  <2> QED
    <3>1. queued' = running' /\ (active => running') /\ (running' => running)
      <4>1. CASE UNCHANGED <<queued, running>>
        BY <4>1 DEF StopInv
      <4>2. CASE queued' = FALSE /\ running' = FALSE /\ "BUSY" \notin status
        BY <2>4, <4>2
      <4> QED
        BY <2>3, <4>1, <4>2
    <3>2. file = "drained" => ~running'
      BY <1>0, <2>3, <2>6
    <3>3. /\ work' = "service" => work = "service"
          /\ file' = "drained" => file = "drained"
          /\ file' \in {"freeing", "closed"} => file \in {"freeing", "closed", "drained"}
          /\ file' = "starting" => file = "starting"
          /\ file' = "closed" <=> file = "closed"
      BY <2>2
    <3> QED
      BY <2>1, <2>4, <2>5, <3>1, <3>2, <3>3 DEF StopInv
<1>6. ASSUME NEW r \in Reader,
             \/ ReadBegin(r) \/ WaitSignal(r) \/ ReadLocks(r) \/ WaitEop(r) \/ Polling(r) \/ TestHead(r)
             \/ TakeResult(r) \/ TakeNothing(r) \/ CopyToUser(r) \/ ReadEnd(r)
      PROVE  StopInv'
  <2>1. UNCHANGED <<running, queued, ring, status, active, busy, work, file, opens, mishap>>
    BY <1>6 DEF ReadBegin, WaitSignal, ReadLocks, PollBegin, CompleteBegin, WaitEop, Polling, TestHead,
       TakeResult, TakeNothing, CopyToUser, ReadEnd
  <2>2. pc' = pc \/ \E w \in Where \ {"failed"} : pc' = [pc EXCEPT ![r] = w]
    BY <1>6 DEF ReadBegin, WaitSignal, Returns, ReadLocks, PollBegin, CompleteBegin, WaitEop, Polling,
       TestHead, TakeResult, TakeEnds, TakeNothing, CopyToUser, ReadEnd, Where
  <2>3. \A q \in Reader : pc'[q] = "failed" => pc[q] = "failed"
    BY <1>0, <2>2
  <2> QED
    BY <2>1, <2>3 DEF StopInv
<1>7. ASSUME OpenSetup
      PROVE  StopInv'
  <2>1. /\ file = "closed" /\ file' = "starting" /\ ring' = TRUE /\ opens' = opens + 1
        /\ UNCHANGED <<running, queued, status, active, busy, work, mishap, pc>>
    BY <1>7 DEF OpenSetup
  <2>2. ~running
    BY <1>0, <2>1 DEF StopInv, FreedInUse
  <2> QED
    BY <1>0, <2>1, <2>2 DEF StopInv
<1>8. ASSUME OpenStart
      PROVE  StopInv'
  <2>1. /\ file = "starting" /\ file' = "open" /\ ~locked
        /\ queued' = TRUE /\ running' = TRUE
        /\ ~running => active' = TRUE /\ busy' = TRUE
        /\ UNCHANGED <<ring, status, work, opens, mishap, pc>>
    BY <1>8 DEF OpenStart
  <2>2. ~running
    BY <2>1 DEF StopInv
  <2> QED
    BY <1>a, <2>1, <2>2 DEF StopInv
<1>9. ASSUME OpenFailsLocked \/ OpenUnwinds
      PROVE  StopInv'
  <2>1. /\ UNCHANGED <<running, queued, ring, status, active, busy, work, file, pc>>
        /\ opens' \in {opens, opens + 1}
        /\ "interrupted" \in mishap' <=> "interrupted" \in mishap
    BY <1>9 DEF OpenFailsLocked, OpenUnwinds
  <2> QED
    BY <1>0, <2>1 DEF StopInv
<1>10. ASSUME CloseStop \/ CloseLock \/ CloseWait \/ CloseSignal
      PROVE  StopInv'
  <2>1. /\ UNCHANGED <<running, queued, ring, status, active, busy, work, opens, pc>>
        /\ file \in {"open", "stopping"}
        /\ \/ file' \in {"stopping", "draining"} /\ mishap' = mishap
           \/ file' = "freeing" /\ ~running /\ mishap' = mishap
           \/ file' = "freeing" /\ "interrupted" \in mishap'
    BY <1>10 DEF CloseStop, CloseLock, CloseWait, CloseSignal
  <2> QED
    BY <2>1 DEF StopInv
<1>11. ASSUME CloseFree
      PROVE  StopInv'
  <2>1. /\ file = "freeing" /\ file' = "closed" /\ ring' = FALSE
        /\ UNCHANGED <<running, queued, status, active, busy, work, opens, mishap, pc>>
    BY <1>11 DEF CloseFree
  <2> QED
    BY <2>1 DEF StopInv
<1> QED
  BY <1>1, <1>2, <1>3, <1>4, <1>5, <1>6, <1>7, <1>8, <1>9, <1>10, <1>11
  DEF Next, ReadRuns, Open, CloseLocks, CloseRuns

-----------------------------------------------------------------------------
(* The hardware writes into the place behind the blocks that wait, and      *)
(* there is one.                                                            *)
LEMMA BlockIsAppended ==
  ASSUME RingInv, ~FreedInUse, HwBlock, mishap' \cap {"lapped", "leaked"} = {}
  PROVE  /\ ring /\ active /\ mishap \cap {"lapped", "leaked"} = {}
         /\ written - taken \in 0..(RingSize - 1)
         /\ next_block = After(rx_head, written - taken)
         /\ result[next_block] = Clear
         /\ UNCHANGED rx_head /\ written' = written + 1 /\ next_block' = After(next_block, 1)
<1> USE RingConstants DEF RingInv, RingConstants
<1>0. /\ result \in [Slot -> AnyResult] /\ rx_head \in Slot
      /\ taken \in Nat /\ written \in Nat
  BY DEF RingTypes
<1>a. After(rx_head, 0) = rx_head /\ After(rx_head, RingSize) = rx_head
  BY <1>0, RoundTheRing
<1>1. /\ active /\ mishap \cap {"lapped", "leaked"} = {} /\ result[next_block] = Clear
      /\ UNCHANGED rx_head /\ written' = written + 1 /\ next_block' = After(next_block, 1)
  BY DEF HwBlock
<1>2. ring
  BY <1>1 DEF FreedInUse, ModeTypes
<1>3. written - taken \in 0..RingSize /\ next_block = After(rx_head, written - taken)
  BY <1>0, <1>1, <1>2 DEF FillInv
<1>4. written - taken # RingSize
  <2>1. SUFFICES ASSUME written - taken = RingSize PROVE FALSE
    OBVIOUS
  <2>2. result[After(rx_head, 0)].id = taken + 0 + 1
    BY <1>0, <1>1, <1>2, <2>1 DEF RingIsOrdered
  <2>3. result[rx_head].id = 0
    BY <1>a, <1>1, <1>3, <2>1 DEF Clear
  <2> QED
    BY <1>0, <1>a, <2>2, <2>3
<1> QED
  BY <1>1, <1>2, <1>3, <1>4

(* What a reader finds at the head is the oldest block that waits; the next *)
(* one is then at the head.                                                 *)
LEMMA HeadIsTaken ==
  ASSUME RingInv, NEW r \in Reader, TakeResult(r), mishap \cap {"lapped", "leaked"} = {}
  PROVE  /\ ring /\ file = "open"
         /\ written - taken \in 1..RingSize
         /\ result[rx_head].id = taken + 1
         /\ result' = [result EXCEPT ![rx_head] = Clear]
         /\ rx_head' = After(rx_head, 1) /\ taken' = taken + 1
         /\ UNCHANGED <<written, next_block, active, file, ring, mishap>>
         /\ \A k \in 0..(RingSize - 2) : result'[After(rx_head', k)] = result[After(rx_head, k + 1)]
         /\ result'[After(rx_head', RingSize - 1)] = Clear
<1> USE RingConstants DEF RingInv, RingConstants, engineVars, hwVars, openVars
<1>0. /\ result \in [Slot -> AnyResult] /\ rx_head \in Slot
      /\ taken \in Nat /\ written \in Nat
  BY DEF RingTypes
<1>a. /\ After(rx_head, 0) = rx_head /\ After(rx_head, RingSize) = rx_head
      /\ \A k \in 0..RingSize : After(rx_head, k) \in Slot
      /\ \A j, k \in 0..(RingSize - 1) : After(rx_head, j) = After(rx_head, k) => j = k
      /\ \A k \in 0..(RingSize - 1) : After(After(rx_head, 1), k) = After(rx_head, k + 1)
  <2>1. rx_head \in Slot
    BY <1>0
  <2> QED
    BY <2>1, RoundTheRing
<1>1. /\ pc[r] = "take" /\ result[rx_head] # Clear
      /\ result' = [result EXCEPT ![rx_head] = Clear]
      /\ rx_head' = After(rx_head, 1) /\ taken' = taken + 1
      /\ UNCHANGED <<written, next_block, active, file, ring, mishap>>
  BY DEF TakeResult
<1>2. file = "open" /\ ring
  BY <1>1 DEF LockInv, StopInv
<1>3. taken <= written /\ written <= taken + RingSize
  BY <1>2 DEF FillInv
<1>4. taken < written /\ result[rx_head].id = taken + 1
  BY <1>0, <1>a, <1>1, <1>2 DEF RingIsOrdered
<1>5. ASSUME NEW k \in 0..(RingSize - 2)
      PROVE  result'[After(rx_head', k)] = result[After(rx_head, k + 1)]
  <2>1. k + 1 \in 0..(RingSize - 1) /\ k + 1 # 0 /\ k \in 0..(RingSize - 1)
    OBVIOUS
  <2>2. After(rx_head', k) = After(rx_head, k + 1)
    BY <1>a, <1>1, <2>1
  <2>3. After(rx_head, k + 1) \in Slot /\ After(rx_head, k + 1) # rx_head
    BY <1>a, <2>1
  <2> QED
    BY <1>0, <1>1, <2>2, <2>3
<1>6. result'[After(rx_head', RingSize - 1)] = Clear
  BY <1>0, <1>a, <1>1
<1> QED
  BY <1>0, <1>1, <1>2, <1>3, <1>4, <1>5, <1>6

(* What the ring holds: the hardware appends a block where none waits, a    *)
(* reader takes the block at the head.                                      *)
LEMMA FillNext == ASSUME RingInv, Next PROVE FillInv' /\ RingIsOrdered'
<1> USE RingConstants DEF RingInv, RingConstants, ringVars, engineVars, hwVars, readVars, openVars
<1> DEFINE Good == mishap \cap {"lapped", "leaked"} = {}
           n == written - taken
<1>0. /\ result \in [Slot -> AnyResult] /\ rx_head \in Slot
      /\ taken \in Nat /\ written \in Nat /\ ~FreedInUse
  BY DEF RingTypes, Next
<1>a. /\ After(rx_head, 0) = rx_head /\ After(rx_head, RingSize) = rx_head
      /\ \A k \in 0..RingSize : After(rx_head, k) \in Slot
      /\ \A j, k \in 0..(RingSize - 1) : After(rx_head, j) = After(rx_head, k) => j = k
      /\ \A k \in 0..(RingSize - 1) : After(After(rx_head, k), 1) = After(rx_head, k + 1)
      /\ \A k \in 0..(RingSize - 1) : After(After(rx_head, 1), k) = After(rx_head, k + 1)
  <2>1. rx_head \in Slot
    BY <1>0
  <2> QED
    BY <2>1, RoundTheRing
<1>1. ASSUME HwBlock, Hardware
      PROVE  FillInv' /\ RingIsOrdered'
  <2> SUFFICES ASSUME Good'
               PROVE  /\ taken' <= written' /\ written' <= taken' + RingSize
                      /\ next_block' = After(rx_head', n')
                      /\ file' # "starting"
                      /\ RingIsOrdered'
    BY DEF FillInv, RingIsOrdered
  <2>1. /\ ring /\ active /\ Good
        /\ n \in 0..(RingSize - 1) /\ next_block = After(rx_head, n)
        /\ UNCHANGED <<rx_head, taken, file>>
        /\ written' = written + 1 /\ next_block' = After(next_block, 1)
    <3>1. UNCHANGED <<taken, file>>
      BY <1>1 DEF Hardware
    <3> QED
      BY <1>0, <1>1, <3>1, BlockIsAppended
  <2>2. PICK eop, bad :
          result' = [result EXCEPT ![next_block] =
                       [id |-> written + 1, first |-> in_packet = 0, eop |-> eop, bad |-> bad]]
    BY <1>1 DEF HwBlock
  <2>3. file # "starting"
    BY <2>1 DEF StopInv
  <2>4. next_block' = After(rx_head, n + 1) /\ n' = n + 1
    BY <1>0, <1>a, <2>1
  <2>5. RingIsOrdered'
    <3> SUFFICES ASSUME NEW k \in 0..(RingSize - 1)
                 PROVE  IF taken + k < written + 1 THEN result'[After(rx_head, k)].id = taken + k + 1
                        ELSE result'[After(rx_head, k)] = Clear
      BY <2>1 DEF RingIsOrdered
    <3>1. CASE k = n
      BY <1>0, <1>a, <2>1, <2>2, <3>1
    <3>2. CASE k # n
      <4>1. result'[After(rx_head, k)] = result[After(rx_head, k)]
        BY <1>0, <1>a, <2>1, <2>2, <3>2
      <4>2. IF taken + k < written THEN result[After(rx_head, k)].id = taken + k + 1
            ELSE result[After(rx_head, k)] = Clear
        BY <2>1 DEF RingIsOrdered
      <4>3. taken + k < written + 1 <=> taken + k < written
        BY <1>0, <3>2
      <4> QED
        BY <4>1, <4>2, <4>3
    <3> QED
      BY <3>1, <3>2
  <2> QED
    BY <1>0, <2>1, <2>3, <2>4, <2>5
<1>2. ASSUME NEW r \in Reader, TakeResult(r)
      PROVE  FillInv' /\ RingIsOrdered'
  <2> SUFFICES ASSUME Good
               PROVE  /\ taken' <= written' /\ written' <= taken' + RingSize
                      /\ active' => next_block' = After(rx_head', n')
                      /\ file' # "starting"
                      /\ RingIsOrdered'
    BY <1>2 DEF FillInv, RingIsOrdered, TakeResult
  <2>1. /\ ring /\ file = "open" /\ n \in 1..RingSize
        /\ rx_head' = After(rx_head, 1) /\ taken' = taken + 1
        /\ UNCHANGED <<written, next_block, active, file, ring>>
        /\ \A k \in 0..(RingSize - 2) : result'[After(rx_head', k)] = result[After(rx_head, k + 1)]
        /\ result'[After(rx_head', RingSize - 1)] = Clear
    BY <1>2, HeadIsTaken
  <2>2. n - 1 \in 0..(RingSize - 1) /\ n' = n - 1
    BY <1>0, <2>1
  <2>3. After(rx_head', n') = After(rx_head, n)
    BY <1>0, <1>a, <2>1, <2>2
  <2>4. active => next_block = After(rx_head, n)
    BY <2>1 DEF FillInv
  <2>5. RingIsOrdered'
    <3> SUFFICES ASSUME NEW k \in 0..(RingSize - 1)
                 PROVE  IF taken + 1 + k < written THEN result'[After(rx_head', k)].id = taken + 1 + k + 1
                        ELSE result'[After(rx_head', k)] = Clear
      BY <2>1 DEF RingIsOrdered
    <3>1. CASE k \in 0..(RingSize - 2)
      <4>1. IF taken + (k + 1) < written THEN result[After(rx_head, k + 1)].id = taken + (k + 1) + 1
            ELSE result[After(rx_head, k + 1)] = Clear
        BY <2>1, <3>1 DEF RingIsOrdered
      <4> QED
        BY <1>0, <2>1, <3>1, <4>1
    <3>2. CASE k = RingSize - 1
      BY <1>0, <2>1, <3>2
    <3> QED
      BY <3>1, <3>2
  <2> QED
    BY <1>0, <2>1, <2>2, <2>3, <2>4, <2>5
<1>3. ASSUME OpenSetup
      PROVE  FillInv' /\ RingIsOrdered'
  <2>1. /\ file = "closed" /\ rx_head' = 0 /\ taken' = written
        /\ result' = [s \in Slot |-> Clear]
        /\ UNCHANGED <<written, active>>
    BY <1>3 DEF OpenSetup, ResetRing
  <2>2. ~active
    BY <1>0, <2>1 DEF StopInv, FreedInUse
  <2>3. \A k \in 0..(RingSize - 1) : After(rx_head', k) \in Slot
    <3>1. 0 \in Slot
      BY DEF Slot
    <3> QED
      BY <2>1, <3>1, AfterValue
  <2> QED
    BY <1>0, <2>1, <2>2, <2>3 DEF FillInv, RingIsOrdered
<1>4. ASSUME OpenStart
      PROVE  FillInv' /\ RingIsOrdered'
  <2>1. /\ file = "starting" /\ file' = "open"
        /\ UNCHANGED <<result, rx_head, taken, written, ring, mishap>>
    BY <1>4 DEF OpenStart
  <2>2. next_block' = 0
    BY <1>4, <2>1 DEF OpenStart, StopInv
  <2>3. ring /\ Good => After(rx_head, 0) = 0 /\ taken = written
    BY <1>a, <2>1 DEF FillInv
  <2> QED
    BY <1>0, <2>1, <2>2, <2>3 DEF FillInv, RingIsOrdered
<1>5. ASSUME OpenFailsLocked \/ OpenUnwinds \/ CloseFree
      PROVE  FillInv' /\ RingIsOrdered'
  <2>1. ~ring' \/ ~Good'
    BY <1>5 DEF OpenFailsLocked, OpenUnwinds, CloseFree, StopInv
  <2> QED
    BY <2>1 DEF FillInv, RingIsOrdered
<1>6. ASSUME UNCHANGED <<result, rx_head, taken, written, ring, next_block>>,
             active' => active, file' = file \/ file' # "starting", mishap \subseteq mishap'
      PROVE  FillInv' /\ RingIsOrdered'
  BY <1>6 DEF FillInv, RingIsOrdered
<1>7. ASSUME Hardware, HwStop \/ HwError
      PROVE  FillInv' /\ RingIsOrdered'
  BY <1>6, <1>7 DEF Hardware, HwStop, HwError
<1>8. ASSUME NEW r \in Reader,
             \/ ReadBegin(r) \/ WaitSignal(r) \/ ReadLocks(r) \/ WaitEop(r) \/ Polling(r) \/ PollingError(r)
             \/ PollFailed(r) \/ TestHead(r) \/ TakeNothing(r) \/ CopyToUser(r) \/ ReadEnd(r)
      PROVE  FillInv' /\ RingIsOrdered'
  <2>1. UNCHANGED <<result, rx_head, taken, written, ring, next_block, active, file, mishap>>
    BY <1>8 DEF ReadBegin, WaitSignal, ReadLocks, PollBegin, CompleteBegin, WaitEop, Polling, RingProcess,
       PollingError, PollFailed, TestHead, TakeNothing, CopyToUser, ReadEnd
  <2> QED
    BY <1>6, <2>1
<1>9. ASSUME WorkBegin \/ WorkService
      PROVE  FillInv' /\ RingIsOrdered'
  <2>1. UNCHANGED <<result, rx_head, taken, written, ring, next_block, active, file, mishap>>
    BY <1>9 DEF WorkBegin, WorkService, RingProcess
  <2> QED
    BY <1>6, <2>1
<1>10. ASSUME CloseStop \/ CloseSignal \/ CloseLock \/ CloseRuns
      PROVE  FillInv' /\ RingIsOrdered'
  <2>1. /\ UNCHANGED <<result, rx_head, taken, written, ring, next_block, active>>
        /\ file' # "starting" /\ mishap \subseteq mishap'
    BY <1>10 DEF CloseStop, CloseSignal, CloseLock, CloseRuns, CloseWait, CloseDrain, CloseDrained
  <2> QED
    BY <1>6, <2>1
<1> QED
  BY <1>1, <1>2, <1>3, <1>4, <1>5, <1>7, <1>8, <1>9, <1>10
  DEF Next, Hardware, ReadRuns, Open, CloseLocks

-----------------------------------------------------------------------------
(* A stream that was disturbed stays so.                                    *)
LEMMA CalmBefore == ASSUME RingInv, Next, Calm' PROVE Calm
<1> USE DEF ringVars, engineVars, hwVars, readVars, openVars
<1>1. UNCHANGED <<poll_mode, env>> /\ mishap \subseteq mishap'
  <2>1. CASE Hardware
    BY <2>1 DEF Hardware, HwBlock, HwStop, HwError
  <2>2. CASE WorkBegin \/ WorkService
    BY <2>2 DEF WorkBegin, WorkService
  <2>3. CASE \E r \in Reader : ReadBegin(r) \/ WaitSignal(r) \/ ReadLocks(r)
    BY <2>3 DEF ReadBegin, WaitSignal, ReadLocks, PollBegin, CompleteBegin
  <2>4. CASE \E r \in Reader : ReadRuns(r)
    BY <2>4 DEF ReadRuns, WaitEop, Polling, PollingError, PollFailed, TestHead, TakeResult,
       TakeNothing, CopyToUser, ReadEnd
  <2>5. CASE Open
    BY <2>5 DEF Open, OpenSetup, OpenStart, OpenFailsLocked, OpenUnwinds
  <2>6. CASE CloseStop \/ CloseSignal \/ CloseLocks \/ CloseRuns
    BY <2>6 DEF CloseStop, CloseSignal, CloseLocks, CloseLock, CloseFree, CloseRuns, CloseWait,
       CloseDrain, CloseDrained
  <2> QED
    BY <2>1, <2>2, <2>3, <2>4, <2>5, <2>6 DEF Next
<1>2. opens' = opens \/ opens' = opens + 1
  <2>1. CASE Open
    BY <2>1 DEF Open, OpenSetup, OpenStart, OpenFailsLocked, OpenUnwinds
  <2>2. CASE Hardware \/ WorkBegin \/ WorkService
    BY <2>2 DEF Hardware, WorkBegin, WorkService
  <2>3. CASE \E r \in Reader : ReadBegin(r) \/ WaitSignal(r) \/ ReadLocks(r)
    BY <2>3 DEF ReadBegin, WaitSignal, ReadLocks, PollBegin, CompleteBegin
  <2>4. CASE \E r \in Reader : ReadRuns(r)
    BY <2>4 DEF ReadRuns, WaitEop, Polling, PollingError, PollFailed, TestHead, TakeResult,
       TakeNothing, CopyToUser, ReadEnd
  <2>5. CASE CloseStop \/ CloseSignal \/ CloseLocks \/ CloseRuns
    BY <2>5 DEF CloseStop, CloseSignal, CloseLocks, CloseLock, CloseFree, CloseRuns, CloseWait,
       CloseDrain, CloseDrained
  <2> QED
    BY <2>1, <2>2, <2>3, <2>4, <2>5 DEF Next
<1>3. opens \in Nat
  BY DEF RingInv, RingTypes
<1> QED
  BY <1>1, <1>2, <1>3 DEF Calm

(* A poll that ends with a packet has seen its EOP in the ring.             *)
LEMMA EopIsThere ==
  ASSUME RingTypes, EopCount > 0
  PROVE  \E s \in Slot : result[s].eop
<1> DEFINE S == {i \in 0..(Followed - 1) : result[After(rx_tail, i)].eop}
<1>1. S # {}
  BY FS_EmptySet DEF EopCount
<1>2. PICK i \in 0..(Followed - 1) : result[After(rx_tail, i)].eop
  BY <1>1
<1>3. i \in 0..RingSize /\ rx_tail \in Slot
  BY FollowedInRing, RingConstants DEF RingTypes, RingConstants
<1> QED
  BY <1>2, <1>3, AfterValue

(* The reader whose packet has an EOP in the ring finds a block at the      *)
(* head.                                                                    *)
LEMMA HeadIsWaiting ==
  ASSUME RingInv, Calm, NEW r \in Reader, pc[r] \in {"test", "complete", "take"}
  PROVE  r = Owner /\ ring /\ taken < written /\ result[rx_head] # Clear
<1> USE RingConstants DEF RingInv, RingConstants
<1>0. /\ result \in [Slot -> AnyResult] /\ rx_head \in Slot /\ taken \in Nat /\ written \in Nat
  BY DEF RingTypes
<1>1. After(rx_head, 0) = rx_head /\ \A s \in Slot : \E k \in 0..(RingSize - 1) : s = After(rx_head, k)
  BY <1>0, RoundTheRing
<1>2. r = Owner
  BY DEF Calm, ReadInv
<1>3. file = "open" /\ ring
  BY DEF LockInv, StopInv
<1>4. PICK s \in Slot : result[s].eop
  BY <1>2, <1>3 DEF PacketInv, PacketsWait
<1>5. PICK k \in 0..(RingSize - 1) : s = After(rx_head, k)
  BY <1>1
<1>6. \A j \in 0..(RingSize - 1) :
        IF taken + j < written THEN result[After(rx_head, j)].id = taken + j + 1
        ELSE result[After(rx_head, j)] = Clear
  BY <1>3 DEF RingIsOrdered, Calm
<1>7. result[s] # Clear
  BY <1>4 DEF Clear
<1>8. taken + k < written
  BY <1>5, <1>6, <1>7
<1>9. taken < written
  BY <1>0, <1>8
<1>10. result[rx_head].id = taken + 1
  BY <1>0, <1>1, <1>6, <1>9
<1> QED
  BY <1>0, <1>2, <1>3, <1>9, <1>10 DEF Clear

(* The packets that wait in the ring.                                       *)
LEMMA PacketNext == ASSUME RingInv, Next PROVE PacketInv'
<1> USE RingConstants DEF RingInv, RingConstants, ringVars, engineVars, hwVars, readVars, openVars
<1> SUFFICES ASSUME Calm' PROVE PacketInv'
  BY DEF PacketInv
<1> DEFINE Good == mishap \cap {"lapped", "leaked"} = {}
           n == written - taken
           W(k) == result[After(rx_head, k)]
           X(k) == result'[After(rx_head', k)]
           Sees == \E q \in Reader : pc[q] \in {"test", "complete", "take"}
<1>c. Calm /\ Good /\ Good'
  BY CalmBefore DEF Calm
<1>0. /\ result \in [Slot -> AnyResult] /\ rx_head \in Slot /\ opens \in Nat
      /\ taken \in Nat /\ written \in Nat /\ in_packet \in Nat /\ ~FreedInUse
      /\ pc \in [Reader -> Where] /\ got \in [Reader -> Seq(AnyResult)]
  BY DEF RingTypes, ReaderTypes, Next
<1>a. /\ After(rx_head, 0) = rx_head
      /\ \A k \in 0..RingSize : After(rx_head, k) \in Slot
      /\ \A j, k \in 0..(RingSize - 1) : After(rx_head, j) = After(rx_head, k) => j = k
  <2>1. rx_head \in Slot
    BY <1>0
  <2> QED
    BY <2>1, RoundTheRing
<1>o. \A r \in Reader : pc[r] # "idle" => r = Owner
  BY <1>c DEF Calm, ReadInv
<1>p. ring => PacketsWait
  BY <1>c DEF PacketInv
(* Steps that change neither the blocks nor the packet being taken.         *)
<1>f. ASSUME UNCHANGED <<result, rx_head, taken, written, in_packet>>,
             opens \in Nat, opens' = 0 => opens = 0, ring' => ring,
             InPacket' <=> InPacket,
             Sees' => Sees \/ \E s \in Slot : result[s].eop
      PROVE  PacketInv'
  BY <1>c, <1>p, <1>f DEF PacketInv, PacketsWait, Waiting
<1>1. ASSUME HwBlock, Hardware
      PROVE  PacketInv'
  <2>1. /\ ring /\ active /\ n \in 0..(RingSize - 1) /\ next_block = After(rx_head, n)
        /\ result[next_block] = Clear /\ UNCHANGED rx_head /\ written' = written + 1
    BY <1>0, <1>1, <1>c, BlockIsAppended
  <2>2. UNCHANGED <<taken, opens, pc, got, ring>>
    BY <1>1 DEF Hardware
  <2>3. PICK eop \in BOOLEAN, bad \in BOOLEAN :
          /\ result' = [result EXCEPT ![next_block] =
                          [id |-> written + 1, first |-> in_packet = 0, eop |-> eop, bad |-> bad]]
          /\ in_packet' = IF eop THEN 0 ELSE in_packet + 1
    BY <1>1 DEF HwBlock
  <2>4. next_block \in Slot
    BY <1>a, <2>1
  <2>5. ~bad
    <3>1. result'[next_block].bad = bad
      BY <1>0, <2>3, <2>4
    <3>2. result'[next_block].bad => "bad" \in mishap'
      BY <1>1 DEF HwBlock
    <3> QED
      BY <3>1, <3>2 DEF Calm
  <2>6. X(n) = [id |-> written + 1, first |-> in_packet = 0, eop |-> eop, bad |-> bad]
    BY <1>0, <2>1, <2>3, <2>4
  <2>f. X(n).first <=> in_packet = 0
    <3>1. X(n).first = (in_packet = 0)
      BY <2>6
    <3>2. CASE in_packet = 0
      <4>1. (in_packet = 0) = TRUE
        BY <3>2, Zenon
      <4> QED
        BY <3>1, <3>2, <4>1
    <3>3. CASE in_packet # 0
      <4>1. (in_packet = 0) = FALSE
        BY <3>3, Zenon
      <4> QED
        BY <3>1, <3>3, <4>1
    <3> QED
      BY <3>2, <3>3
  <2>7. \A k \in 0..(RingSize - 1) : k # n => X(k) = W(k)
    BY <1>0, <1>a, <2>1, <2>3, <2>4
  <2>8. PacketsWait
    BY <1>p, <2>1
  <2>9. n' = n + 1 /\ \A k \in 0..(RingSize - 1) : taken + k < written + 1 /\ k # n => taken + k < written
    BY <1>0, <2>1, <2>2
  <2>10. InPacket' <=> InPacket
    BY <2>2 DEF InPacket
  <2>11. opens > 0
    BY <2>1 DEF StopInv
  <2>12. \A k \in 0..(RingSize - 1) : taken' + k < written' => ~X(k).bad
    <3>1. ~X(n).bad
      BY <2>5, <2>6
    <3>2. \A k \in 0..(RingSize - 1) : taken + k < written => ~W(k).bad
      BY <2>8 DEF PacketsWait, Waiting
    <3> QED
      BY <2>1, <2>2, <2>7, <2>9, <3>1, <3>2
  <2>13. ASSUME NEW k \in 1..(RingSize - 1), taken' + k < written'
         PROVE  X(k).first <=> X(k - 1).eop
    <3>1. k - 1 \in 0..(RingSize - 1) /\ k - 1 # n /\ k \in 0..(RingSize - 1)
      BY <1>0, <2>1, <2>2, <2>13
    <3>2. X(k - 1) = W(k - 1)
      BY <2>7, <3>1
    <3>3. CASE k = n
      <4>1. taken < written /\ written - taken - 1 = k - 1
        BY <1>0, <2>1, <3>3
      <4>2. in_packet = 0 <=> W(k - 1).eop
        BY <2>8, <4>1 DEF PacketsWait, Waiting
      <4>3. X(k).first <=> in_packet = 0
        BY <2>f, <3>3
      <4> QED
        BY <3>2, <4>2, <4>3
    <3>4. CASE k # n
      BY <1>0, <2>1, <2>2, <2>7, <2>8, <2>9, <2>13, <3>1, <3>2, <3>4 DEF PacketsWait, Waiting
    <3> QED
      BY <3>3, <3>4
  <2>14. in_packet' = 0 <=> X(written' - taken' - 1).eop
    <3>1. written' - taken' - 1 = n
      BY <1>0, <2>1, <2>2
    <3> QED
      BY <1>0, <2>3, <2>6, <3>1
  <2>15. ~InPacket' => X(0).first
    <3>1. CASE n = 0
      <4>1. taken = written /\ (~InPacket => in_packet = 0)
        BY <1>0, <2>1, <2>8, <3>1 DEF PacketsWait
      <4>2. X(0) = X(n)
        BY <3>1
      <4> QED
        BY <2>f, <2>10, <4>1, <4>2
    <3>2. CASE n # 0
      BY <1>0, <2>1, <2>7, <2>8, <2>10, <3>2 DEF PacketsWait, Waiting
    <3> QED
      BY <3>1, <3>2
  <2>16. Sees' => \E s \in Slot : result'[s].eop
    <3>1. SUFFICES ASSUME Sees PROVE \E s \in Slot : result'[s].eop
      BY <2>2
    <3>2. PICK s \in Slot : result[s].eop
      BY <2>8, <3>1 DEF PacketsWait, Waiting
    <3>3. s # next_block
      BY <2>1, <3>2 DEF Clear
    <3> QED
      BY <1>0, <2>3, <3>2, <3>3
  <2>17. ~(taken' = written')
    BY <1>0, <2>1, <2>2
  <2> QED
    BY <1>0, <2>2, <2>11, <2>12, <2>13, <2>14, <2>15, <2>16, <2>17 DEF PacketInv, PacketsWait, Waiting
<1>2. ASSUME NEW r \in Reader, TakeResult(r)
      PROVE  PacketInv'
  <2>1. /\ ring /\ n \in 1..RingSize
        /\ result' = [result EXCEPT ![rx_head] = Clear]
        /\ taken' = taken + 1 /\ UNCHANGED <<written, ring>>
        /\ \A k \in 0..(RingSize - 2) : X(k) = W(k + 1)
    BY <1>2, <1>c, HeadIsTaken
  <2>2. r = Owner /\ pc[r] = "take" /\ UNCHANGED <<in_packet, opens>>
    BY <1>2, <1>o DEF TakeResult
  <2>3. PacketsWait /\ W(0) = result[rx_head] /\ taken < written
    BY <1>0, <1>a, <1>p, <2>1
  <2>4. ~W(0).bad
    BY <1>0, <2>1, <2>3 DEF PacketsWait, Waiting
  <2>5. W(0).eop => ~InPacket' /\ ~Sees'
    <3>1. W(0).eop => pc'[r] = "copy"
      BY <1>0, <1>2, <2>3, <2>4 DEF TakeResult, TakeEnds
    <3>2. \A q \in Reader : q # r => pc'[q] = "idle"
      BY <1>0, <1>2, <1>o, <2>2 DEF TakeResult, TakeEnds
    <3> QED
      BY <3>1, <3>2 DEF InPacket
  <2>6. ~W(0).eop => InPacket'
    <3>1. SUFFICES ASSUME ~W(0).eop PROVE pc'[r] = "take" /\ got'[r] # << >>
      BY DEF InPacket
    <3>2. pc'[r] = "take"
      BY <1>0, <1>2, <2>2, <2>3, <2>4, <3>1 DEF TakeResult, TakeEnds
    <3>3. result[rx_head] \in AnyResult /\ got[r] \in Seq(AnyResult)
      BY <1>0
    <3>4. got'[r] = Append(got[r], result[rx_head])
      BY <1>0, <1>2, <2>2 DEF TakeResult
    <3> QED
      BY <3>2, <3>3, <3>4
  <2>7. \A k \in 0..(RingSize - 1) : taken' + k < written' =>
          k \in 0..(RingSize - 2) /\ k + 1 \in 0..(RingSize - 1) /\ taken + (k + 1) < written
    BY <1>0, <2>1
  <2>8. \A k \in 0..(RingSize - 1) : taken' + k < written' => ~X(k).bad
    BY <2>1, <2>3, <2>7 DEF PacketsWait, Waiting
  <2>9. ASSUME NEW k \in 1..(RingSize - 1), taken' + k < written'
        PROVE  X(k).first <=> X(k - 1).eop
    <3>1. X(k) = W(k + 1) /\ k + 1 \in 1..(RingSize - 1) /\ taken + (k + 1) < written
      BY <2>1, <2>7, <2>9
    <3>2. X(k - 1) = W(k)
      BY <2>1, <3>1
    <3>3. W(k + 1).first <=> W((k + 1) - 1).eop
      BY <2>3, <3>1 DEF PacketsWait, Waiting
    <3>4. (k + 1) - 1 = k
      OBVIOUS
    <3> QED
      BY <3>1, <3>2, <3>3, <3>4
  <2>10. taken' < written' => (in_packet' = 0 <=> X(written' - taken' - 1).eop)
    <3>1. SUFFICES ASSUME taken' < written' PROVE in_packet = 0 <=> X(written' - taken' - 1).eop
      BY <2>2
    <3>2. written' - taken' - 1 \in 0..(RingSize - 2) /\ (written' - taken' - 1) + 1 = written - taken - 1
      BY <1>0, <2>1, <3>1
    <3>3. X(written' - taken' - 1) = W(written - taken - 1)
      BY <2>1, <3>2
    <3> QED
      BY <2>3, <3>3 DEF PacketsWait, Waiting
  <2>11. taken' < written' /\ ~InPacket' => X(0).first
    <3>1. SUFFICES ASSUME taken' < written', W(0).eop PROVE X(0).first
      BY <2>6
    <3>2. 1 \in 1..(RingSize - 1) /\ taken + 1 < written /\ X(0) = W(1)
      BY <1>0, <2>1, <3>1
    <3>3. W(1).first <=> W(1 - 1).eop
      BY <2>3, <3>2 DEF PacketsWait, Waiting
    <3> QED
      BY <3>1, <3>2, <3>3
  <2>12. taken' = written' /\ ~InPacket' => in_packet' = 0
    <3>1. SUFFICES ASSUME taken' = written', W(0).eop PROVE in_packet = 0
      BY <2>2, <2>6
    <3>2. written - taken - 1 = 0
      BY <1>0, <2>1, <3>1
    <3> QED
      BY <2>3, <3>1, <3>2 DEF PacketsWait, Waiting
  <2>13. Sees' => \E s \in Slot : result'[s].eop
    <3>1. SUFFICES ASSUME ~W(0).eop PROVE \E s \in Slot : result'[s].eop
      BY <2>5
    <3>2. PICK s \in Slot : result[s].eop
      BY <2>2, <2>3 DEF PacketsWait
    <3>3. s # rx_head
      BY <2>3, <3>1, <3>2
    <3> QED
      BY <1>0, <2>1, <3>2, <3>3
  <2>14. opens' = 0 => in_packet' = 0
    BY <1>c, <2>2 DEF PacketInv
  <2> QED
    BY <2>8, <2>9, <2>10, <2>11, <2>12, <2>13, <2>14 DEF PacketInv, PacketsWait, Waiting
<1>3. ASSUME OpenSetup
      PROVE  PacketInv'
  <2>1. /\ file = "closed" /\ taken' = written /\ opens' = opens + 1
        /\ UNCHANGED <<written, in_packet, pc>>
    BY <1>3 DEF OpenSetup
  <2>2. opens = 0
    BY <1>0, <2>1 DEF Calm
  <2>3. in_packet = 0
    BY <1>c, <2>2 DEF PacketInv
  <2>4. ~Sees'
    BY <2>1 DEF LockInv
  <2> QED
    BY <1>0, <2>1, <2>3, <2>4 DEF PacketInv, PacketsWait
<1>4. ASSUME UNCHANGED <<result, rx_head, taken, written, in_packet, pc, got>>,
             opens' = opens \/ opens' > 0, ring' => ring
      PROVE  PacketInv'
  <2>1. UNCHANGED InPacket /\ UNCHANGED Sees
    BY <1>4 DEF InPacket
  <2>2. opens' = 0 => opens = 0
    BY <1>4
  <2>3. Sees' => Sees \/ \E s \in Slot : result[s].eop
    BY <2>1
  <2> QED
    BY <1>0, <1>4, <1>f, <2>1, <2>2, <2>3
<1>5. ASSUME Hardware, HwStop \/ HwError
      PROVE  PacketInv'
  BY <1>4, <1>5 DEF Hardware, HwStop, HwError
<1>6. ASSUME WorkBegin \/ WorkService
      PROVE  PacketInv'
  <2>1. UNCHANGED <<result, rx_head, taken, written, in_packet, pc, got, opens, ring>>
    BY <1>6 DEF WorkBegin, WorkService, RingProcess
  <2> QED
    BY <1>4, <2>1
<1>7. ASSUME OpenStart \/ OpenUnwinds
      PROVE  PacketInv'
  <2>1. UNCHANGED <<taken, written, in_packet, pc, got, result, ring>>
    BY <1>7 DEF OpenStart, OpenUnwinds
  <2>2. CASE OpenStart
    <3>1. UNCHANGED <<rx_head, opens>>
      BY <2>2 DEF OpenStart
    <3> QED
      BY <1>4, <2>1, <3>1
  <2>3. CASE OpenUnwinds
    <3>1. file = "closed" /\ opens' = opens + 1
      BY <2>3 DEF OpenUnwinds
    <3>2. ~ring' /\ opens' # 0
      BY <1>0, <2>1, <3>1 DEF StopInv
    <3> QED
      BY <3>2 DEF PacketInv
  <2> QED
    BY <1>7, <2>2, <2>3
<1>8. ASSUME CloseStop \/ CloseSignal \/ CloseLocks \/ CloseRuns
      PROVE  PacketInv'
  <2>1. UNCHANGED <<result, rx_head, taken, written, in_packet, pc, got, opens>>
    BY <1>8 DEF CloseStop, CloseSignal, CloseLocks, CloseLock, CloseFree, CloseRuns, CloseWait,
       CloseDrain, CloseDrained
  <2>2. ring' => ring
    BY <1>8 DEF CloseStop, CloseSignal, CloseLocks, CloseLock, CloseFree, CloseRuns, CloseWait,
       CloseDrain, CloseDrained
  <2> QED
    BY <1>4, <2>1, <2>2
<1>9. ~OpenFailsLocked
  BY DEF OpenFailsLocked, Calm
(* Steps of the reader that leave the blocks alone.                         *)
<1>10. ASSUME NEW r \in Reader, NEW w, pc' = [pc EXCEPT ![r] = w],
              UNCHANGED <<result, rx_head, taken, written, in_packet, opens, ring>>,
              \A q \in Reader : q # r => got'[q] = got[q],
              pc[r] # "take", w = "take" => got'[r] = << >>,
              w \in {"test", "complete", "take"} => Sees \/ \E s \in Slot : result[s].eop
       PROVE  PacketInv'
  <2>1. InPacket' <=> InPacket
    BY <1>0, <1>10 DEF InPacket
  <2>2. Sees' => Sees \/ \E s \in Slot : result[s].eop
    BY <1>0, <1>10
  <2> QED
    BY <1>0, <1>10, <1>f, <2>1, <2>2
<1>11. ASSUME NEW r \in Reader, ReadBegin(r) \/ ReadLocks(r)
       PROVE  PacketInv'
  <2>1. UNCHANGED <<result, rx_head, taken, written, in_packet, opens, ring>>
    BY <1>11 DEF ReadBegin, ReadLocks, PollBegin, CompleteBegin
  <2>2. CASE ReadBegin(r)
    <3>1. /\ pc[r] = "idle" /\ pc' = [pc EXCEPT ![r] = "poll"]
          /\ \A q \in Reader : q # r => got'[q] = got[q]
      BY <1>0, <1>c, <2>2 DEF ReadBegin, Calm
    <3> QED
      BY <1>10, <2>1, <3>1
  <2>3. CASE PollBegin(r)
    <3>1. pc[r] = "poll" /\ pc' = [pc EXCEPT ![r] = "polling"] /\ got' = got
      BY <2>3 DEF PollBegin
    <3> QED
      BY <1>10, <2>1, <3>1
  <2>4. CASE CompleteBegin(r)
    <3>1. pc[r] = "complete" /\ pc' = [pc EXCEPT ![r] = "take"] /\ got' = got
      BY <2>4 DEF CompleteBegin
    <3>2. got[r] = << >> /\ Sees
      BY <1>c, <3>1 DEF ReadInv
    <3> QED
      BY <1>10, <2>1, <3>1, <3>2
  <2> QED
    BY <1>11, <2>2, <2>3, <2>4 DEF ReadLocks
<1>12. ASSUME NEW r \in Reader, Polling(r)
       PROVE  PacketInv'
  <2>1. UNCHANGED <<result, rx_head, taken, written, in_packet, opens, ring, got>> /\ pc[r] = "polling"
    BY <1>12 DEF Polling, RingProcess
  <2>2. CASE EopCount > 0
    <3>1. pc' = [pc EXCEPT ![r] = "test"]
      BY <1>12, <2>2 DEF Polling
    <3>2. \E s \in Slot : result[s].eop
      BY <2>2, EopIsThere
    <3> QED
      BY <1>10, <2>1, <3>1, <3>2
  <2>3. CASE ~(EopCount > 0)
    <3>1. pc' = pc
      BY <1>12, <2>3 DEF Polling
    <3> QED
      BY <1>4, <2>1, <3>1
  <2> QED
    BY <2>2, <2>3
<1>13. ASSUME NEW r \in Reader,
              PollingError(r) \/ PollFailed(r) \/ TestHead(r) \/ CopyToUser(r) \/ ReadEnd(r)
       PROVE  PacketInv'
  <2>1. UNCHANGED <<result, rx_head, taken, written, in_packet, opens, ring, got>> /\ pc[r] # "take"
    BY <1>13 DEF PollingError, PollFailed, TestHead, CopyToUser, ReadEnd
  <2>2. PICK w \in {"failed", "idle", "complete", "poll", "wait", "overrun"} :
          pc' = [pc EXCEPT ![r] = w] /\ (w = "complete" => pc[r] = "test")
    BY <1>13 DEF PollingError, PollFailed, Returns, TestHead, CopyToUser, ReadEnd
  <2> QED
    BY <1>10, <2>1, <2>2
<1>14. ASSUME NEW r \in Reader PROVE ~WaitSignal(r) /\ ~WaitEop(r) /\ ~TakeNothing(r)
  <2>1. pc[r] # "wait"
    BY <1>c DEF ReadInv
  <2>2. pc[r] = "take" => result[rx_head] # Clear
    BY <1>c, HeadIsWaiting
  <2> QED
    BY <2>1, <2>2 DEF WaitSignal, WaitEop, TakeNothing
<1> QED
  BY <1>1, <1>2, <1>3, <1>5, <1>6, <1>7, <1>8, <1>9, <1>11, <1>12, <1>13, <1>14
  DEF Next, Hardware, ReadRuns, Open

(* A packet grows by the block that follows its last one.                   *)
LEMMA AppendInOrder ==
  ASSUME NEW q \in Seq(AnyResult), NEW x \in AnyResult,
         q = << >> => x.first,
         q # << >> => InOrder(q) /\ x.id = q[Len(q)].id + 1
  PROVE  LET p == Append(q, x) IN p # << >> /\ InOrder(p) /\ p[Len(p)] = x
<1> DEFINE p == Append(q, x)
<1>1. /\ Len(p) = Len(q) + 1 /\ Len(q) \in Nat /\ p[Len(q) + 1] = x
      /\ \A i \in 1..Len(q) : p[i] = q[i]
  OBVIOUS
<1>2. p # << >>
  BY <1>1
<1>3. p[1].first
  <2>1. CASE q = << >>
    BY <1>1, <2>1
  <2>2. CASE q # << >>
    <3>1. 1 \in 1..Len(q)
      BY <1>1, <2>2
    <3> QED
      BY <1>1, <2>2, <3>1 DEF InOrder
  <2> QED
    BY <2>1, <2>2
<1>4. ASSUME NEW i \in 2..Len(p) PROVE p[i].id = p[i - 1].id + 1
  <2>1. i - 1 \in 1..Len(q) /\ q # << >>
    BY <1>1
  <2>2. p[i - 1] = q[i - 1]
    BY <1>1, <2>1
  <2>3. CASE i = Len(q) + 1
    BY <1>1, <2>1, <2>2, <2>3
  <2>4. CASE i # Len(q) + 1
    <3>1. i \in 2..Len(q) /\ i \in 1..Len(q)
      BY <1>1, <2>4
    <3> QED
      BY <1>1, <2>1, <2>2, <3>1 DEF InOrder
  <2> QED
    BY <2>3, <2>4
<1> QED
  BY <1>1, <1>2, <1>3, <1>4 DEF InOrder

(* What a reader that does not share the file took.                         *)
LEMMA ReadNext == ASSUME RingInv, Next PROVE ReadInv'
<1> USE RingConstants DEF RingInv, RingConstants, ringVars, engineVars, hwVars, readVars, openVars
<1> DEFINE Alone == \A r \in Reader \ {Owner} : pc[r] = "idle"
           Took(r) ==
             /\ pc[r] \notin {"idle", "overrun"} => outcome[r] = "none"
             /\ pc[r] \in {"poll", "polling", "failed", "test", "complete"} => got[r] = << >>
             /\ pc[r] # "wait" /\ outcome[r] # "empty"
             /\ pc[r] = "copy" \/ outcome[r] = "packet" => got[r] # << >> /\ InOrder(got[r])
             /\ pc[r] = "take" /\ got[r] # << >> =>
                  InOrder(got[r]) /\ got[r][Len(got[r])].id = taken
<1>0. /\ pc \in [Reader -> Where] /\ got \in [Reader -> Seq(AnyResult)]
      /\ outcome \in [Reader -> Outcome] /\ taken \in Nat
      /\ result \in [Slot -> AnyResult] /\ rx_head \in Slot
  BY DEF RingTypes, ReaderTypes
<1>i. /\ "share" \notin env => Alone
      /\ Calm => \A r \in Reader : Took(r)
  BY DEF ReadInv
<1>c. Calm' => Calm
  BY CalmBefore
<1>1. ASSUME UNCHANGED <<pc, got, outcome, env>>,
             taken' = taken \/ \A r \in Reader : pc[r] = "idle"
      PROVE  ReadInv'
  <2>1. Alone' <=> Alone
    BY <1>1
  <2>2. Calm => \A r \in Reader : Took(r)'
    BY <1>1, <1>i
  <2> QED
    BY <1>1, <1>c, <1>i, <2>1, <2>2 DEF ReadInv
<1>2. ASSUME NEW r \in Reader, UNCHANGED env,
             pc[r] # "idle" \/ "share" \in env \/ r = Owner,
             \A q \in Reader \ {r} : pc'[q] = pc[q] /\ got'[q] = got[q] /\ outcome'[q] = outcome[q],
             taken' = taken \/ pc[r] # "idle",
             Calm => Took(r)'
      PROVE  ReadInv'
  <2>1. "share" \notin env => r = Owner /\ Alone'
    BY <1>2, <1>i
  <2>2. ASSUME Calm, NEW q \in Reader \ {r} PROVE Took(q)'
    <3>1. pc[q] = "idle" /\ Took(q)
      BY <1>i, <2>1, <2>2 DEF Calm
    <3> QED
      BY <1>2, <2>2, <3>1
  <2> QED
    BY <1>2, <1>c, <2>1, <2>2 DEF ReadInv
<1>3. ASSUME \/ Hardware \/ WorkBegin \/ WorkService \/ OpenStart \/ OpenFailsLocked \/ OpenUnwinds
             \/ CloseStop \/ CloseSignal \/ CloseLocks \/ CloseRuns
      PROVE  ReadInv'
  <2>1. UNCHANGED <<pc, got, outcome, env, taken>>
    BY <1>3 DEF Hardware, WorkBegin, WorkService, OpenStart, OpenFailsLocked, OpenUnwinds, CloseStop,
       CloseSignal, CloseLocks, CloseLock, CloseFree, CloseRuns, CloseWait, CloseDrain, CloseDrained
  <2> QED
    BY <1>1, <2>1
<1>4. ASSUME OpenSetup
      PROVE  ReadInv'
  <2>1. UNCHANGED <<pc, got, outcome, env>> /\ file = "closed"
    BY <1>4 DEF OpenSetup
  <2>2. \A r \in Reader : pc[r] = "idle"
    BY <2>1 DEF LockInv
  <2> QED
    BY <1>1, <2>1, <2>2
<1>5. ASSUME NEW r \in Reader, ReadBegin(r)
      PROVE  ReadInv'
  <2>1. /\ r = Owner \/ "share" \in env
        /\ pc' = [pc EXCEPT ![r] = IF poll_mode THEN "poll" ELSE "wait"]
        /\ outcome' = [outcome EXCEPT ![r] = "none"]
        /\ got' = [got EXCEPT ![r] = << >>]
        /\ UNCHANGED <<env, taken>>
    BY <1>5 DEF ReadBegin
  <2>2. Calm => Took(r)'
    <3>1. Calm => pc'[r] = "poll"
      BY <1>0, <2>1 DEF Calm
    <3> QED
      BY <1>0, <2>1, <3>1
  <2> QED
    BY <1>0, <1>2, <2>1, <2>2
<1>6. ASSUME NEW r \in Reader, TakeResult(r)
      PROVE  ReadInv'
  <2>1. /\ pc[r] = "take" /\ UNCHANGED env
        /\ got' = [got EXCEPT ![r] = Append(@, result[rx_head])]
        /\ taken' = taken + 1
        /\ TakeEnds(r, result[rx_head])
    BY <1>6 DEF TakeResult
  <2>2. ASSUME Calm PROVE Took(r)'
    <3>1. /\ ring /\ taken < written /\ written \in Nat
          /\ result[rx_head].id = taken + 1
      BY <1>6, <2>1, <2>2, HeadIsWaiting, HeadIsTaken DEF Calm, RingTypes
    <3>2. Waiting(0) = result[rx_head] /\ 0 \in 0..(RingSize - 1) /\ taken + 0 < written
      BY <1>0, <3>1, RoundTheRing DEF Waiting
    <3>3. PacketsWait
      BY <2>2, <3>1 DEF PacketInv
    <3>4. ~result[rx_head].bad
      BY <3>2, <3>3 DEF PacketsWait
    <3>5. got[r] = << >> => result[rx_head].first
      <4>1. SUFFICES ASSUME got[r] = << >> PROVE ~InPacket
        BY <3>1, <3>2, <3>3 DEF PacketsWait
      <4>2. \A q \in Reader : q # r => pc[q] = "idle"
        BY <1>i, <2>1, <2>2 DEF Calm
      <4> QED
        BY <4>1, <4>2 DEF InPacket
    <3>6. got[r] # << >> => InOrder(got[r]) /\ got[r][Len(got[r])].id = taken
      BY <1>i, <2>1, <2>2
    <3>7. /\ got'[r] # << >> /\ InOrder(got'[r])
          /\ got'[r][Len(got'[r])].id = taken'
      <4>1. got[r] \in Seq(AnyResult) /\ result[rx_head] \in AnyResult
        BY <1>0
      <4>2. got'[r] = Append(got[r], result[rx_head])
        BY <1>0, <2>1
      <4>3. LET p == Append(got[r], result[rx_head])
            IN p # << >> /\ InOrder(p) /\ p[Len(p)] = result[rx_head]
        BY <3>1, <3>5, <3>6, <4>1, AppendInOrder
      <4> QED
        BY <2>1, <3>1, <4>2, <4>3
    <3>8. pc'[r] \in {"take", "copy"} /\ outcome'[r] = "none"
      <4>1. outcome[r] = "none"
        BY <1>i, <2>1, <2>2
      <4> QED
        BY <1>0, <2>1, <3>4, <4>1 DEF TakeEnds
    <3> QED
      BY <3>7, <3>8
  <2>3. \A q \in Reader \ {r} : pc'[q] = pc[q] /\ got'[q] = got[q] /\ outcome'[q] = outcome[q]
    BY <1>0, <2>1 DEF TakeEnds
  <2> QED
    BY <1>2, <2>1, <2>2, <2>3
<1>7. ASSUME NEW r \in Reader,
             \/ WaitSignal(r) \/ ReadLocks(r) \/ WaitEop(r) \/ Polling(r) \/ PollingError(r)
             \/ PollFailed(r) \/ TestHead(r) \/ TakeNothing(r) \/ CopyToUser(r) \/ ReadEnd(r)
      PROVE  ReadInv'
  <2>1. pc[r] # "idle" /\ UNCHANGED <<env, got, taken>>
    BY <1>7 DEF WaitSignal, ReadLocks, PollBegin, CompleteBegin, WaitEop, Polling, PollingError,
       PollFailed, TestHead, TakeNothing, CopyToUser, ReadEnd
  <2>2. PICK w \in Where, o \in Outcome :
          pc' = [pc EXCEPT ![r] = w] /\ outcome' = [outcome EXCEPT ![r] = o]
    <3>1. CASE WaitSignal(r) \/ PollFailed(r) \/ TakeNothing(r) \/ CopyToUser(r)
      BY <3>1 DEF WaitSignal, PollFailed, Returns, TakeNothing, CopyToUser, Where, Outcome
    <3>2. CASE ReadLocks(r) \/ WaitEop(r) \/ Polling(r) \/ PollingError(r) \/ TestHead(r) \/ ReadEnd(r)
      <4>1. outcome' = [outcome EXCEPT ![r] = outcome[r]] /\ outcome[r] \in Outcome
        BY <1>0, <3>2 DEF ReadLocks, PollBegin, CompleteBegin, WaitEop, Polling, PollingError, TestHead,
           ReadEnd
      <4>2. \E w \in Where : pc' = [pc EXCEPT ![r] = w]
        <5>1. pc = [pc EXCEPT ![r] = pc[r]] /\ pc[r] \in Where
          BY <1>0
        <5> QED
          BY <3>2, <5>1 DEF ReadLocks, PollBegin, CompleteBegin, WaitEop, Polling, PollingError, TestHead,
             ReadEnd, Where
      <4> QED
        BY <4>1, <4>2
    <3> QED
      BY <1>7, <3>1, <3>2
  <2>3. ASSUME Calm PROVE Took(r)'
    <3>1. Took(r)
      BY <1>i, <2>3
    <3>2. pc'[r] = w /\ outcome'[r] = o /\ got'[r] = got[r]
      BY <1>0, <2>1, <2>2
    <3>3. ~WaitSignal(r) /\ ~WaitEop(r) /\ ~TakeNothing(r)
      BY <2>3, <3>1, HeadIsWaiting DEF WaitSignal, WaitEop, TakeNothing
    <3>4. CASE ReadLocks(r) \/ Polling(r) \/ PollingError(r) \/ TestHead(r)
      <4>1. got[r] = << >> /\ o = outcome[r] /\ outcome[r] = "none"
        BY <1>0, <3>1, <3>2, <3>4 DEF ReadLocks, PollBegin, CompleteBegin, Polling, PollingError, TestHead
      <4>2. w \in {"polling", "take", "test", "failed", "complete", "poll"}
        BY <1>0, <2>3, <3>2, <3>4 DEF ReadLocks, PollBegin, CompleteBegin, Polling, PollingError, TestHead,
           Calm
      <4> QED
        BY <2>1, <3>1, <3>2, <4>1, <4>2
    <3>5. CASE PollFailed(r)
      <4>1. w = "idle" /\ o = "ERESTARTSYS"
        BY <1>0, <3>2, <3>5 DEF PollFailed, Returns
      <4> QED
        BY <3>2, <4>1
    <3>6. CASE CopyToUser(r)
      <4>1. pc[r] = "copy" /\ w = "overrun" /\ o = "packet"
        BY <1>0, <3>2, <3>6 DEF CopyToUser
      <4> QED
        BY <3>1, <3>2, <4>1
    <3>7. CASE ReadEnd(r)
      <4>1. pc[r] = "overrun" /\ w = "idle" /\ o = outcome[r]
        BY <1>0, <3>2, <3>7 DEF ReadEnd
      <4> QED
        BY <3>1, <3>2, <4>1
    <3> QED
      BY <1>7, <3>3, <3>4, <3>5, <3>6, <3>7
  <2> QED
    BY <1>0, <1>2, <2>1, <2>2, <2>3
<1> QED
  BY <1>3, <1>4, <1>5, <1>6, <1>7 DEF Next, ReadRuns, Open

-----------------------------------------------------------------------------
LEMMA RingInvHolds == Spec => []RingInv
<1>1. Init => RingInv
  BY RingInvInit
<1>2. RingInv /\ [Next]_vars => RingInv'
  <2>1. ASSUME RingInv, Next PROVE RingInv'
    BY <2>1, RingTypesNext, ModeTypesNext, ReaderTypesNext, LockNext, StopNext, FillNext, PacketNext,
       ReadNext DEF RingInv
  <2>2. ASSUME RingInv, UNCHANGED vars PROVE RingInv'
    <3> USE <2>2 DEF RingInv, vars, ringVars, engineVars, hwVars, readVars, openVars
    <3>1. RingTypes' /\ ModeTypes' /\ ReaderTypes'
      BY DEF RingTypes, ModeTypes, ReaderTypes
    <3>2. LockInv' /\ StopInv'
      BY DEF LockInv, LockHasHolder, ReaderHolds, CloseHolds, StopInv
    <3>3. FillInv' /\ RingIsOrdered'
      BY DEF FillInv, RingIsOrdered
    <3>4. PacketInv'
      BY DEF PacketInv, PacketsWait, Waiting, InPacket, Calm
    <3>5. ReadInv'
      BY DEF ReadInv, Calm
    <3> QED
      BY <3>1, <3>2, <3>3, <3>4, <3>5
  <2> QED
    BY <2>1, <2>2
<1> QED
  BY <1>1, <1>2, PTL DEF Spec

(* The ring holds exactly the blocks that were written and not taken, in    *)
(* order, whatever hardware, work and readers do between each other's steps *)
(* (RingIsOrdered), for a ring of any size.                                 *)
THEOREM RingStaysOrdered == Spec => []RingIsOrdered
<1>1. RingInv => RingIsOrdered
  BY DEF RingInv
<1> QED
  BY <1>1, RingInvHolds, PTL

(* close() frees the ring only when the hardware stopped writing to it and  *)
(* its transfer is off the queue, unless a signal ended its wait            *)
(* (FreedAfterStop): in both modes, after errors and laps, and however the  *)
(* file is shared.                                                          *)
THEOREM RingFreedAfterStop == Spec => []FreedAfterStop
<1>1. RingInv => FreedAfterStop
  BY DEF RingInv, ModeTypes, StopInv, FileWhere, FreedAfterStop, FreedInUse
<1> QED
  BY <1>1, RingInvHolds, PTL

(* engine->lock is held only by the work, a poll, a read() or a close() in  *)
(* its lock section, or leaked by a failed open() (LockHasHolder).          *)
THEOREM LockAlwaysHasHolder == Spec => []LockHasHolder
<1>1. RingInv => LockHasHolder
  BY DEF RingInv, LockInv
<1> QED
  BY <1>1, RingInvHolds, PTL

(* In poll mode the one reader of a stream that does not lap it takes whole *)
(* packets, from the first block to the EOP, and never comes back empty     *)
(* (PolledReadIsWhole), for packets of any length.                          *)
THEOREM PolledReadsAreWhole == Spec => []PolledReadIsWhole
<1>1. RingInv => PolledReadIsWhole
  <2> SUFFICES ASSUME RingInv, poll_mode, "share" \notin env,
                      mishap \cap {"lapped", "leaked", "bad"} = {}, opens = 1
               PROVE  WholePackets
    BY DEF PolledReadIsWhole
  <2>1. Calm /\ ReadInv
    BY DEF RingInv, Calm
  <2> QED
    BY <2>1 DEF ReadInv, InOrder, WholePackets
<1> QED
  BY <1>1, RingInvHolds, PTL
=============================================================================
