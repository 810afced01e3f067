------------------------- MODULE XdmaUserIrq_proofs -------------------------
(***************************************************************************)
(* Proofs about XdmaUserIrq, for any lines and readers, any way the        *)
(* readers share the lines, both kinds of interrupts and with signals.     *)
(***************************************************************************)
EXTENDS XdmaUserIrq, TLAPS

(* What a reader alone on its line was told, by the test of the flag before *)
(* it takes the events or by poll(), stays true until it takes them.        *)
EventIsThere ==
  \A r \in Alone :
    /\ pc[r] = "take" \/ readable[r] => events_irq[LineOf[r]]
    /\ readable[r] => pc[r] \in {"idle", "take"}
    /\ outcome[r] # "zero"

IrqInv == TypeOK /\ SleeperHasNoEvent /\ EventIsThere

-----------------------------------------------------------------------------
LEMMA IrqInvInit == Init => IrqInv
<1> SUFFICES ASSUME Init PROVE IrqInv
  OBVIOUS
<1>1. TypeOK
  BY DEF Init, TypeOK
<1>2. SleeperHasNoEvent /\ EventIsThere
  BY DEF Init, SleeperHasNoEvent, EventIsThere, Alone
<1> QED
  BY <1>1, <1>2 DEF IrqInv

(* Setting a flag and waking those who wait for it to be set keeps both     *)
(* claims.                                                                  *)
LEMMA ServiceKeeps ==
  ASSUME IrqInv, NEW l \in Line, UserIrqService(l), UNCHANGED <<pc, outcome, readable>>
  PROVE  SleeperHasNoEvent' /\ EventIsThere'
<1> USE UserIrqConstants DEF UserIrqConstants, IrqInv
<1>1. /\ events_irq \in [Line -> BOOLEAN]
      /\ events_irq' = [events_irq EXCEPT ![l] = TRUE]
      /\ \A r \in Reader : woken'[r] = (woken[r] \/ (~events_irq[l] /\ LineOf[r] = l /\ OnQueue(r)))
  BY DEF UserIrqService, TypeOK
<1>2. SleeperHasNoEvent'
  <2> SUFFICES ASSUME NEW r \in Reader, pc[r] = "sleep", ~woken'[r]
               PROVE  ~events_irq'[LineOf[r]]
    BY DEF SleeperHasNoEvent
  <2>1. ~woken[r] /\ ~events_irq[LineOf[r]] /\ LineOf[r] \in Line
    BY <1>1 DEF SleeperHasNoEvent
  <2>2. LineOf[r] # l
    BY <1>1, <2>1 DEF OnQueue
  <2> QED
    BY <1>1, <2>1, <2>2
<1>3. EventIsThere'
  BY <1>1 DEF EventIsThere, Alone
<1> QED
  BY <1>2, <1>3

LEMMA IrqInvNext == IrqInv /\ [Next]_vars => IrqInv'
<1> SUFFICES ASSUME IrqInv, [Next]_vars PROVE IrqInv'
  OBVIOUS
<1> USE UserIrqConstants DEF UserIrqConstants, IrqInv, lineVars
<1>1. ASSUME NEW l \in Line, AssertEvent(l) \/ DeassertEvent(l)
      PROVE  IrqInv'
  <2>1. TypeOK'
    BY <1>1 DEF AssertEvent, DeassertEvent, TypeOK
  <2>2. SleeperHasNoEvent' /\ EventIsThere'
    BY <1>1 DEF AssertEvent, DeassertEvent, SleeperHasNoEvent, EventIsThere
  <2> QED
    BY <2>1, <2>2
<1>2. ASSUME NEW l \in Line, UserIrq(l)
      PROVE  IrqInv'
  <2>1. TypeOK'
    BY <1>2 DEF UserIrq, UserIrqService, OnQueue, TypeOK
  <2>2. SleeperHasNoEvent' /\ EventIsThere'
    BY <1>2, ServiceKeeps DEF UserIrq
  <2> QED
    BY <2>1, <2>2
<1>3. ASSUME NEW l \in Line, IsrService(l)
      PROVE  IrqInv'
  <2>1. TypeOK'
    BY <1>3 DEF IsrService, UserIrqService, OnQueue, TypeOK
  <2>2. SleeperHasNoEvent' /\ EventIsThere'
    BY <1>3, ServiceKeeps DEF IsrService
  <2> QED
    BY <2>1, <2>2
<1>4. ASSUME IsrRead
      PROVE  IrqInv'
  <2>1. TypeOK'
    BY <1>4 DEF IsrRead, TypeOK
  <2>2. SleeperHasNoEvent' /\ EventIsThere'
    BY <1>4 DEF IsrRead, SleeperHasNoEvent, EventIsThere
  <2> QED
    BY <2>1, <2>2
<1>5. ASSUME NEW r \in Reader, ReadBegin(r)
      PROVE  IrqInv'
  <2>1. TypeOK'
    BY <1>5 DEF ReadBegin, TypeOK
  <2>2. SleeperHasNoEvent'
    BY <1>5 DEF ReadBegin, SleeperHasNoEvent, TypeOK
  <2>3. EventIsThere'
    BY <1>5 DEF ReadBegin, EventIsThere, TypeOK, Alone
  <2> QED
    BY <2>1, <2>2, <2>3
<1>6. ASSUME NEW r \in Reader, PrepareToWait(r)
      PROVE  IrqInv'
  <2>1. TypeOK'
    BY <1>6 DEF PrepareToWait, TypeOK
  <2>2. SleeperHasNoEvent'
    BY <1>6 DEF PrepareToWait, SleeperHasNoEvent, TypeOK
  <2>3. EventIsThere'
    BY <1>6 DEF PrepareToWait, EventIsThere, TypeOK, Alone
  <2> QED
    BY <2>1, <2>2, <2>3
<1>7. ASSUME NEW r \in Reader, WaitTest(r)
      PROVE  IrqInv'
  <2>1. TypeOK'
    BY <1>7 DEF WaitTest, TypeOK
  <2>2. SleeperHasNoEvent'
    BY <1>7 DEF WaitTest, SleeperHasNoEvent, TypeOK
  <2>3. EventIsThere'
    BY <1>7 DEF WaitTest, EventIsThere, TypeOK, Alone
  <2> QED
    BY <2>1, <2>2, <2>3
<1>8. ASSUME NEW r \in Reader, Wake(r) \/ Signal(r)
      PROVE  IrqInv'
  <2>1. TypeOK'
    BY <1>8 DEF Wake, Signal, TypeOK
  <2>2. SleeperHasNoEvent'
    BY <1>8 DEF Wake, Signal, SleeperHasNoEvent, TypeOK
  <2>3. EventIsThere'
    BY <1>8 DEF Wake, Signal, EventIsThere, TypeOK, Alone
  <2> QED
    BY <2>1, <2>2, <2>3
<1>9. ASSUME NEW r \in Reader, TakeEvents(r)
      PROVE  IrqInv'
  <2>1. /\ pc[r] = "take"
        /\ outcome' = [outcome EXCEPT ![r] = IF events_irq[LineOf[r]] THEN "event" ELSE "zero"]
        /\ events_irq' = [events_irq EXCEPT ![LineOf[r]] = FALSE]
        /\ readable' = [readable EXCEPT ![r] = FALSE]
        /\ pc' = [pc EXCEPT ![r] = "idle"]
        /\ UNCHANGED <<lineVars, woken>>
    BY <1>9 DEF TakeEvents
  <2>2. TypeOK'
    BY <2>1 DEF TypeOK
  <2>3. SleeperHasNoEvent'
    BY <2>1 DEF SleeperHasNoEvent, TypeOK
  <2>4. EventIsThere'
    <3> SUFFICES ASSUME NEW q \in Alone
                 PROVE  /\ pc'[q] = "take" \/ readable'[q] => events_irq'[LineOf[q]]
                        /\ readable'[q] => pc'[q] \in {"idle", "take"}
                        /\ outcome'[q] # "zero"
      BY DEF EventIsThere
    <3>1. CASE q = r
      BY <2>1, <3>1 DEF TypeOK, EventIsThere, Alone
    <3>2. CASE q # r
      <4>1. q \in Reader /\ LineOf[q] # LineOf[r] /\ LineOf[q] \in Line
        BY <3>2 DEF Alone
      <4> QED
        BY <2>1, <3>2, <4>1 DEF TypeOK, EventIsThere
    <3> QED
      BY <3>1, <3>2
  <2> QED
    BY <2>2, <2>3, <2>4
<1>10. ASSUME NEW r \in Reader, EventsPoll(r)
       PROVE  IrqInv'
  <2>1. TypeOK'
    BY <1>10 DEF EventsPoll, TypeOK
  <2>2. SleeperHasNoEvent' /\ EventIsThere'
    BY <1>10 DEF EventsPoll, SleeperHasNoEvent, EventIsThere, TypeOK, Alone
  <2> QED
    BY <2>1, <2>2
<1>11. CASE UNCHANGED vars
  BY <1>11 DEF vars, TypeOK, SleeperHasNoEvent, EventIsThere
<1> QED
  BY <1>1, <1>2, <1>3, <1>4, <1>5, <1>6, <1>7, <1>8, <1>9, <1>10, <1>11 DEF Next, Handler, ReadRuns

-----------------------------------------------------------------------------
LEMMA IrqInvHolds == Spec => []IrqInv
BY IrqInvInit, IrqInvNext, PTL DEF Spec

(* Every variable keeps to its range.                                       *)
THEOREM UserIrqTypeCorrect == Spec => []TypeOK
<1>1. IrqInv => TypeOK
  BY DEF IrqInv
<1> QED
  BY IrqInvHolds, <1>1, PTL

(* user_irq_service() wakes only when the flag was clear, and still no      *)
(* reader sleeps on an event, however the handlers and readers interleave.  *)
THEOREM NoSleepOnEvent == Spec => []SleeperHasNoEvent
<1>1. IrqInv => SleeperHasNoEvent
  BY DEF IrqInv
<1> QED
  BY IrqInvHolds, <1>1, PTL

(* A reader alone on its line is never told of zero events, and its read()  *)
(* does not block after poll() announced an event.                          *)
THEOREM ReaderAlwaysSeesEvents == Spec => []ReaderSeesEvents
<1>1. IrqInv => ReaderSeesEvents
  BY DEF IrqInv, EventIsThere, ReaderSeesEvents
<1> QED
  BY IrqInvHolds, <1>1, PTL
=============================================================================
