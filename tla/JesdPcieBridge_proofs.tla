------------------------- MODULE JesdPcieBridge_proofs -------------------------
(***************************************************************************)
(* Theorems about JesdPcieBridge: whatever the three clocks do, a packet   *)
(* is exact, a capture that fits the FIFO is whole and a playback is whole *)
(* for every counter size, both depths, all word counts and packets.       *)
(***************************************************************************)
EXTENDS JesdPcieBridge, TLAPS

(* What a program may be told to capture, and what it has triggered last.   *)
Words == NumWords \cup {0}

BridgeTypes ==
  /\ TypeOK
  /\ num_words \in Words
  /\ rx_num_words_s \in Words /\ rx_num_words_m \in Words

-----------------------------------------------------------------------------
(* A pulse belongs to the step of the program that wrote it, and that of a  *)
(* trigger may outlast the collecting, too.                                 *)
PulseInv ==
  /\ trigger_rx = trigger_tx
  /\ trigger_rx => sw \in {"collect", "start"}
  /\ flush => sw = "write"
  /\ ~Pulse => sampled = {}
  /\ sw \in {"trigger", "collect"} => num_words \in NumWords
  /\ sw # "trigger" => num_words = asked
  /\ sw = "collect" => asked \in NumWords

(* An edge of the clock has seen the pulse, or there is none any more.      *)
Seen(clock) == Pulse => clock \in sampled

-----------------------------------------------------------------------------
(* Words stored and beats sent since the trigger.                           *)
Written == IF rx_flush_s THEN 0 ELSE rx_wr_count
Sent == IF rx_flush_m THEN 0 ELSE rx_rd_count

SinkRests == rx_s_state = "IDLE" /\ ~rx_flush_s
SourceRests == rx_m_state = "IDLE" /\ ~rx_flush_m

(* The sink in a capture: flushed, or counting, or done with one word more  *)
(* than it was asked for.                                                   *)
SinkCaptures ==
  /\ rx_num_words_s = asked
  /\ trigger_rx => rx_flush_s
  /\ rx_s_state = "IDLE" => rx_flush_s \/ rx_wr_count \in {asked, asked + 1}
  /\ rx_s_state = "WRITE_FIFO" => rx_wr_count <= asked
  /\ rx_s_state = "WRITE_FIFO" /\ rx_flush_s => rx_wr_count = 0

SourceCaptures ==
  /\ rx_num_words_m = asked
  /\ trigger_rx => rx_flush_m
  /\ rx_m_state = "IDLE" => rx_flush_m \/ rx_rd_count = asked \div 2
  /\ rx_m_state = "READ_FIFO" => rx_rd_count <= asked \div 2
  /\ rx_m_state = "READ_FIFO" /\ rx_flush_m => rx_rd_count = 0

(* The FIFO holds what was stored and not sent, and the history is that of  *)
(* the beats sent.                                                          *)
CaptureCounts ==
  /\ rx_level = Written - 2 * Sent
  /\ rx_length = IF Sent = asked \div 2 THEN Sent ELSE 0
  /\ rx_beats = IF Sent = asked \div 2 THEN 0 ELSE Sent

CaptureBegins ==
  /\ IF "rx" \in sampled THEN SinkCaptures /\ rx_level = 0 ELSE SinkRests
  /\ IF "user" \in sampled THEN SourceCaptures ELSE SourceRests
  /\ rx_length = 0 /\ rx_beats = 0

CaptureRuns == SinkCaptures /\ SourceCaptures /\ CaptureCounts

(* The packet of the last trigger has been sent.                            *)
CaptureEnded ==
  /\ CaptureRuns
  /\ ~rx_flush_s /\ ~rx_flush_m /\ Sent = asked \div 2

RxInv ==
  /\ sw = "collect" => IF trigger_rx THEN CaptureBegins ELSE CaptureRuns
  /\ sw = "start" => CaptureEnded /\ ~trigger_rx
  /\ sw = "write" => /\ CaptureEnded
                     /\ Seen("rx") => SinkRests
                     /\ Seen("user") => SourceRests
  /\ sw \in {"writing", "words", "trigger"} => SinkRests /\ SourceRests
  /\ sw # "collect" => rx_beats = 0 /\ rx_length = asked \div 2

-----------------------------------------------------------------------------
TxSinkRests == tx_s_state = "IDLE" /\ ~tx_flush_s /\ tx_left = 0

(* The flush: the FIFO is emptied.                                          *)
Flushing ==
  /\ tx_left = 0
  /\ ~Seen("user") => TxSinkRests
  /\ flush /\ Seen("user") => tx_flush_s
  /\ tx_flush_s => tx_level = 0
  /\ ~flush /\ ~tx_flush_s => tx_level = 0 /\ tx_played = 0

Filling ==
  /\ packet \in Packets /\ tx_left <= packet
  /\ tx_level + tx_played = 2 * (packet - tx_left)
  /\ ~tx_flush_s
  /\ tx_left = 0 => tx_s_state = "IDLE"

(* The playback, which an earlier trigger may have begun: once the source   *)
(* has seen the trigger, it goes on while there are words.                  *)
Playing ==
  /\ TxSinkRests /\ packet \in Packets
  /\ tx_level + tx_played = 2 * packet
  /\ Seen("tx") /\ TxIdle => ~Pulse /\ tx_level = 0

TxInv ==
  /\ sw = "start" => TxSinkRests
  /\ sw = "write" => Flushing
  /\ sw = "writing" => Filling
  /\ sw \in {"words", "trigger"} => Filling /\ tx_left = 0
  /\ sw = "collect" => Playing

-----------------------------------------------------------------------------
(* The arithmetic of the counters: a number of words fits the counter of    *)
(* the sink with one word to spare, its half fits that of the source, and   *)
(* the beat with TLAST is the last of the half.                             *)
LEMMA WordsFit ==
  ASSUME NEW n \in Words
  PROVE  /\ n \in Nat /\ n + 1 < CountSize
         /\ n % CountSize = n
         /\ n \div 2 \in Nat /\ n \div 2 < CountSize \div 2 /\ n = 2 * (n \div 2)
         /\ n # 0 => n \div 2 > 0 /\ ((n - 1) % CountSize) \div 2 = n \div 2 - 1
<1>1. CountSize \in Nat /\ CountSize > 1 /\ CountSize % 2 = 0
  BY RxConstants DEF RxConstants
<1>2. n \in 0..(CountSize - 1) /\ n % 2 = 0
  BY <1>1, ProgramConstants DEF ProgramConstants, Words
<1>3. \A k \in 0..(CountSize - 1) : k % CountSize = k
  BY <1>1
<1>4. n \in Nat /\ n <= CountSize - 2
  BY <1>1, <1>2
<1>5. n \div 2 \in Nat /\ n \div 2 < CountSize \div 2 /\ n = 2 * (n \div 2)
  BY <1>1, <1>2, <1>4
<1>6. n # 0 => n \div 2 > 0 /\ ((n - 1) % CountSize) \div 2 = n \div 2 - 1
  <2>1. n # 0 => n - 1 \in 0..(CountSize - 1)
    BY <1>1, <1>4
  <2>2. n # 0 => n \div 2 > 0 /\ (n - 1) \div 2 = n \div 2 - 1
    BY <1>2, <1>4
  <2>3. QED  BY <1>3, <2>1, <2>2
<1>7. QED  BY <1>1, <1>2, <1>3, <1>4, <1>5, <1>6

(* A counter below its size counts, and at its size begins again.          *)
LEMMA CounterWraps ==
  ASSUME NEW c \in Nat \ {0}, NEW k \in Nat
  PROVE  /\ (k + 1) % c \in 0..(c - 1)
         /\ k + 1 < c => (k + 1) % c = k + 1
OBVIOUS

LEMMA CountersFit ==
  /\ CountSize \in Nat /\ CountSize > 1 /\ CountSize % 2 = 0
  /\ \A k \in Nat : /\ (k + 1) % CountSize \in 0..(CountSize - 1)
                    /\ k + 1 < CountSize => (k + 1) % CountSize = k + 1
  /\ \A k \in Nat : /\ (k + 1) % (CountSize \div 2) \in 0..(CountSize \div 2 - 1)
                    /\ k + 1 < CountSize \div 2 => (k + 1) % (CountSize \div 2) = k + 1
<1>1. CountSize \in Nat /\ CountSize > 1 /\ CountSize % 2 = 0
  BY RxConstants DEF RxConstants
<1>2. CountSize \in Nat \ {0} /\ CountSize \div 2 \in Nat \ {0}
  BY <1>1
<1>3. QED  BY <1>1, <1>2, CounterWraps, Zenon

-----------------------------------------------------------------------------
(* Types *)

LEMMA TypesInit == Init => BridgeTypes
<1> SUFFICES ASSUME Init PROVE BridgeTypes
  OBVIOUS
<1>1. RegistersTypeOK
  BY DEF Init, RegistersInit, RegistersTypeOK
<1>2. RxTypeOK
  <2>1. 0 \in Nat /\ 0 \in 0..(CountSize - 1) /\ 0 \in 0..(CountSize \div 2 - 1) /\ 0 \in 0..RxDepth
    BY CountersFit, RxConstants DEF RxConstants
  <2>2. QED  BY <2>1, Zenon DEF Init, RxInit, RxTypeOK
<1>3. TxTypeOK
  <2>1. 0 \in Nat /\ 0 \in 0..(2 * TxDepth)
    BY TxConstants DEF TxConstants
  <2>2. QED  BY <2>1, Zenon DEF Init, TxInit, TxTypeOK
<1>4. QED
  BY <1>1, <1>2, <1>3 DEF Init, RegistersInit, RxInit, BridgeTypes, TypeOK, Words

LEMMA TypesProgram ==
  ASSUME BridgeTypes, Program
  PROVE  BridgeTypes'
<1> USE DEF BridgeTypes, TypeOK, RegistersTypeOK, RxTypeOK, TxTypeOK, Words,
            registerVars, rxVars, sinkVars, sourceVars, txVars
<1>1. CASE SwFlush         BY <1>1 DEF SwFlush, WriteFlush
<1>2. CASE SwWrite
  BY <1>2, ProgramConstants, TxConstants DEF SwWrite, ProgramConstants, TxConstants
<1>3. CASE SwWriteReturns  BY <1>3 DEF SwWriteReturns
<1>4. CASE SwNumWords
  BY <1>4, ProgramConstants DEF SwNumWords, WriteNumWords, ProgramConstants
<1>5. CASE SwTrigger
  <2>1. RegistersTypeOK'
    BY <1>5 DEF SwTrigger, WriteTrigger
  <2>2. RxTypeOK'
    BY <1>5 DEF SwTrigger
  <2>3. TxTypeOK'
    BY <1>5 DEF SwTrigger
  <2>4. QED  BY <1>5, <2>1, <2>2, <2>3 DEF SwTrigger, WriteTrigger
<1>6. CASE SwCollect       BY <1>6 DEF SwCollect
<1>7. QED  BY <1>1, <1>2, <1>3, <1>4, <1>5, <1>6 DEF Program

LEMMA TypesRxClock ==
  ASSUME BridgeTypes, NEW valid \in BOOLEAN, RxClock(valid)
  PROVE  BridgeTypes'
<1> USE DEF BridgeTypes, TypeOK, RegistersTypeOK, RxTypeOK, TxTypeOK,
            sourceVars, txVars, RxClock, RxSinkEdge, Samples
<1>1. rx_wr_count' \in 0..(CountSize - 1)
  BY CountersFit
<1>2. rx_level' \in 0..RxDepth
  BY RxConstants DEF RxTready, RxConstants
<1>3. /\ rx_flush_s' \in BOOLEAN /\ rx_gap' \in BOOLEAN /\ rx_num_words_s' \in Words
      /\ rx_s_state' \in {"IDLE", "WRITE_FIFO"}
  BY DEF SinkState
<1>4. sampled' \subseteq Clock
  BY DEF Clock
<1>5. QED  BY <1>1, <1>2, <1>3, <1>4 DEF Words

LEMMA TypesTxClock ==
  ASSUME BridgeTypes, NEW ready \in BOOLEAN, TxClock(ready)
  PROVE  BridgeTypes'
<1> USE DEF BridgeTypes, TypeOK, RegistersTypeOK, RxTypeOK, TxTypeOK,
            rxVars, sinkVars, sourceVars, TxClock, TxSourceEdge, Samples
<1>1. tx_level' \in 0..(2 * TxDepth) /\ tx_played' \in Nat
  BY TxConstants DEF TxConstants
<1>2. sampled' \subseteq Clock
  BY DEF Clock
<1>3. QED  BY <1>1, <1>2

LEMMA TypesUserClock ==
  ASSUME BridgeTypes, NEW ready \in BOOLEAN, NEW valid \in BOOLEAN, UserClock(ready, valid)
  PROVE  BridgeTypes'
<1> USE DEF BridgeTypes, TypeOK, RegistersTypeOK, RxTypeOK, TxTypeOK,
            sinkVars, UserClock, RxSourceEdge, TxSinkEdge, Samples
<1>1. rx_rd_count' \in 0..(CountSize \div 2 - 1)
  BY CountersFit
<1>2. rx_level' \in 0..RxDepth
  BY RxConstants DEF RxTvalid, RxConstants
<1>3. /\ rx_flush_m' \in BOOLEAN /\ rx_num_words_m' \in Words
      /\ rx_m_state' \in {"IDLE", "READ_FIFO"} /\ rx_beats' \in Nat /\ rx_length' \in Nat
  BY DEF SourceState
<1>4. tx_level' \in 0..(2 * TxDepth) /\ tx_left' \in Nat /\ tx_played' \in Nat
  BY TxConstants DEF TxTready, TxConstants
<1>5. tx_s_state' \in {"IDLE", "WRITE_FIFO"} /\ tx_flush_s' \in BOOLEAN
  OBVIOUS
<1>6. sampled' \subseteq Clock
  BY DEF Clock
<1>7. QED  BY <1>1, <1>2, <1>3, <1>4, <1>5, <1>6 DEF Words

LEMMA TypesNext == BridgeTypes /\ [Next]_vars => BridgeTypes'
<1> SUFFICES ASSUME BridgeTypes, [Next]_vars PROVE BridgeTypes'
  OBVIOUS
<1>1. CASE EndOfPulse
  <2> USE DEF BridgeTypes, TypeOK, RxTypeOK, TxTypeOK, rxVars, sinkVars, sourceVars, txVars
  <2>1. RegistersTypeOK'
    BY <1>1 DEF EndOfPulse, PulseEnds, RegistersTypeOK
  <2>2. RxTypeOK'
    BY <1>1 DEF EndOfPulse
  <2>3. TxTypeOK'
    BY <1>1 DEF EndOfPulse
  <2>4. QED  BY <1>1, <2>1, <2>2, <2>3 DEF EndOfPulse, PulseEnds
<1>2. CASE UNCHANGED vars
  BY <1>2 DEF vars, BridgeTypes, TypeOK, RegistersTypeOK, RxTypeOK, TxTypeOK,
              Words, registerVars, rxVars, sinkVars, sourceVars, txVars
<1>3. QED
  BY <1>1, <1>2, TypesProgram, TypesRxClock, TypesTxClock, TypesUserClock DEF Next

(* Every register of the bridge stays in its range: the FIFOs never hold    *)
(* more than their depth nor less than nothing, whatever the program asks   *)
(* for and whether it waits or not.                                         *)
THEOREM BridgeTypeCorrect == Spec => []TypeOK
<1>1. BridgeTypes => TypeOK
  BY DEF BridgeTypes
<1>2. QED  BY <1>1, TypesInit, TypesNext, PTL DEF Spec

-----------------------------------------------------------------------------
(* Pulses *)

LEMMA PulseInit == Init => PulseInv
BY DEF Init, RegistersInit, PulseInv, Pulse

LEMMA PulseNext ==
  ASSUME BridgeTypes, PulseInv, [Next]_vars
  PROVE  PulseInv'
<1> USE DEF PulseInv, Pulse
<1>1. CASE SwFlush         BY <1>1 DEF SwFlush, WriteFlush
<1>2. CASE SwWrite         BY <1>2 DEF SwWrite, registerVars
<1>3. CASE SwWriteReturns  BY <1>3 DEF SwWriteReturns, registerVars
<1>4. CASE SwNumWords      BY <1>4 DEF SwNumWords, WriteNumWords
<1>5. CASE SwTrigger       BY <1>5 DEF SwTrigger, WriteTrigger
<1>6. CASE SwCollect       BY <1>6 DEF SwCollect, registerVars
<1>7. CASE EndOfPulse      BY <1>7 DEF EndOfPulse, PulseEnds
<1>8. ASSUME NEW valid \in BOOLEAN, RxClock(valid) PROVE PulseInv'
  BY <1>8 DEF RxClock, Samples
<1>9. ASSUME NEW ready \in BOOLEAN, TxClock(ready) PROVE PulseInv'
  BY <1>9 DEF TxClock, Samples
<1>10. ASSUME NEW ready \in BOOLEAN, NEW valid \in BOOLEAN, UserClock(ready, valid) PROVE PulseInv'
  BY <1>10 DEF UserClock, Samples
<1>11. CASE UNCHANGED vars  BY <1>11 DEF vars, registerVars
<1>12. QED
  BY <1>1, <1>2, <1>3, <1>4, <1>5, <1>6, <1>7, <1>8, <1>9, <1>10, <1>11 DEF Next, Program

-----------------------------------------------------------------------------
(* The receive half *)

LEMMA RxInvInit == Init => RxInv
<1> SUFFICES ASSUME Init PROVE RxInv
  OBVIOUS
<1>1. 0 \div 2 = 0
  OBVIOUS
<1>2. CaptureEnded
  BY <1>1 DEF Init, RxInit, RegistersInit, CaptureEnded, CaptureRuns, SinkCaptures,
              SourceCaptures, CaptureCounts, Written, Sent
<1>3. QED  BY <1>1, <1>2 DEF Init, RxInit, RegistersInit, RxInv

(* A sink that sees the trigger, for the first time or again, is flushed.   *)
LEMMA SinkFlushed ==
  ASSUME BridgeTypes, NEW valid \in BOOLEAN, RxClock(valid),
         trigger_rx, num_words = asked, asked \in NumWords, SinkRests \/ SinkCaptures
  PROVE  SinkCaptures' /\ rx_level' = 0
<1> USE DEF RxClock, Samples, RxSinkEdge
<1>1. rx_level' = 0 /\ rx_flush_s' /\ trigger_rx' /\ rx_num_words_s' = asked' /\ asked' = asked
  BY DEF BridgeTypes, TypeOK, RegistersTypeOK
<1>2. asked # 0 /\ asked % CountSize = asked /\ asked \in Nat
  BY WordsFit, ProgramConstants, RxConstants DEF Words, ProgramConstants, RxConstants
<1>3. CASE SinkRests
  <2>1. rx_s_state' = "IDLE"
    BY <1>3 DEF SinkRests, SinkState
  <2>2. QED  BY <1>1, <2>1 DEF SinkCaptures
<1>4. CASE SinkCaptures
  <2>1. rx_wr_count' = 0
    BY <1>4 DEF SinkCaptures
  <2>2. rx_s_state' = "WRITE_FIFO"
    BY <1>2, <1>4 DEF SinkCaptures, SinkState, AllWritten, BridgeTypes, TypeOK, RxTypeOK
  <2>3. QED  BY <1>1, <1>2, <2>1, <2>2 DEF SinkCaptures
<1>5. QED  BY <1>3, <1>4

(* Without a trigger what the sink counts is what it stores; it stops one   *)
(* word too late.                                                           *)
LEMMA SinkCounts ==
  ASSUME BridgeTypes, NEW valid \in BOOLEAN, RxClock(valid),
         ~trigger_rx, num_words = asked, asked \in Words, SinkCaptures,
         rx_flush_s => rx_level = 0
  PROVE  /\ SinkCaptures' /\ ~rx_flush_s'
         /\ rx_level' - Written' = rx_level - Written
         /\ ~rx_flush_s /\ rx_wr_count >= asked => SinkRests'
<1> USE DEF RxClock, Samples, RxSinkEdge
<1>1. ~rx_flush_s' /\ ~trigger_rx' /\ rx_num_words_s' = asked' /\ asked' = asked
  OBVIOUS
<1>2. asked % CountSize = asked /\ asked \in Nat /\ asked + 1 < CountSize
  BY WordsFit
<1>3. /\ rx_wr_count \in Nat /\ rx_level \in Nat
      /\ rx_s_state \in {"IDLE", "WRITE_FIFO"}
  BY CountersFit, RxConstants DEF BridgeTypes, TypeOK, RxTypeOK, RxConstants
<1>4. CASE rx_flush_s
  <2>1. rx_wr_count' = 0 /\ rx_level' = 0
    BY <1>4
  <2>2. rx_s_state' = "WRITE_FIFO" \/ asked = 0
    BY <1>2, <1>3, <1>4 DEF SinkState, SinkCaptures, AllWritten
  <2>3. SinkCaptures'
    BY <1>1, <1>2, <2>1, <2>2 DEF SinkCaptures
  <2>4. QED  BY <1>1, <1>4, <2>1, <2>3 DEF Written
<1>5. CASE ~rx_flush_s /\ rx_s_state = "IDLE"
  <2>1. rx_s_state' = "IDLE" /\ rx_wr_count' = rx_wr_count /\ rx_level' = rx_level
    BY <1>5 DEF SinkState, RxTready
  <2>2. SinkCaptures'
    BY <1>1, <1>5, <2>1 DEF SinkCaptures
  <2>3. QED  BY <1>1, <1>5, <2>1, <2>2 DEF Written, SinkRests
<1>6. CASE ~rx_flush_s /\ rx_s_state = "WRITE_FIFO"
  <2>1. rx_wr_count <= asked /\ rx_num_words_s = asked
    BY <1>6 DEF SinkCaptures
  <2>2. (rx_wr_count + 1) % CountSize = rx_wr_count + 1
    BY <1>2, <1>3, <2>1, CountersFit
  <2>3. \/ rx_wr_count' = rx_wr_count /\ rx_level' = rx_level
        \/ rx_wr_count' = rx_wr_count + 1 /\ rx_level' = rx_level + 1
    BY <1>6, <2>2
  <2>4. rx_s_state' = IF rx_wr_count = asked THEN "IDLE" ELSE "WRITE_FIFO"
    BY <1>2, <1>6, <2>1 DEF SinkState, AllWritten
  <2>5. SinkCaptures'
    BY <1>1, <1>2, <1>3, <2>1, <2>3, <2>4 DEF SinkCaptures
  <2>6. QED  BY <1>1, <1>2, <1>3, <1>6, <2>1, <2>3, <2>4, <2>5 DEF Written, SinkRests
<1>7. QED  BY <1>3, <1>4, <1>5, <1>6

LEMMA SinkStaysAtRest ==
  ASSUME NEW valid \in BOOLEAN, RxClock(valid), ~trigger_rx, SinkRests
  PROVE  SinkRests'
BY DEF RxClock, RxSinkEdge, SinkRests, SinkState

(* A source that sees the trigger is flushed and sends nothing.             *)
LEMMA SourceFlushed ==
  ASSUME BridgeTypes, NEW ready \in BOOLEAN, NEW valid \in BOOLEAN, UserClock(ready, valid),
         trigger_rx, num_words = asked, asked \in NumWords, SourceRests \/ SourceCaptures
  PROVE  /\ SourceCaptures'
         /\ rx_level' = rx_level /\ rx_beats' = rx_beats /\ rx_length' = rx_length
<1> USE DEF UserClock, Samples, RxSourceEdge
<1>1. rx_flush_m' /\ trigger_rx' /\ rx_num_words_m' = asked' /\ asked' = asked
  BY DEF BridgeTypes, TypeOK, RegistersTypeOK
<1>2. asked \div 2 \in Nat /\ asked \div 2 > 0 /\ asked % CountSize = asked
  BY WordsFit, ProgramConstants, RxConstants DEF Words, ProgramConstants, RxConstants
<1>3. ~RxTvalid
  BY DEF RxTvalid, SourceRests, SourceCaptures
<1>4. CASE SourceRests
  <2>1. rx_m_state' = "IDLE"
    BY <1>4 DEF SourceRests, SourceState
  <2>2. QED  BY <1>1, <1>3, <2>1 DEF SourceCaptures
<1>5. CASE SourceCaptures
  <2>1. rx_rd_count' = 0
    BY <1>5 DEF SourceCaptures
  <2>2. rx_m_state' = "READ_FIFO"
    BY <1>2, <1>5 DEF SourceCaptures, SourceState, BridgeTypes, TypeOK, RxTypeOK
  <2>3. QED  BY <1>1, <1>2, <1>3, <2>1, <2>2 DEF SourceCaptures
<1>6. QED  BY <1>4, <1>5

(* Without a trigger the beats sent are counted, and the last of them has   *)
(* TLAST.                                                                   *)
LEMMA SourceSends ==
  ASSUME BridgeTypes, NEW ready \in BOOLEAN, NEW valid \in BOOLEAN, UserClock(ready, valid),
         ~trigger_rx, num_words = asked, asked \in Words, CaptureRuns
  PROVE  /\ CaptureRuns' /\ ~rx_flush_m'
         /\ ~rx_flush_m /\ rx_rd_count = asked \div 2 =>
              /\ SourceRests' /\ rx_rd_count' = rx_rd_count
              /\ rx_beats' = rx_beats /\ rx_length' = rx_length
<1> USE DEF UserClock, Samples, RxSourceEdge
<1>1. /\ ~rx_flush_m' /\ ~trigger_rx' /\ rx_num_words_m' = asked' /\ asked' = asked
      /\ Written' = Written /\ SinkCaptures'
  BY DEF CaptureRuns, SinkCaptures, sinkVars, Written
<1>2. DEFINE half == asked \div 2
<1>3. /\ asked \in Nat /\ half \in Nat /\ half < CountSize \div 2 /\ asked = 2 * half
      /\ asked % CountSize = asked
      /\ asked # 0 => half > 0 /\ ((asked - 1) % CountSize) \div 2 = half - 1
  BY WordsFit
<1>4. /\ rx_rd_count \in Nat /\ rx_wr_count \in Nat /\ rx_level \in Nat
      /\ rx_beats \in Nat /\ rx_length \in Nat
      /\ rx_m_state \in {"IDLE", "READ_FIFO"} /\ rx_s_state \in {"IDLE", "WRITE_FIFO"}
  BY CountersFit, RxConstants DEF BridgeTypes, TypeOK, RxTypeOK, RxConstants
<1>5. Written \in Nat /\ Written <= asked + 1
  BY <1>3, <1>4 DEF CaptureRuns, SinkCaptures, Written
<1>6. rx_level = Written - 2 * Sent /\ rx_num_words_m = asked
  BY DEF CaptureRuns, CaptureCounts, SourceCaptures
<1>7. CASE ready /\ RxTvalid
  <2>1. rx_m_state = "READ_FIFO" /\ ~rx_flush_m /\ rx_level >= 2 /\ Sent = rx_rd_count
    BY <1>7 DEF RxTvalid, Sent
  <2>2. rx_rd_count < half /\ asked # 0
    BY <1>3, <1>4, <1>5, <1>6, <2>1
  <2>3. rx_rd_count' = rx_rd_count + 1
    BY <1>3, <1>4, <1>7, <2>1, <2>2, CountersFit
  <2>4. rx_level' = rx_level - 2 /\ Sent' = Sent + 1
    BY <1>1, <1>7, <2>1, <2>3 DEF Sent
  <2>5. rx_m_state' = "READ_FIFO"
    BY <1>3, <1>6, <2>1, <2>2 DEF SourceState
  <2>6. SourceCaptures'
    BY <1>1, <1>3, <1>4, <2>2, <2>3, <2>5 DEF SourceCaptures
  <2>7. RxTlast <=> Sent' = half
    BY <1>3, <1>4, <1>6, <2>1, <2>2, <2>4 DEF RxTlast
  <2>8. rx_beats = Sent /\ rx_length = 0
    BY <2>1, <2>2, <1>4 DEF CaptureRuns, CaptureCounts
  <2>9. CaptureCounts'
    BY <1>1, <1>4, <1>5, <1>6, <1>7, <2>1, <2>4, <2>7, <2>8 DEF CaptureCounts
  <2>10. QED  BY <1>1, <1>4, <2>2, <2>6, <2>9 DEF CaptureRuns
<1>8. CASE ~(ready /\ RxTvalid)
  <2>1. /\ rx_level' = rx_level /\ rx_beats' = rx_beats /\ rx_length' = rx_length
        /\ rx_rd_count' = IF rx_flush_m THEN 0 ELSE rx_rd_count
    BY <1>8
  <2>2. Sent' = Sent
    BY <1>1, <2>1 DEF Sent
  <2>3. CaptureCounts'
    BY <1>1, <2>1, <2>2 DEF CaptureRuns, CaptureCounts
  <2>4. SourceCaptures'
    <3>1. CASE rx_m_state = "IDLE"
      BY <1>1, <1>3, <2>1, <3>1 DEF CaptureRuns, SourceCaptures, SourceState
    <3>2. CASE rx_m_state = "READ_FIFO"
      <4>1. rx_m_state' = IF rx_rd_count = half THEN "IDLE" ELSE "READ_FIFO"
        BY <1>3, <1>6, <3>2 DEF SourceState
      <4>2. rx_rd_count <= half /\ (rx_flush_m => rx_rd_count = 0)
        BY <3>2 DEF CaptureRuns, SourceCaptures
      <4>3. QED  BY <1>1, <1>3, <1>4, <2>1, <4>1, <4>2 DEF SourceCaptures
    <3>3. QED  BY <1>4, <3>1, <3>2
  <2>5. ~rx_flush_m /\ rx_rd_count = half => rx_m_state' = "IDLE"
    BY <1>3, <1>4, <1>6 DEF SourceState
  <2>6. QED  BY <1>1, <2>1, <2>3, <2>4, <2>5 DEF CaptureRuns, SourceRests
<1>9. QED  BY <1>7, <1>8

LEMMA SourceStaysAtRest ==
  ASSUME NEW ready \in BOOLEAN, NEW valid \in BOOLEAN, UserClock(ready, valid),
         ~trigger_rx, SourceRests
  PROVE  /\ SourceRests'
         /\ rx_level' = rx_level /\ rx_beats' = rx_beats /\ rx_length' = rx_length
BY DEF UserClock, RxSourceEdge, SourceRests, SourceState, RxTvalid

(* The steps of the program leave the receive half alone, but for the       *)
(* trigger, which begins a history.                                         *)
LEMMA RxInvProgram ==
  ASSUME Patient, BridgeTypes, PulseInv, RxInv, Program
  PROVE  RxInv'
<1> USE DEF RxInv
<1>1. CASE SwFlush
  <2>1. UNCHANGED rxVars /\ sampled' = {} /\ flush' /\ asked' = asked /\ trigger_rx' = trigger_rx
    BY <1>1 DEF SwFlush, WriteFlush, PulseInv, BridgeTypes, TypeOK, RegistersTypeOK
  <2>2. CaptureEnded'
    BY <1>1, <2>1 DEF SwFlush, CaptureEnded, CaptureRuns, SinkCaptures, SourceCaptures,
                      CaptureCounts, Written, Sent, rxVars, sinkVars, sourceVars
  <2>3. ~Seen("rx")' /\ ~Seen("user")'
    BY <2>1 DEF Seen, Pulse
  <2>4. QED  BY <1>1, <2>1, <2>2, <2>3 DEF SwFlush, rxVars, PulseInv
<1>2. CASE SwWrite
  <2>1. UNCHANGED rxVars /\ ~Pulse /\ asked' = asked /\ sw = "write" /\ sw' = "writing"
    BY <1>2 DEF SwWrite
  <2>2. SinkRests /\ SourceRests
    BY <2>1 DEF Seen
  <2>3. QED  BY <2>1, <2>2 DEF SinkRests, SourceRests, rxVars, sinkVars, sourceVars
<1>3. CASE SwWriteReturns
  BY <1>3 DEF SwWriteReturns, SinkRests, SourceRests, rxVars, sinkVars, sourceVars
<1>4. CASE SwNumWords
  BY <1>4 DEF SwNumWords, SinkRests, SourceRests, rxVars, sinkVars, sourceVars
<1>5. CASE SwTrigger
  <2>1. /\ sampled' = {} /\ trigger_rx' /\ sw = "trigger" /\ sw' = "collect"
        /\ UNCHANGED <<sinkVars, sourceVars, rx_beats>> /\ rx_length' = 0
    BY <1>5 DEF SwTrigger, WriteTrigger, PulseInv
  <2>2. SinkRests' /\ SourceRests' /\ rx_beats' = 0
    BY <2>1 DEF SinkRests, SourceRests, sinkVars, sourceVars
  <2>3. QED  BY <2>1, <2>2 DEF CaptureBegins
<1>6. CASE SwCollect
  <2>1. /\ UNCHANGED rxVars /\ asked' = asked /\ trigger_rx' = trigger_rx /\ ~trigger_rx
        /\ sw = "collect" /\ sw' = "start" /\ rx_length # 0
    BY <1>6 DEF SwCollect, registerVars, Pulse
  <2>2. CaptureRuns /\ asked \in NumWords
    BY <2>1 DEF PulseInv
  <2>3. /\ asked \div 2 > 0 /\ asked \div 2 \in Nat
        /\ rx_level \in Nat /\ rx_wr_count \in Nat /\ rx_rd_count \in Nat
    BY <2>2, WordsFit, ProgramConstants, RxConstants, CountersFit
       DEF Words, ProgramConstants, RxConstants, BridgeTypes, TypeOK, RxTypeOK
  <2>4. Sent = asked \div 2 /\ rx_level = Written - 2 * Sent
    BY <2>1, <2>2 DEF CaptureRuns, CaptureCounts
  <2>5. ~rx_flush_m
    BY <2>3, <2>4 DEF Sent
  <2>6. ~rx_flush_s
    BY <2>3, <2>4 DEF Written
  <2>7. CaptureEnded'
    BY <2>1, <2>2, <2>4, <2>5, <2>6
       DEF CaptureEnded, CaptureRuns, SinkCaptures, SourceCaptures, CaptureCounts, Written, Sent,
           rxVars, sinkVars, sourceVars
  <2>8. rx_beats' = 0 /\ rx_length' = asked' \div 2
    BY <2>1, <2>2, <2>4 DEF CaptureRuns, CaptureCounts, rxVars
  <2>9. QED  BY <2>1, <2>7, <2>8
<1>7. QED  BY <1>1, <1>2, <1>3, <1>4, <1>5, <1>6 DEF Program

LEMMA RxInvEndOfPulse ==
  ASSUME BridgeTypes, PulseInv, RxInv, EndOfPulse
  PROVE  RxInv'
<1>1. /\ UNCHANGED rxVars /\ asked' = asked /\ sw' = sw /\ sampled = Clock
      /\ ~trigger_rx' /\ ~Pulse'
  BY DEF EndOfPulse, PulseEnds, Pulse
<1>2. "rx" \in sampled /\ "user" \in sampled
  BY <1>1 DEF Clock
<1>3. CASE sw = "collect" /\ trigger_rx
  <2>1. SinkCaptures /\ SourceCaptures /\ rx_flush_s /\ rx_flush_m
    BY <1>2, <1>3 DEF RxInv, CaptureBegins, SinkCaptures, SourceCaptures
  <2>2. rx_level = 0 /\ rx_length = 0 /\ rx_beats = 0
    BY <1>2, <1>3 DEF RxInv, CaptureBegins
  <2>3. asked \div 2 \in Nat /\ asked \div 2 # 0
    <3>1. asked \in NumWords /\ asked # 0
      BY <1>3, ProgramConstants, RxConstants DEF PulseInv, ProgramConstants, RxConstants
    <3>2. QED  BY <3>1, WordsFit DEF Words
  <2>4. CaptureCounts'
    BY <1>1, <2>1, <2>2, <2>3 DEF CaptureCounts, Written, Sent, rxVars, sinkVars, sourceVars
  <2>5. SinkCaptures' /\ SourceCaptures'
    BY <1>1, <2>1 DEF SinkCaptures, SourceCaptures, rxVars, sinkVars, sourceVars
  <2>6. QED  BY <1>1, <1>3, <2>4, <2>5 DEF RxInv, CaptureRuns
<1>4. CASE sw # "collect"
  <2>1. sw = "write" => SinkRests /\ SourceRests
    BY <1>2 DEF RxInv, Seen
  <2>2. CaptureEnded => CaptureEnded'
    BY <1>1, <1>4 DEF PulseInv, CaptureEnded, CaptureRuns, SinkCaptures, SourceCaptures,
                      CaptureCounts, Written, Sent, rxVars, sinkVars, sourceVars
  <2>3. (SinkRests => SinkRests') /\ (SourceRests => SourceRests')
    BY <1>1 DEF SinkRests, SourceRests, rxVars, sinkVars, sourceVars
  <2>4. QED  BY <1>1, <1>4, <2>1, <2>2, <2>3 DEF RxInv, rxVars
<1>5. CASE sw = "collect" /\ ~trigger_rx
  BY <1>1, <1>5 DEF RxInv, CaptureRuns, SinkCaptures, SourceCaptures, CaptureCounts, Written,
                    Sent, rxVars, sinkVars, sourceVars
<1>6. QED  BY <1>3, <1>4, <1>5

LEMMA RxInvRxClock ==
  ASSUME BridgeTypes, PulseInv, RxInv, NEW valid \in BOOLEAN, RxClock(valid)
  PROVE  RxInv'
<1>1. /\ UNCHANGED <<sourceVars, rx_beats, rx_length, asked, sw, trigger_rx, trigger_tx, flush, num_words>>
      /\ "user" \in sampled' <=> "user" \in sampled
      /\ Pulse => "rx" \in sampled'
      /\ Pulse' = Pulse
  BY DEF RxClock, Samples, RxSinkEdge, Pulse
<1>2. /\ SourceCaptures => SourceCaptures'
      /\ SourceRests => SourceRests'
      /\ Sent' = Sent /\ (Seen("user")' => Seen("user"))
  BY <1>1 DEF SourceCaptures, SourceRests, Sent, Seen, sourceVars
<1>3. asked \in Words
  BY DEF BridgeTypes, TypeOK, Words
<1>4. CASE sw = "collect" /\ trigger_rx
  <2>1. num_words = asked /\ asked \in NumWords
    BY <1>4 DEF PulseInv
  <2>2. SinkRests \/ SinkCaptures
    BY <1>4 DEF RxInv, CaptureBegins
  <2>3. SinkCaptures' /\ rx_level' = 0
    BY <1>4, <2>1, <2>2, SinkFlushed
  <2>4. "rx" \in sampled'
    BY <1>1, <1>4 DEF Pulse
  <2>5. CaptureBegins'
    BY <1>1, <1>2, <1>4, <2>3, <2>4 DEF RxInv, CaptureBegins
  <2>6. QED  BY <1>1, <1>4, <2>5 DEF RxInv
<1>5. ASSUME ~trigger_rx, CaptureRuns, num_words = asked
      PROVE  /\ CaptureRuns' /\ ~rx_flush_s'
             /\ ~rx_flush_s /\ Sent = asked \div 2 => SinkRests'
  <2>1. /\ rx_level \in Nat /\ rx_rd_count \in Nat /\ rx_wr_count \in Nat
        /\ rx_level' \in Nat /\ rx_wr_count' \in Nat
    BY CountersFit, RxConstants, TypesRxClock DEF BridgeTypes, TypeOK, RxTypeOK, RxConstants
  <2>2. rx_level = Written - 2 * Sent
    BY <1>5 DEF CaptureRuns, CaptureCounts
  <2>3. rx_flush_s => rx_level = 0
    BY <2>1, <2>2 DEF Written, Sent
  <2>4. /\ SinkCaptures' /\ ~rx_flush_s'
        /\ rx_level' - Written' = rx_level - Written
        /\ ~rx_flush_s /\ rx_wr_count >= asked => SinkRests'
    BY <1>3, <1>5, <2>3, SinkCounts DEF CaptureRuns
  <2>5. rx_level' = Written' - 2 * Sent
    <3>1. Written \in Nat /\ Written' \in Nat /\ Sent \in Nat
      BY <2>1 DEF Written, Sent
    <3>2. rx_level' - Written' = rx_level - Written
      BY <2>4
    <3>3. rx_level \in Nat /\ rx_level' \in Nat
      BY <2>1
    <3>4. QED  BY <2>2, <3>1, <3>2, <3>3 DEF Written, Sent
  <2>6. ~rx_flush_s /\ Sent = asked \div 2 => rx_wr_count >= asked
    BY <1>3, <2>1, <2>2, WordsFit DEF Written
  <2>7. QED
    BY <1>1, <1>2, <1>5, <2>4, <2>5, <2>6 DEF CaptureRuns, CaptureCounts
<1>6. CASE sw = "collect" /\ ~trigger_rx
  BY <1>1, <1>5, <1>6 DEF RxInv, PulseInv
<1>7. CASE sw \in {"start", "write"}
  <2>1. CaptureEnded /\ ~trigger_rx /\ num_words = asked
    BY <1>7 DEF RxInv, PulseInv
  <2>2. CaptureEnded' /\ SinkRests'
    BY <1>1, <1>2, <1>5, <2>1 DEF CaptureEnded, sourceVars
  <2>3. QED  BY <1>1, <1>2, <1>7, <2>2 DEF RxInv
<1>8. CASE sw \in {"writing", "words", "trigger"}
  <2>1. SinkRests' /\ SourceRests'
    BY <1>2, <1>8, SinkStaysAtRest DEF RxInv, PulseInv
  <2>2. QED  BY <1>1, <1>8, <2>1 DEF RxInv
<1>9. QED  BY <1>4, <1>6, <1>7, <1>8 DEF BridgeTypes, TypeOK

LEMMA RxInvUserClock ==
  ASSUME BridgeTypes, PulseInv, RxInv,
         NEW ready \in BOOLEAN, NEW valid \in BOOLEAN, UserClock(ready, valid)
  PROVE  RxInv'
<1>1. /\ UNCHANGED <<sinkVars, asked, sw, trigger_rx, trigger_tx, flush, num_words>>
      /\ "rx" \in sampled' <=> "rx" \in sampled
      /\ Pulse => "user" \in sampled'
      /\ Pulse' = Pulse
  BY DEF UserClock, Samples, RxSourceEdge, Pulse
<1>2. /\ SinkCaptures => SinkCaptures'
      /\ SinkRests => SinkRests'
      /\ Seen("rx")' => Seen("rx")
  BY <1>1 DEF SinkCaptures, SinkRests, Seen, sinkVars
<1>3. asked \in Words
  BY DEF BridgeTypes, TypeOK, Words
<1>4. CASE sw = "collect" /\ trigger_rx
  <2>1. num_words = asked /\ asked \in NumWords
    BY <1>4 DEF PulseInv
  <2>2. SourceRests \/ SourceCaptures
    BY <1>4 DEF RxInv, CaptureBegins
  <2>3. /\ SourceCaptures'
        /\ rx_level' = rx_level /\ rx_beats' = rx_beats /\ rx_length' = rx_length
    BY <1>4, <2>1, <2>2, SourceFlushed
  <2>4. "user" \in sampled'
    BY <1>1, <1>4 DEF Pulse
  <2>5. CaptureBegins'
    BY <1>1, <1>2, <1>4, <2>3, <2>4 DEF RxInv, CaptureBegins
  <2>6. QED  BY <1>1, <1>4, <2>5 DEF RxInv
<1>5. CASE sw = "collect" /\ ~trigger_rx
  <2>1. CaptureRuns /\ num_words = asked
    BY <1>5 DEF RxInv, PulseInv
  <2>2. QED  BY <1>1, <1>3, <1>5, <2>1, SourceSends DEF RxInv
<1>6. CASE sw \in {"start", "write"}
  <2>1. CaptureEnded /\ CaptureRuns /\ ~trigger_rx /\ num_words = asked
    BY <1>6 DEF RxInv, PulseInv, CaptureEnded
  <2>2. ~rx_flush_m /\ rx_rd_count = asked \div 2
    BY <2>1 DEF CaptureEnded, Sent
  <2>3. /\ CaptureRuns' /\ ~rx_flush_m' /\ SourceRests' /\ rx_rd_count' = rx_rd_count
        /\ rx_beats' = rx_beats /\ rx_length' = rx_length
    BY <1>3, <2>1, <2>2, SourceSends
  <2>4. CaptureEnded'
    BY <1>1, <2>1, <2>2, <2>3 DEF CaptureEnded, Sent, sinkVars
  <2>5. QED  BY <1>1, <1>2, <1>6, <2>3, <2>4 DEF RxInv
<1>7. CASE sw \in {"writing", "words", "trigger"}
  <2>1. /\ SinkRests' /\ SourceRests'
        /\ rx_beats' = rx_beats /\ rx_length' = rx_length
    BY <1>2, <1>7, SourceStaysAtRest DEF RxInv, PulseInv
  <2>2. QED  BY <1>1, <1>7, <2>1 DEF RxInv
<1>8. QED  BY <1>4, <1>5, <1>6, <1>7 DEF BridgeTypes, TypeOK

LEMMA RxInvNext ==
  ASSUME Patient, BridgeTypes, PulseInv, RxInv, [Next]_vars
  PROVE  RxInv'
<1>1. ASSUME NEW ready \in BOOLEAN, TxClock(ready) PROVE RxInv'
  <2>1. /\ UNCHANGED <<rxVars, asked, sw, trigger_rx, trigger_tx, flush>>
        /\ "rx" \in sampled' <=> "rx" \in sampled
        /\ "user" \in sampled' <=> "user" \in sampled
    BY <1>1 DEF TxClock, Samples
  <2>2. Seen("rx")' = Seen("rx") /\ Seen("user")' = Seen("user")
    BY <2>1 DEF Seen, Pulse
  <2>3. QED
    BY <2>1, <2>2 DEF RxInv, CaptureBegins, CaptureEnded, CaptureRuns, SinkCaptures,
       SourceCaptures, CaptureCounts, Written, Sent, SinkRests, SourceRests,
       rxVars, sinkVars, sourceVars
<1>2. CASE UNCHANGED vars
  BY <1>2 DEF vars, RxInv, CaptureBegins, CaptureEnded, CaptureRuns, SinkCaptures,
     SourceCaptures, CaptureCounts, Written, Sent, SinkRests, SourceRests, Seen, Pulse,
     registerVars, rxVars, sinkVars, sourceVars
<1>3. QED
  BY <1>1, <1>2, RxInvProgram, RxInvEndOfPulse, RxInvRxClock, RxInvUserClock DEF Next

-----------------------------------------------------------------------------
(* No sample is lost *)

LEMMA GapNext ==
  ASSUME BridgeTypes, PulseInv, RxInv, CaptureIsWhole, [Next]_vars
  PROVE  CaptureIsWhole'
<1>1. ASSUME NEW valid \in BOOLEAN, RxClock(valid) PROVE CaptureIsWhole'
  <2> SUFFICES ASSUME asked <= RxDepth, rx_gap' PROVE FALSE
    BY <1>1 DEF CaptureIsWhole, RxClock
  <2>1. /\ ~rx_flush_s /\ rx_s_state = "WRITE_FIFO"
        /\ ~(rx_level < RxDepth) /\ ~AllWritten
    BY <1>1 DEF RxClock, RxSinkEdge, RxTready, CaptureIsWhole
  <2>2. /\ rx_level \in Nat /\ rx_wr_count \in Nat /\ rx_rd_count \in Nat
        /\ asked \in Words /\ asked \in Nat /\ RxDepth \in Nat
    BY CountersFit, RxConstants, WordsFit DEF BridgeTypes, TypeOK, RxTypeOK, Words, RxConstants
  <2>3. ~SinkRests
    BY <2>1 DEF SinkRests
  <2>4. ~(sw = "collect" /\ trigger_rx)
    BY <2>1, <2>3 DEF RxInv, CaptureBegins, SinkCaptures
  <2>5. CaptureRuns
    BY <2>3, <2>4 DEF RxInv, CaptureEnded, BridgeTypes, TypeOK
  <2>6. rx_wr_count <= asked /\ rx_wr_count # asked
    BY <2>1, <2>2, <2>5, WordsFit DEF CaptureRuns, SinkCaptures, AllWritten
  <2>7. rx_level <= rx_wr_count
    BY <2>1, <2>2, <2>5 DEF CaptureRuns, CaptureCounts, Written, Sent
  <2>8. QED  BY <2>1, <2>2, <2>6, <2>7
<1>2. CASE Program \/ EndOfPulse
  <2>1. \/ rx_gap' = FALSE
        \/ rx_gap' = rx_gap /\ asked' = asked
    BY <1>2 DEF Program, SwFlush, SwWrite, SwWriteReturns, SwNumWords, SwTrigger, SwCollect,
                EndOfPulse, rxVars
  <2>2. QED  BY <2>1 DEF CaptureIsWhole
<1>3. ASSUME NEW ready \in BOOLEAN, TxClock(ready) PROVE CaptureIsWhole'
  BY <1>3 DEF TxClock, rxVars, CaptureIsWhole
<1>4. ASSUME NEW ready \in BOOLEAN, NEW valid \in BOOLEAN, UserClock(ready, valid)
      PROVE  CaptureIsWhole'
  BY <1>4 DEF UserClock, RxSourceEdge, CaptureIsWhole
<1>5. CASE UNCHANGED vars
  BY <1>5 DEF vars, rxVars, CaptureIsWhole
<1>6. QED  BY <1>1, <1>2, <1>3, <1>4, <1>5 DEF Next

-----------------------------------------------------------------------------
(* The transmit half *)

LEMMA TxInvInit == Init => TxInv
BY DEF Init, TxInit, TxInv, TxSinkRests

LEMMA TxInvProgram ==
  ASSUME BridgeTypes, PulseInv, TxInv, Program
  PROVE  TxInv'
<1> USE DEF TxInv
<1>1. CASE SwFlush
  <2>1. /\ UNCHANGED txVars /\ sampled' = {} /\ flush' /\ sw' = "write"
        /\ TxSinkRests
    BY <1>1 DEF SwFlush, WriteFlush, PulseInv, BridgeTypes, TypeOK, RegistersTypeOK
  <2>2. TxSinkRests' /\ ~Seen("user")'
    BY <2>1 DEF TxSinkRests, txVars, Seen, Pulse
  <2>3. Flushing'
    BY <2>1, <2>2 DEF Flushing, TxSinkRests
  <2>4. QED  BY <2>1, <2>2, <2>3
<1>2. CASE SwWrite
  <2>1. PICK n \in Packets : packet' = n /\ tx_left' = n
    BY <1>2 DEF SwWrite
  <2>2. /\ ~flush /\ ~tx_flush_s /\ sw = "write" /\ sw' = "writing"
        /\ UNCHANGED <<tx_flush_s, tx_s_state, tx_start_m, tx_m_state, tx_level, tx_played>>
    BY <1>2 DEF SwWrite, Pulse
  <2>3. tx_level = 0 /\ tx_played = 0
    BY <2>2 DEF Flushing
  <2>4. n \in Nat /\ n # 0
    BY ProgramConstants, TxConstants DEF ProgramConstants, TxConstants
  <2>5. Filling'
    BY <2>1, <2>2, <2>3, <2>4 DEF Filling
  <2>6. QED  BY <2>2, <2>5
<1>3. CASE SwWriteReturns
  BY <1>3 DEF SwWriteReturns, Filling, txVars
<1>4. CASE SwNumWords
  BY <1>4 DEF SwNumWords, Filling, txVars
<1>5. CASE SwTrigger
  <2>1. /\ UNCHANGED <<txVars, packet>> /\ sampled' = {} /\ trigger_tx'
        /\ sw = "trigger" /\ sw' = "collect"
    BY <1>5 DEF SwTrigger, WriteTrigger, PulseInv
  <2>2. /\ TxSinkRests /\ packet \in Packets
        /\ tx_level + tx_played = 2 * (packet - tx_left) /\ tx_left = 0
    BY <2>1 DEF Filling, TxSinkRests
  <2>3. packet \in Nat
    BY <2>2, ProgramConstants, TxConstants DEF ProgramConstants, TxConstants
  <2>4. tx_level + tx_played = 2 * packet
    BY <2>2, <2>3
  <2>5. ~Seen("tx")'
    BY <2>1 DEF Seen, Pulse
  <2>6. Playing'
    BY <2>1, <2>2, <2>4, <2>5 DEF Playing, TxSinkRests, txVars
  <2>7. QED  BY <2>1, <2>6
<1>6. CASE SwCollect
  BY <1>6 DEF SwCollect, Playing, TxSinkRests, txVars
<1>7. QED  BY <1>1, <1>2, <1>3, <1>4, <1>5, <1>6 DEF Program

LEMMA TxInvEndOfPulse ==
  ASSUME BridgeTypes, PulseInv, TxInv, EndOfPulse
  PROVE  TxInv'
<1>1. /\ UNCHANGED txVars /\ packet' = packet /\ sw' = sw /\ ~Pulse' /\ ~flush'
      /\ Pulse /\ sampled = Clock
  BY DEF EndOfPulse, PulseEnds, Pulse
<1>2. Seen("tx") /\ Seen("user")
  BY <1>1 DEF Seen, Clock
<1>3. CASE sw = "write"
  <2>1. flush
    BY <1>1, <1>3 DEF Pulse, PulseInv
  <2>2. Flushing /\ tx_flush_s
    BY <1>2, <1>3, <2>1 DEF TxInv, Flushing
  <2>3. Flushing'
    BY <1>1, <2>2 DEF Flushing, Seen, txVars
  <2>4. QED  BY <1>1, <1>3, <2>3 DEF TxInv
<1>4. CASE sw = "collect"
  BY <1>1, <1>2, <1>4 DEF TxInv, Playing, TxSinkRests, TxIdle, Seen, txVars
<1>5. CASE sw \notin {"write", "collect"}
  BY <1>1, <1>5 DEF TxInv, Filling, TxSinkRests, txVars
<1>6. QED  BY <1>3, <1>4, <1>5

LEMMA TxInvTxClock ==
  ASSUME BridgeTypes, PulseInv, TxInv, NEW ready \in BOOLEAN, TxClock(ready)
  PROVE  TxInv'
<1>1. /\ UNCHANGED <<tx_flush_s, tx_s_state, tx_left, packet, sw, trigger_rx, trigger_tx, flush>>
      /\ "user" \in sampled' <=> "user" \in sampled
      /\ Pulse => "tx" \in sampled'
      /\ Pulse' = Pulse
      /\ tx_start_m' = trigger_tx
  BY DEF TxClock, Samples, TxSourceEdge, Pulse
<1>2. tx_level \in Nat /\ tx_played \in Nat /\ tx_m_state \in {"IDLE", "READ_FIFO"}
  BY TxConstants DEF BridgeTypes, TypeOK, TxTypeOK, TxConstants
<1>3. CASE sw # "collect"
  <2>1. /\ tx_level' + tx_played' = tx_level + tx_played
        /\ tx_level = 0 => tx_level' = 0 /\ tx_played' = tx_played
    BY <1>2 DEF TxClock, TxSourceEdge
  <2>2. Seen("user")' = Seen("user")
    BY <1>1 DEF Seen
  <2>3. QED  BY <1>1, <1>3, <2>1, <2>2 DEF TxInv, TxSinkRests, Flushing, Filling
<1>4. CASE sw = "collect"
  <2>1. Playing
    BY <1>4 DEF TxInv
  <2>2. tx_level' + tx_played' = tx_level + tx_played
    BY <1>2 DEF TxClock, TxSourceEdge
  <2>3. Seen("tx")'
    BY <1>1 DEF Seen
  <2>4. TxIdle' => ~Pulse' /\ tx_level' = 0
    <3>1. SUFFICES ASSUME TxIdle' PROVE ~Pulse' /\ tx_level' = 0
      OBVIOUS
    <3>2. ~trigger_tx /\ ~Pulse
      BY <1>1, <1>4, <3>1 DEF TxIdle, PulseInv, Pulse
    <3>3. CASE tx_m_state = "READ_FIFO"
      BY <1>1, <1>2, <3>1, <3>2, <3>3 DEF TxIdle, TxClock, TxSourceEdge, PlaybackEnds
    <3>4. CASE tx_m_state = "IDLE"
      <4>1. TxIdle
        BY <3>1, <3>4 DEF TxIdle, TxClock, TxSourceEdge
      <4>2. tx_level = 0 /\ tx_level' = tx_level
        BY <2>1, <3>2, <3>4, <4>1 DEF Playing, Seen, TxClock, TxSourceEdge
      <4>3. QED  BY <1>1, <3>2, <4>2
    <3>5. QED  BY <1>1, <1>2, <3>2, <3>3, <3>4
  <2>5. Playing'
    BY <1>1, <2>1, <2>2, <2>3, <2>4 DEF Playing, TxSinkRests
  <2>6. QED  BY <1>1, <1>4, <2>5 DEF TxInv
<1>5. QED  BY <1>3, <1>4

LEMMA TxInvUserClock ==
  ASSUME BridgeTypes, PulseInv, TxInv,
         NEW ready \in BOOLEAN, NEW valid \in BOOLEAN, UserClock(ready, valid)
  PROVE  TxInv'
<1>1. /\ UNCHANGED <<tx_start_m, tx_m_state, packet, sw, trigger_rx, trigger_tx, flush>>
      /\ "tx" \in sampled' <=> "tx" \in sampled
      /\ Pulse => "user" \in sampled'
      /\ Pulse' = Pulse
      /\ tx_flush_s' = flush
  BY DEF UserClock, Samples, TxSinkEdge, Pulse
<1>2. /\ tx_level \in Nat /\ tx_played \in Nat /\ tx_left \in Nat
      /\ tx_s_state \in {"IDLE", "WRITE_FIFO"} /\ TxDepth \in Nat
  BY TxConstants DEF BridgeTypes, TypeOK, TxTypeOK, TxConstants
<1>3. (TxIdle => TxIdle') /\ (TxIdle' => TxIdle) /\ Seen("tx")' = Seen("tx") /\ Seen("user")'
  BY <1>1 DEF TxIdle, Seen
<1>4. ASSUME TxSinkRests, ~flush
      PROVE  TxSinkRests' /\ tx_level' = tx_level /\ tx_played' = tx_played
  BY <1>4 DEF TxSinkRests, UserClock, TxSinkEdge
<1>5. CASE sw = "start"
  BY <1>1, <1>3, <1>4, <1>5 DEF TxInv, PulseInv
<1>6. CASE sw = "write"
  <2>1. Flushing /\ tx_left = 0
    BY <1>6 DEF TxInv, Flushing
  <2>2. /\ tx_left' = 0
        /\ tx_level' = IF tx_flush_s \/ flush THEN 0 ELSE tx_level
        /\ tx_played' = IF tx_flush_s THEN 0 ELSE tx_played
    BY <1>2, <2>1 DEF UserClock, TxSinkEdge
  <2>3. Flushing'
    BY <1>1, <1>3, <2>1, <2>2 DEF Flushing
  <2>4. QED  BY <1>1, <1>3, <1>6, <2>3 DEF TxInv
<1>7. CASE sw \in {"writing", "words", "trigger"}
  <2>1. Filling /\ ~flush /\ ~tx_flush_s
    BY <1>7 DEF TxInv, PulseInv, Filling
  <2>2. packet \in Nat /\ packet <= TxDepth
    BY <2>1, ProgramConstants, TxConstants DEF Filling, ProgramConstants, TxConstants
  <2>3. CASE tx_left = 0
    <3>1. Filling' /\ tx_left' = 0
      BY <1>1, <1>2, <2>1, <2>3 DEF Filling, UserClock, TxSinkEdge
    <3>2. QED  BY <1>1, <1>3, <1>7, <3>1 DEF TxInv
  <2>4. CASE tx_left > 0
    <3>2. CASE valid /\ TxTready
      <4>1. tx_left' = tx_left - 1 /\ tx_level' = tx_level + 2 /\ tx_played' = tx_played
        BY <2>1, <2>4, <3>2 DEF Filling, UserClock, TxSinkEdge
      <4>2. tx_left = 1 => tx_s_state' = "IDLE"
        BY <2>4, <3>2 DEF UserClock, TxSinkEdge, TxTlast, TxTready
      <4>3. Filling'
        BY <1>1, <1>2, <2>1, <2>2, <2>4, <4>1, <4>2 DEF Filling
      <4>4. QED  BY <1>1, <1>2, <1>3, <1>7, <2>4, <4>3 DEF TxInv
    <3>3. CASE ~(valid /\ TxTready)
      <4>1. UNCHANGED <<tx_left, tx_level, tx_played>>
        BY <2>1, <2>4, <3>3 DEF Filling, UserClock, TxSinkEdge
      <4>2. Filling'
        BY <1>1, <2>1, <2>4, <4>1 DEF Filling
      <4>3. QED  BY <1>1, <1>3, <1>7, <2>4, <4>1, <4>2 DEF TxInv, Filling
    <3>4. QED  BY <3>2, <3>3
  <2>5. QED  BY <1>2, <2>3, <2>4
<1>8. CASE sw = "collect"
  <2>1. Playing /\ ~flush
    BY <1>8 DEF TxInv, PulseInv
  <2>2. Playing'
    BY <1>1, <1>3, <1>4, <2>1 DEF Playing
  <2>3. QED  BY <1>1, <1>8, <2>2 DEF TxInv
<1>9. QED  BY <1>5, <1>6, <1>7, <1>8 DEF BridgeTypes, TypeOK

LEMMA TxInvNext ==
  ASSUME BridgeTypes, PulseInv, TxInv, [Next]_vars
  PROVE  TxInv'
<1>1. ASSUME NEW valid \in BOOLEAN, RxClock(valid) PROVE TxInv'
  <2>1. /\ UNCHANGED <<txVars, packet, sw, trigger_rx, trigger_tx, flush>>
        /\ "tx" \in sampled' <=> "tx" \in sampled
        /\ "user" \in sampled' <=> "user" \in sampled
    BY <1>1 DEF RxClock, Samples
  <2>2. Seen("tx")' = Seen("tx") /\ Seen("user")' = Seen("user") /\ Pulse' = Pulse
    BY <2>1 DEF Seen, Pulse
  <2>3. QED
    BY <2>1, <2>2 DEF TxInv, TxSinkRests, Flushing, Filling, Playing, TxIdle, txVars
<1>2. CASE UNCHANGED vars
  BY <1>2 DEF vars, TxInv, TxSinkRests, Flushing, Filling, Playing, TxIdle, Seen, Pulse,
              registerVars, txVars
<1>3. QED
  BY <1>1, <1>2, TxInvProgram, TxInvEndOfPulse, TxInvTxClock, TxInvUserClock DEF Next

-----------------------------------------------------------------------------
(* What holds of every program, and what holds of one that waits for the    *)
(* end of capture and playback before it goes on.                           *)
PlayInv == BridgeTypes /\ PulseInv /\ TxInv

BridgeInv == PlayInv /\ RxInv /\ CaptureIsWhole

LEMMA PlayInvAlways == Spec => []PlayInv
<1>1. Init => PlayInv
  BY TypesInit, PulseInit, TxInvInit DEF PlayInv
<1>2. PlayInv /\ [Next]_vars => PlayInv'
  BY TypesNext, PulseNext, TxInvNext DEF PlayInv
<1>3. QED  BY <1>1, <1>2, PTL DEF Spec

LEMMA BridgeInvAlways ==
  ASSUME Patient
  PROVE  Spec => []BridgeInv
<1>1. Init => RxInv /\ CaptureIsWhole
  <2>1. Init => CaptureIsWhole
    BY DEF Init, RxInit, CaptureIsWhole
  <2>2. QED  BY <2>1, RxInvInit
<1>2. PlayInv /\ RxInv /\ CaptureIsWhole /\ [Next]_vars => (RxInv /\ CaptureIsWhole)'
  BY RxInvNext, GapNext DEF PlayInv
<1>3. QED  BY PlayInvAlways, <1>1, <1>2, PTL DEF Spec, BridgeInv

(* The packet that answers a trigger has num_words words, two to a beat,    *)
(* with TLAST on the last of them and nothing behind it, whatever the three *)
(* clocks, the ADC and the C2H channel do: the word the sink stores too     *)
(* many (wr_count is compared one clock late) never becomes half a beat.    *)
THEOREM PacketAlwaysExact ==
  ASSUME Patient
  PROVE  Spec => []PacketIsExact
<1>1. BridgeInv => PacketIsExact
  <2> SUFFICES ASSUME BridgeInv, rx_length # 0
               PROVE  rx_length = asked \div 2 /\ rx_beats = 0
    BY DEF PacketIsExact
  <2> USE DEF BridgeInv, RxInv
  <2>1. CASE sw = "collect" /\ trigger_rx
    BY <2>1 DEF CaptureBegins
  <2>2. CASE sw = "collect" /\ ~trigger_rx
    BY <2>2 DEF CaptureRuns, CaptureCounts
  <2>3. CASE sw # "collect"
    BY <2>3
  <2>4. QED  BY <2>1, <2>2, <2>3
<1>2. QED  BY <1>1, BridgeInvAlways, PTL

(* A capture of at most RxDepth words never finds the FIFO full, even when  *)
(* the C2H channel takes nothing, and so loses no sample.                   *)
THEOREM CaptureAlwaysWhole ==
  ASSUME Patient
  PROVE  Spec => []CaptureIsWhole
<1>1. BridgeInv => CaptureIsWhole
  BY DEF BridgeInv
<1>2. QED  BY <1>1, BridgeInvAlways, PTL

(* A playback that came to rest has played the packet that was written,     *)
(* neither a word less nor one of an earlier packet, also when the program  *)
(* does not wait: a flush empties the FIFO under a playback that goes on.   *)
THEOREM PlaybackAlwaysWhole == Spec => []PlaybackIsWhole
<1>1. PlayInv => PlaybackIsWhole
  <2> SUFFICES ASSUME PlayInv, sw = "collect", ~Pulse, TxIdle
               PROVE  tx_played = 2 * packet
    BY DEF PlaybackIsWhole
  <2>1. Playing /\ Seen("tx")
    BY DEF PlayInv, TxInv, Seen
  <2>2. tx_level = 0 /\ tx_level + tx_played = 2 * packet
    BY <2>1 DEF Playing
  <2>3. tx_played \in Nat
    BY DEF PlayInv, BridgeTypes, TypeOK, TxTypeOK
  <2>4. QED  BY <2>2, <2>3
<1>2. QED  BY <1>1, PlayInvAlways, PTL
=============================================================================
