---------------------------- MODULE JesdPcieBridge ----------------------------
(***************************************************************************)
(* The JESD204B-PCIe bridge (JESD204B_PCIE_BRIDGE_v1_0.v): registers, both *)
(* halves and the program that drives them, tests/rx.c: it flushes the     *)
(* transmit FIFO, writes a packet to it by DMA, sets num_words, triggers   *)
(* playback and capture and collects the captured packet.                  *)
(***************************************************************************)
EXTENDS RxBridge, TxBridge

CONSTANTS
  NumWords,   \* words the program asks for: an even number, at most the counters' range
  Packets,    \* beats of the packets it transmits
  Patient     \* the program waits for the end of playback and capture

ASSUME ProgramConstants ==
  /\ NumWords \subseteq {n \in 1..(CountSize - 1) : n % 2 = 0}
  /\ Packets \subseteq 1..TxDepth
  /\ Patient \in BOOLEAN

VARIABLES
  sw,      \* where the program is
  packet,  \* beats of its packet
  asked    \* history: num_words when it triggered

vars == <<registerVars, rxVars, txVars, sw, packet, asked>>

Init ==
  /\ RegistersInit /\ RxInit /\ TxInit
  /\ sw = "start" /\ packet = 0 /\ asked = 0

-----------------------------------------------------------------------------
SwFlush ==
  /\ sw = "start"
  /\ WriteFlush
  /\ sw' = "write"
  /\ UNCHANGED <<rxVars, txVars, packet, asked>>

(* write(): the first beat of a DMA comes long after the pulse of a         *)
(* register write.                                                          *)
SwWrite ==
  /\ sw = "write"
  /\ ~Pulse /\ ~tx_flush_s
  /\ \E n \in Packets : packet' = n /\ tx_left' = n
  /\ sw' = "writing"
  /\ UNCHANGED <<registerVars, rxVars, tx_flush_s, tx_s_state, tx_start_m, tx_m_state,
                 tx_level, tx_played, asked>>

SwWriteReturns ==
  /\ sw = "writing"
  /\ tx_left = 0
  /\ sw' = "words"
  /\ UNCHANGED <<registerVars, rxVars, txVars, packet, asked>>

SwNumWords ==
  /\ sw = "words"
  /\ \E n \in NumWords : WriteNumWords(n)
  /\ sw' = "trigger"
  /\ UNCHANGED <<rxVars, txVars, packet, asked>>

SwTrigger ==
  /\ sw = "trigger"
  /\ WriteTrigger
  /\ asked' = num_words
  /\ rx_length' = 0 /\ rx_gap' = FALSE
  /\ sw' = "collect"
  /\ UNCHANGED <<sinkVars, sourceVars, rx_level, rx_beats, txVars, packet>>

(* The captured packet is copied.  rx.c does so at once; a patient program  *)
(* first waits until it has arrived and the packet was played.              *)
SwCollect ==
  /\ sw = "collect"
  /\ Patient => rx_length # 0 /\ ~Pulse /\ TxIdle /\ tx_played > 0
  /\ sw' = "start"
  /\ UNCHANGED <<registerVars, rxVars, txVars, packet, asked>>

Program == SwFlush \/ SwWrite \/ SwWriteReturns \/ SwNumWords \/ SwTrigger \/ SwCollect

-----------------------------------------------------------------------------
EndOfPulse == PulseEnds /\ UNCHANGED <<rxVars, txVars, sw, packet, asked>>

RxClock(valid) ==
  /\ Samples("rx")
  /\ RxSinkEdge(valid)
  /\ UNCHANGED <<txVars, sw, packet, asked>>

TxClock(ready) ==
  /\ Samples("tx")
  /\ TxSourceEdge(ready)
  /\ UNCHANGED <<rxVars, sw, packet, asked>>

(* user_clk drives the PCIe side of both halves. *)
UserClock(ready, valid) ==
  /\ Samples("user")
  /\ RxSourceEdge(ready)
  /\ TxSinkEdge(valid)
  /\ UNCHANGED <<sw, packet, asked>>

Next ==
  \/ Program
  \/ EndOfPulse
  \/ \E valid \in BOOLEAN : RxClock(valid)
  \/ \E ready \in BOOLEAN : TxClock(ready)
  \/ \E ready, valid \in BOOLEAN : UserClock(ready, valid)

Spec == Init /\ [][Next]_vars

(* The clocks run, the ADC has samples, the DAC and both DMA channels go    *)
(* on, and so does the program.                                             *)
Fairness ==
  /\ WF_vars(EndOfPulse)
  /\ WF_vars(RxClock(TRUE)) /\ WF_vars(TxClock(TRUE)) /\ WF_vars(UserClock(TRUE, TRUE))
  /\ WF_vars(Program)

FairSpec == Spec /\ Fairness

-----------------------------------------------------------------------------
TypeOK ==
  /\ RegistersTypeOK /\ RxTypeOK /\ TxTypeOK
  /\ sw \in {"start", "write", "writing", "words", "trigger", "collect"}
  /\ packet \in Packets \cup {0}
  /\ asked \in NumWords \cup {0}

(* The packet that answers a trigger has the length asked for, with TLAST   *)
(* on its last beat, and no beat follows it: the word the sink stores too   *)
(* many never leaves the FIFO, whatever the clocks do.                      *)
PacketIsExact == rx_length # 0 => rx_length = asked \div 2 /\ rx_beats = 0

(* A capture that fits the FIFO loses no sample, however slow the C2H       *)
(* channel is.                                                              *)
CaptureIsWhole == asked <= RxDepth => ~rx_gap

(* A playback that has stopped has played every word of the packet and none *)
(* of another.                                                              *)
PlaybackIsWhole ==
  sw = "collect" /\ ~Pulse /\ TxIdle /\ tx_played > 0 => tx_played = 2 * packet

(* The program's write(), capture and playback all come to an end, when the *)
(* H2C channel keeps TLAST low between its beats (StrayLast = FALSE): then  *)
(* the sink, which goes idle with the last beat whether it takes it or not, *)
(* and the FIFO's level, which may reach the very last place, leave no beat *)
(* behind.  A TLAST without TVALID ends the packet before it begins, and    *)
(* write() waits for ever.                                                  *)
RunReturns == sw # "start" ~> sw = "start"
=============================================================================
