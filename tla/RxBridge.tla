------------------------------ MODULE RxBridge ------------------------------
(***************************************************************************)
(* The receive half of the bridge (..._S01_AXIS.v): after a trigger it     *)
(* stores num_words words of 128 bits of the ADC stream in a FIFO and      *)
(* sends them to the C2H channel as one packet of beats of 256 bits, two   *)
(* words each.  The sink runs on rx_core_clk, the source on user_clk.      *)
(*                                                                         *)
(* The FIFO (a Xilinx core) is modelled by its level.  While it is reset   *)
(* it takes no word, and because the reset passes its synchronisers it is  *)
(* empty until the source has seen the end of the trigger.                 *)
(***************************************************************************)
EXTENDS BridgeRegisters

CONSTANTS
  CountSize,  \* wr_count has 18 bits, rd_count 17: 2^18 words
  RxDepth     \* words the FIFO holds

ASSUME RxConstants ==
  /\ CountSize \in Nat /\ CountSize > 1 /\ CountSize % 2 = 0
  /\ RxDepth \in Nat /\ RxDepth > 1

VARIABLES
  rx_flush_s, rx_num_words_s, rx_s_state, rx_wr_count,   \* sink, rx_core_clk
  rx_flush_m, rx_num_words_m, rx_m_state, rx_rd_count,   \* source, user_clk
  rx_level                                               \* words in the FIFO

VARIABLES
  rx_beats,   \* history: beats sent since the last one with TLAST
  rx_length,  \* history: length of the packet that ended since the trigger, or 0
  rx_gap      \* history: a sample of this capture was lost

sinkVars   == <<rx_flush_s, rx_num_words_s, rx_s_state, rx_wr_count>>
sourceVars == <<rx_flush_m, rx_num_words_m, rx_m_state, rx_rd_count>>
rxVars     == <<sinkVars, sourceVars, rx_level, rx_beats, rx_length, rx_gap>>

RxInit ==
  /\ rx_flush_s = FALSE /\ rx_num_words_s = 0 /\ rx_s_state = "IDLE" /\ rx_wr_count = 0
  /\ rx_flush_m = FALSE /\ rx_num_words_m = 0 /\ rx_m_state = "IDLE" /\ rx_rd_count = 0
  /\ rx_level = 0 /\ rx_beats = 0 /\ rx_length = 0 /\ rx_gap = FALSE

-----------------------------------------------------------------------------
(* Mutant: the FIFO is left one word short of full. *)
RxTreadyEarly == rx_s_state = "WRITE_FIFO" /\ rx_level < RxDepth - 1 /\ ~rx_flush_s
RxTready == rx_s_state = "WRITE_FIFO" /\ rx_level < RxDepth /\ ~rx_flush_s

(* Mutant: the sink stops one word early. *)
AllWrittenEarly == rx_wr_count = (rx_num_words_s - 2) % CountSize
AllWritten == rx_wr_count = rx_num_words_s % CountSize

SinkState ==
  IF rx_s_state = "IDLE" THEN IF rx_flush_s THEN "WRITE_FIFO" ELSE "IDLE"
  ELSE IF AllWritten THEN "IDLE" ELSE "WRITE_FIFO"

(* An edge of rx_core_clk.  In the clock in which wr_count has reached      *)
(* num_words the sink is still ready and stores one word more.              *)
RxSinkEdge(valid) ==
  LET wren == valid /\ RxTready
  IN /\ rx_s_state' = SinkState
     /\ rx_wr_count' = IF rx_flush_s THEN 0
                       ELSE IF wren THEN (rx_wr_count + 1) % CountSize ELSE rx_wr_count
     /\ rx_level' = IF rx_flush_s \/ trigger_rx THEN 0
                    ELSE IF wren THEN rx_level + 1 ELSE rx_level
     /\ rx_gap' = /\ ~rx_flush_s
                  /\ \/ rx_gap
                     \/ valid /\ ~wren /\ rx_s_state = "WRITE_FIFO" /\ ~AllWritten
     /\ rx_flush_s' = trigger_rx
     /\ rx_num_words_s' = num_words
     /\ UNCHANGED <<sourceVars, rx_beats, rx_length>>

-----------------------------------------------------------------------------
(* Mutant: the source does not look at the FIFO's empty. *)
RxTvalidUnchecked == rx_m_state = "READ_FIFO" /\ ~rx_flush_m
RxTvalid == rx_m_state = "READ_FIFO" /\ rx_level >= 2 /\ ~rx_flush_m

(* Mutant: num_words_m_m1 is two beats less than num_words. *)
RxTlastEarly == rx_rd_count = ((rx_num_words_m - 3) % CountSize) \div 2
RxTlast == rx_rd_count = ((rx_num_words_m - 1) % CountSize) \div 2

SourceState ==
  IF rx_m_state = "IDLE" THEN IF rx_flush_m THEN "READ_FIFO" ELSE "IDLE"
  ELSE IF rx_rd_count = (rx_num_words_m % CountSize) \div 2 THEN "IDLE" ELSE "READ_FIFO"

(* An edge of user_clk; ready is the C2H channel's TREADY. *)
RxSourceEdge(ready) ==
  LET rden == ready /\ RxTvalid
  IN /\ rx_m_state' = SourceState
     /\ rx_rd_count' = IF rx_flush_m THEN 0
                       ELSE IF rden THEN (rx_rd_count + 1) % (CountSize \div 2) ELSE rx_rd_count
     /\ rx_level' = IF rden THEN rx_level - 2 ELSE rx_level
     /\ rx_beats' = IF rden THEN IF RxTlast THEN 0 ELSE rx_beats + 1 ELSE rx_beats
     /\ rx_length' = IF rden /\ RxTlast THEN rx_beats + 1 ELSE rx_length
     /\ rx_flush_m' = trigger_rx
     /\ rx_num_words_m' = num_words
     /\ UNCHANGED <<sinkVars, rx_gap>>

RxIdle == rx_s_state = "IDLE" /\ rx_m_state = "IDLE" /\ ~rx_flush_s /\ ~rx_flush_m

RxTypeOK ==
  /\ rx_flush_s \in BOOLEAN /\ rx_flush_m \in BOOLEAN /\ rx_gap \in BOOLEAN
  /\ rx_num_words_s \in Nat /\ rx_num_words_m \in Nat
  /\ rx_s_state \in {"IDLE", "WRITE_FIFO"} /\ rx_m_state \in {"IDLE", "READ_FIFO"}
  /\ rx_wr_count \in 0..(CountSize - 1) /\ rx_rd_count \in 0..(CountSize \div 2 - 1)
  /\ rx_level \in 0..RxDepth
  /\ rx_beats \in Nat /\ rx_length \in Nat
=============================================================================
