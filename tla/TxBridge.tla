------------------------------ MODULE TxBridge ------------------------------
(***************************************************************************)
(* The transmit half of the bridge (..._M00_AXIS.v): after a flush it      *)
(* takes a packet of 256-bit beats from the H2C channel into a FIFO, after *)
(* a trigger it plays the FIFO to the DAC as 128-bit words.  The sink runs *)
(* on user_clk, the source on tx_core_clk.                                 *)
(***************************************************************************)
EXTENDS BridgeRegisters

CONSTANTS
  TxDepth,   \* beats the FIFO holds
  StrayLast  \* the H2C channel may hold TLAST high while TVALID is low

ASSUME TxConstants == TxDepth \in Nat \ {0} /\ StrayLast \in BOOLEAN

VARIABLES
  tx_flush_s, tx_s_state,   \* sink, user_clk
  tx_start_m, tx_m_state,   \* source, tx_core_clk
  tx_level,                 \* words in the FIFO
  tx_left                   \* beats of the H2C transfer that were not accepted

VARIABLE tx_played          \* history: words played since the last flush

txVars == <<tx_flush_s, tx_s_state, tx_start_m, tx_m_state, tx_level, tx_left, tx_played>>

TxInit ==
  /\ tx_flush_s = FALSE /\ tx_s_state = "IDLE"
  /\ tx_start_m = FALSE /\ tx_m_state = "IDLE"
  /\ tx_level = 0 /\ tx_left = 0 /\ tx_played = 0

-----------------------------------------------------------------------------
(* Mutant: the FIFO is left one beat short of full. *)
TxTreadyEarly == tx_s_state = "WRITE_FIFO" /\ tx_level + 4 <= 2 * TxDepth /\ ~tx_flush_s
TxTready == tx_s_state = "WRITE_FIFO" /\ tx_level + 2 <= 2 * TxDepth /\ ~tx_flush_s

(* TLAST as the H2C channel may drive it: with TVALID it marks the last     *)
(* beat, without it means nothing.                                          *)
TxTlast(valid) ==
  IF valid /\ tx_left > 0 THEN {tx_left = 1} ELSE IF StrayLast THEN BOOLEAN ELSE {FALSE}

(* An edge of user_clk.  The sink leaves its state when TLAST is high,      *)
(* whether the beat is accepted or not and whether there is one or not.     *)
TxSinkEdge(valid) ==
  LET wren == valid /\ tx_left > 0 /\ TxTready
  IN /\ \E last \in TxTlast(valid) :
          tx_s_state' = IF tx_s_state = "IDLE" THEN IF tx_flush_s THEN "WRITE_FIFO" ELSE "IDLE"
                        ELSE IF last THEN "IDLE" ELSE "WRITE_FIFO"
     /\ tx_level' = IF tx_flush_s \/ flush THEN 0
                    ELSE IF wren THEN tx_level + 2 ELSE tx_level
     /\ tx_left' = IF wren THEN tx_left - 1 ELSE tx_left
     /\ tx_played' = IF tx_flush_s THEN 0 ELSE tx_played
     /\ tx_flush_s' = flush
     /\ UNCHANGED <<tx_start_m, tx_m_state>>

-----------------------------------------------------------------------------
(* Mutant: a DAC that is not ready ends the playback. *)
PlaybackEndsNotReady(ready) == tx_level = 0 \/ ~ready
PlaybackEnds(ready) == tx_level = 0

(* An edge of tx_core_clk; ready is the DAC's TREADY.  The source returns   *)
(* to IDLE as soon as the FIFO is empty.                                    *)
TxSourceEdge(ready) ==
  LET rden == ready /\ tx_m_state = "READ_FIFO" /\ tx_level > 0
  IN /\ tx_m_state' = IF tx_m_state = "IDLE" THEN IF tx_start_m THEN "READ_FIFO" ELSE "IDLE"
                      ELSE IF PlaybackEnds(ready) THEN "IDLE" ELSE "READ_FIFO"
     /\ tx_level' = IF rden THEN tx_level - 1 ELSE tx_level
     /\ tx_played' = IF rden THEN tx_played + 1 ELSE tx_played
     /\ tx_start_m' = trigger_tx
     /\ UNCHANGED <<tx_flush_s, tx_s_state, tx_left>>

TxIdle == tx_m_state = "IDLE" /\ ~tx_start_m

TxTypeOK ==
  /\ tx_flush_s \in BOOLEAN /\ tx_start_m \in BOOLEAN
  /\ tx_s_state \in {"IDLE", "WRITE_FIFO"} /\ tx_m_state \in {"IDLE", "READ_FIFO"}
  /\ tx_level \in 0..(2 * TxDepth)
  /\ tx_left \in Nat /\ tx_played \in Nat
=============================================================================
