--------------------------- MODULE BridgeRegisters ---------------------------
(***************************************************************************)
(* The registers of the FPGA's JESD204B-PCIe bridge                        *)
(* (JESD204B_PCIE_BRIDGE_v1_0_S00_AXI.v): software writes them over        *)
(* AXI-Lite; num_words is kept, the triggers and flush are pulses of one   *)
(* AXI clock.  That clock has 100 MHz (bd.tcl) and the clocks of the       *)
(* streams 250 MHz, so every stream clock samples a pulse at least once.   *)
(***************************************************************************)
EXTENDS Integers

VARIABLES
  num_words,                    \* slv_reg0
  trigger_rx, trigger_tx,       \* slv_reg1[0], slv_reg1[1]
  flush,                        \* slv_reg2[0]
  sampled                       \* the stream clocks that had an edge in this pulse

registerVars == <<num_words, trigger_rx, trigger_tx, flush, sampled>>

Clock == {"rx", "tx", "user"}
Pulse == trigger_rx \/ trigger_tx \/ flush

RegistersInit ==
  /\ num_words = 0
  /\ trigger_rx = FALSE /\ trigger_tx = FALSE /\ flush = FALSE
  /\ sampled = {}

WriteNumWords(n) ==
  /\ ~Pulse
  /\ num_words' = n
  /\ UNCHANGED <<trigger_rx, trigger_tx, flush, sampled>>

WriteTrigger ==
  /\ ~Pulse
  /\ trigger_rx' = TRUE /\ trigger_tx' = TRUE
  /\ UNCHANGED <<num_words, flush, sampled>>

WriteFlush ==
  /\ ~Pulse
  /\ flush' = TRUE
  /\ UNCHANGED <<num_words, trigger_rx, trigger_tx, sampled>>

(* The next AXI clock without a write. *)
PulseEnds ==
  /\ Pulse /\ sampled = Clock
  /\ trigger_rx' = FALSE /\ trigger_tx' = FALSE /\ flush' = FALSE
  /\ sampled' = {}
  /\ UNCHANGED num_words

(* What an edge of a stream clock does here: it may have seen a pulse. *)
Samples(clock) ==
  /\ sampled' = IF Pulse THEN sampled \cup {clock} ELSE sampled
  /\ UNCHANGED <<num_words, trigger_rx, trigger_tx, flush>>

RegistersTypeOK ==
  /\ num_words \in Nat
  /\ trigger_rx \in BOOLEAN /\ trigger_tx \in BOOLEAN /\ flush \in BOOLEAN
  /\ sampled \subseteq Clock
=============================================================================
