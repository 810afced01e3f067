----------------------------- MODULE DmaService -----------------------------
(***************************************************************************)
(* What an SG DMA engine promises to its callers: transfers are moved one  *)
(* at a time in the order they were submitted, each of them eventually     *)
(* and once, and a caller takes its transfer back only after it was moved. *)
(***************************************************************************)
EXTENDS Sequences

CONSTANT Xfer

VARIABLES
  pending,  \* submitted transfers that were not moved, oldest first
  done      \* transfers moved and not yet taken back

vars == <<pending, done>>

Waiting == {pending[i] : i \in DOMAIN pending}

Init == pending = << >> /\ done = {}

Submit(x) ==
  /\ x \notin Waiting \cup done
  /\ pending' = Append(pending, x)
  /\ UNCHANGED done

Move ==
  /\ pending # << >>
  /\ pending' = Tail(pending)
  /\ done' = done \cup {Head(pending)}

TakeBack(x) ==
  /\ x \in done
  /\ done' = done \ {x}
  /\ UNCHANGED pending

Next == Move \/ \E x \in Xfer : Submit(x) \/ TakeBack(x)

Safety == Init /\ [][Next]_vars
Progress == WF_vars(Move)
Spec == Safety /\ Progress
=============================================================================
