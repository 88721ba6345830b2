---------------------------- MODULE ReceiptLadder ----------------------------
(***************************************************************************)
(* What the organiser sees of a message that went out: that it was         *)
(* delivered, that it was read.  The message only ever climbs, however the *)
(* provider orders, repeats or loses its reports.                          *)
(***************************************************************************)
EXTENDS Naturals

VARIABLE level        \* 0: out, 1: delivered, 2: read

Init == level = 0
Climb == level < 2 /\ level' \in (level + 1) .. 2
Spec == Init /\ [][Climb]_level
=============================================================================
