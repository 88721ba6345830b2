------------------------- MODULE MCMessageDispatch -------------------------
(* Instances of MessageDispatch for TLC: one WhatsApp message and one e-mail. *)
EXTENDS MessageDispatchProps
CONSTANTS wa, em, w1, w2
TwoParts == [m \in Msgs |-> 2]
OnePart == [m \in Msgs |-> 1]
AllFaults == FaultKinds
=============================================================================
