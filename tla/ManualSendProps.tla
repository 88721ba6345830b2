---------------------------- MODULE ManualSendProps ----------------------------
(* What a manual send promises to those who get it, and to the phone it leaves from. *)
EXTENDS ManualSend

\* The type of every variable of the manual sends.
TypeOKSend ==
  /\ gate \in BOOLEAN /\ now \in Nat /\ slot \in Nat /\ breaks \in Nat
  /\ batching \in [SendIds -> [at : {"idle", "send", "answered"}, input : SendInputs \cup {None},
                               left : SUBSET Nat, queued : Nat, batch : Nat, inner : Nat]]
  /\ \A m \in outbox : m.send \in SendIds /\ m.target # None /\ m.plan \in Nat

\* Two messages of one send go to two people, and two WhatsApp messages are planned at
\* least the shortest delay apart, also across the boundary of two batches, where the
\* delay inside the batch begins again; with the gate, at least the gap of the cursor.
ManualSpacing ==
  \A m, n \in outbox : m.send = n.send /\ m # n =>
    /\ m.target # n.target
    /\ m.channel = "whatsapp" =>
         LET gap == IF gate THEN PaceMin ELSE WaMinDelay IN
         m.plan + gap <= n.plan \/ n.plan + gap <= m.plan
=============================================================================
