----------------------------- MODULE AtLeastOnce -----------------------------
(***************************************************************************)
(* What dispatching promises to the organiser of an event, with no word on *)
(* rows, jobs or workers: the pieces of a message reach the provider for   *)
(* the first time in order, and a message counts as done only once all of  *)
(* its pieces have.  A message may cease to count as done (the provider    *)
(* reports that the delivery failed); nothing is ever un-delivered.        *)
(***************************************************************************)
CONSTANTS
  Messages,
  Pieces(_),       \* the pieces of a message
  Before(_, _)     \* the pieces that go out before a piece of the message

VARIABLES
  delivered,       \* pairs <<message, piece>>
  done             \* messages that count as sent

Init == delivered = {} /\ done = {}

Deliver(m, p) ==
  /\ \A q \in Before(m, p) : <<m, q>> \in delivered
  /\ delivered' = delivered \cup {<<m, p>>}
  /\ UNCHANGED done

Confirm(m) ==
  /\ \A p \in Pieces(m) : <<m, p>> \in delivered
  /\ done' = done \cup {m}
  /\ UNCHANGED delivered

Reopen(m) ==
  /\ done' = done \ {m}
  /\ UNCHANGED delivered

Next == \E m \in Messages : \/ \E p \in Pieces(m) : Deliver(m, p)
                            \/ Confirm(m)
                            \/ Reopen(m)

Spec == Init /\ [][Next]_<<delivered, done>>
=============================================================================
