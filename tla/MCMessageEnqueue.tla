-------------------------- MODULE MCMessageEnqueue --------------------------
EXTENDS MessageEnqueueProps

\* r1 and r2 are the same message, enqueued by two replicas or by two ticks.
MCKeyOf == [r \in Requests |-> IF r \in {"r1", "r2"} THEN "k1" ELSE IF r = "r3" THEN "k2" ELSE "k3"]

\* k3 is an e-mail; the others go out through one instance.
MCInstanceOf == [k \in Keys |-> IF k = "k3" THEN NoInstance ELSE "i1"]
MCOwnDelay == [r \in Requests |-> 0]
MCExtraDelay == [k \in Keys |-> 1]
=============================================================================
