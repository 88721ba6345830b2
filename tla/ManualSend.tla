------------------------------ MODULE ManualSend ------------------------------
(***************************************************************************)
(* A message written by hand to a list of people                           *)
(* (application/outbox_module/manual-send.service.ts).                     *)
(*                                                                         *)
(* The whole list is put in the outbox by one request, a person at a time. *)
(* What keeps the phone from being banned is arithmetic done on the way:   *)
(* a delay inside the batch, reset for every batch, and a gap between      *)
(* batches.  With the dispatch gate on, the delay inside the batch gives   *)
(* way to a slot of the pacing cursor that everybody shares (see           *)
(* MessageEnqueue, which has the calls interleave inside a reservation).   *)
(***************************************************************************)
EXTENDS Integers, FiniteSets, Sequences, Nulls

CONSTANTS
  SendIds,              \* requests to send
  SendInputs,           \* what a request may hold: see Accepted
  WaMinDelay, WaMaxDelay,   \* WA_MIN_DELAY_MS, WA_MAX_DELAY_MS
  BatchSize,            \* MANUAL_BATCH_SIZE
  BatchMinDelay, BatchMaxDelay, \* MANUAL_BATCH_MIN_DELAY_MS, MANUAL_BATCH_MAX_DELAY_MS
  PaceMin, PaceMax,     \* the gap between two slots of the pacing cursor
  MaxNow, MaxBreaks     \* bounds: the clock, calls of enqueue that fail

\* What env.validation.ts asks of the settings.  It does not ask for the last line: a
\* batch is over before the next one may begin.
ASSUME SettingsAssumption ==
  /\ WaMinDelay \in Nat /\ WaMaxDelay \in Nat /\ WaMinDelay <= WaMaxDelay
  /\ BatchSize \in Nat \ {0} /\ BatchMinDelay \in Nat /\ BatchMaxDelay \in Nat
  /\ PaceMin \in Nat /\ PaceMax \in Nat /\ MaxNow \in Nat /\ MaxBreaks \in Nat
  /\ BatchSize * WaMaxDelay <= BatchMinDelay

\* The people of a request are a list.
ASSUME InputsAssumption == \A i \in SendInputs : DOMAIN i.people \subseteq Nat \ {0}

VARIABLES
  gate,       \* DISPATCH_GATE_ENABLED
  now,
  slot,       \* the pacing cursor of the instance
  batching,   \* the locals of each request
  outbox,     \* what was enqueued: for whom, and the instant it is planned for
  breaks

sendVars == <<gate, now, slot, batching, outbox, breaks>>

NoSend == [at |-> "idle", input |-> None, left |-> {}, queued |-> 0, batch |-> 0, inner |-> 0]

InitSend ==
  /\ gate \in BOOLEAN /\ now = 0 /\ slot = 0 /\ outbox = {} /\ breaks = 0
  /\ batching = [s \in SendIds |-> NoSend]

\* The checks of send(); whoever sends by WhatsApp has an instance with a token, his own
\* or the event's.
Accepted(i) ==
  /\ i.registrations => i.event # "none"
  /\ i.groups => i.channel = "whatsapp"
  /\ i.invite # "invalid" /\ i.file # "foreign"
  /\ i.instance \in {"none", "allowed"}
  /\ i.event \in {"none", "mine", "mine with token"}
  /\ i.template \in {"none", i.channel}
  /\ i.body \/ i.template # "none"
  /\ i.people # <<>>
  /\ i.channel = "whatsapp" => i.instance = "allowed" \/ i.event = "mine with token"

\* The places of the list that are served: with a target, and the first with it.
ServedPlaces(people) ==
  {p \in DOMAIN people : people[p] # None /\ \A o \in 1 .. p - 1 : people[o] # people[p]}

ReceiveSend(s) ==
  \E i \in SendInputs :
    /\ batching[s].at = "idle"
    /\ batching' = [batching EXCEPT ![s] =
         IF Accepted(i) THEN [NoSend EXCEPT !.at = "send", !.input = i, !.left = ServedPlaces(i.people)]
         ELSE [NoSend EXCEPT !.at = "answered"]]
    /\ UNCHANGED <<gate, now, slot, outbox, breaks>>

Serves(s) == batching[s].at = "send" /\ batching[s].left # {}
WhatsApp(s) == batching[s].input.channel = "whatsapp"
NextPlace(s) == CHOOSE p \in batching[s].left : \A o \in batching[s].left : p <= o
OpensBatch(s) == batching[s].queued > 0 /\ batching[s].queued % BatchSize = 0

\* The two cursors of the loop.
NoGap(s) == {batching[s].batch}
BatchDelays(s) == {batching[s].batch + (IF OpensBatch(s) /\ WhatsApp(s) THEN gap ELSE 0) :
                     gap \in BatchMinDelay .. BatchMaxDelay}
InnerDelays(s) ==
  IF WhatsApp(s) THEN {(IF OpensBatch(s) THEN 0 ELSE batching[s].inner) + d :
                         d \in WaMinDelay .. WaMaxDelay}
  ELSE {0}

NextSlot(g) == (IF slot > now THEN slot ELSE now) + g

Queue(s, batch, inner, plan) ==
  LET p == NextPlace(s) IN
  /\ outbox' = outbox \cup {[send |-> s, target |-> batching[s].input.people[p],
                                channel |-> batching[s].input.channel, plan |-> plan]}
  /\ batching' = [batching EXCEPT ![s].left = batching[s].left \ {p},
                    ![s].queued = batching[s].queued + 1, ![s].batch = batch, ![s].inner = inner]
  /\ UNCHANGED <<gate, now, breaks>>

\* The delays add up; an e-mail waits for nothing.
QueueDelayed(s) ==
  /\ Serves(s) /\ ~(gate /\ WhatsApp(s)) /\ UNCHANGED slot
  /\ \E b \in BatchDelays(s), d \in InnerDelays(s) :
       Queue(s, b, d, now + (IF WhatsApp(s) THEN b + d ELSE 0))

\* paceInstancia and extraDelayMs: a slot, and the gaps between batches on top.
QueuePaced(s) ==
  /\ Serves(s) /\ gate /\ WhatsApp(s)
  /\ \E b \in BatchDelays(s), d \in InnerDelays(s), g \in PaceMin .. PaceMax :
       /\ slot' = NextSlot(g)
       /\ Queue(s, b, d, NextSlot(g) + b)

SendEnds(s) ==
  /\ batching[s].at = "send" /\ batching[s].left = {}
  /\ batching' = [batching EXCEPT ![s] = [NoSend EXCEPT !.at = "answered"]]
  /\ UNCHANGED <<gate, now, slot, outbox, breaks>>

\* enqueue throws, or the process dies: those who are left get nothing.
SendBreaks(s) ==
  /\ batching[s].at = "send" /\ breaks < MaxBreaks /\ breaks' = breaks + 1
  /\ batching' = [batching EXCEPT ![s] = [NoSend EXCEPT !.at = "answered"]]
  /\ UNCHANGED <<gate, now, slot, outbox>>

TimePasses ==
  /\ now < MaxNow /\ now' = now + 1
  /\ UNCHANGED <<gate, slot, batching, outbox, breaks>>

NextSend ==
  \/ \E s \in SendIds : \/ ReceiveSend(s) \/ QueueDelayed(s) \/ QueuePaced(s)
                        \/ SendEnds(s) \/ SendBreaks(s)
  \/ TimePasses

SpecSend == InitSend /\ [][NextSend]_sendVars
=============================================================================
