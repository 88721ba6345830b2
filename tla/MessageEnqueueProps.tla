------------------------ MODULE MessageEnqueueProps ------------------------
(***************************************************************************)
(* What enqueueing promises: reserved slots and the jobs that got them are *)
(* spread out, and a call that returned normally has left a job behind.    *)
(***************************************************************************)
EXTENDS MessageEnqueue

\* Every variable has its type (rows, jobs and cursors of OutboxService and
\* WhatsappPacingService).
TypeOK ==
  /\ clock \in Nat
  /\ row \in [Keys -> Statuses]
  /\ job \in [Keys -> JobStates]
  /\ runAt \in [Keys -> Nat]
  /\ retries \in [Keys -> Nat]
  /\ unpaced \in [Keys -> BOOLEAN]
  /\ cursor \in [Instances -> [slot : Nat, expires : Nat]]
  /\ at \in [Callers -> Steps]
  /\ readAt \in [Callers -> Nat]
  /\ delay \in [Callers -> Nat]
  /\ held \in [Callers -> Nat]
  /\ taken \in [Instances -> [count : Nat, last : Nat]]
  /\ slotOf \in [Keys -> Nat]

\* A slot is reserved at least the minimal gap after the one reserved before it on
\* the instance, whoever reserves (calls of any process, the gate of the worker) and
\* whether or not the cursor expired in between.
SlotsAreSpaced ==
  [][\A i \in Instances :
       taken'[i] # taken[i] => \/ taken[i].count = 0
                               \/ taken'[i].last >= taken[i].last + GapMin]_vars

\* The batch offset of a first attempt; a retry is moved to the bare slot.
Offset(k) == IF GateEnabled /\ retries[k] = 0 THEN ExtraDelay[k] ELSE 0

\* Two messages of one instance whose jobs carry slots, with the same offset, are
\* due a gap apart, save what the later call lost between the script and the add.
SpreadApart(a, b) ==
  slotOf[a] <= slotOf[b] => runAt[b] + MaxLag >= runAt[a] + GapMin
ReservedJobsSpread ==
  \A a, b \in Keys :
    /\ a # b /\ InstanceOf[a] = InstanceOf[b]
    /\ slotOf[a] > 0 /\ slotOf[b] > 0 /\ Offset(a) = Offset(b)
    => SpreadApart(a, b)

\* A call that returned after its add has left a job, or the message has been
\* attempted: what an earlier call for the same key left undone (it died, or Redis
\* failed it) is repaired by the next one that gets through.
DoneMeansQueued ==
  \A r \in Requests :
    at[r] = "done" => job[KeyOf[r]] # "none" \/ row[KeyOf[r]] \in {"sent", "failed"}

\* What the header of whatsapp-pacing.service.ts:9-19 says of an instance's
\* messages to different contacts: their first attempts are due a gap apart.
FirstAttempt(k) == job[k] = "delayed" /\ retries[k] = 0 /\ row[k] = "pending"
ContactsAreSpaced ==
  \A a, b \in Keys :
    /\ a # b /\ InstanceOf[a] = InstanceOf[b] /\ InstanceOf[a] # NoInstance
    /\ FirstAttempt(a) /\ FirstAttempt(b) /\ runAt[a] <= runAt[b]
    => runAt[b] + MaxLag >= runAt[a] + GapMin
=============================================================================
