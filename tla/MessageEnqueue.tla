--------------------------- MODULE MessageEnqueue ---------------------------
(***************************************************************************)
(* How a message gets from a caller to the dispatch queue:                 *)
(* OutboxService.enqueue (application/outbox_module/outbox.service.ts),    *)
(* the WhatsApp pacing cursor kept in Redis (whatsapp-pacing.service.ts)   *)
(* and the gate of the worker that paces retries through the same cursor.  *)
(*                                                                         *)
(* A call makes three awaits, on two stores: insert the outbox row, reserve*)
(* a slot, add the job.  Calls of several processes interleave between     *)
(* them, and two calls may be for the same message (two replicas sweeping  *)
(* one rule, or a tick that retries a rule).  Time is discrete; MaxLag     *)
(* bounds how long a call takes from reading the clock to its last await.  *)
(***************************************************************************)
EXTENDS Naturals

CONSTANTS
  Requests,     \* calls of enqueue
  Keys,         \* dedup keys: the messages
  Instances,    \* WhatsApp instances, one pacing cursor each
  NoInstance,
  KeyOf,        \* KeyOf[r]: data.dedupKey
  InstanceOf,   \* InstanceOf[k]: opts.paceInstancia of a whatsapp message, or NoInstance
  OwnDelay,     \* OwnDelay[r]: opts.delayMs (0: unset)
  ExtraDelay,   \* ExtraDelay[k]: opts.extraDelayMs (0: unset)
  GateEnabled,  \* DISPATCH_GATE_ENABLED
  GapMin, GapMax,  \* WA_AUTOMATION_GAP_MIN_MS, WA_AUTOMATION_GAP_MAX_MS
  Slack,        \* how long a cursor outlives its slot (60_000 in the script)
  Backoff,      \* delay before a retry
  MaxRetries,   \* bound: failed attempts of a message before BullMQ gives up
  MaxLag,       \* bound: clock ticks during a call
  Faults        \* the faults the environment may inject

FaultKinds == {"reserve", "add", "crash", "attempt"}

ASSUME KeyAssumption ==
  /\ NoInstance \notin Instances
  /\ Requests \cap Keys = {}
  /\ KeyOf \in [Requests -> Keys]
  /\ InstanceOf \in [Keys -> Instances \cup {NoInstance}]
  /\ OwnDelay \in [Requests -> Nat]
  /\ ExtraDelay \in [Keys -> Nat]
ASSUME TimeAssumption ==
  /\ GapMin \in Nat \ {0} /\ GapMax \in Nat /\ GapMin <= GapMax
  /\ Slack \in Nat /\ Backoff \in Nat /\ MaxRetries \in Nat
  /\ MaxLag \in Nat /\ MaxLag <= Slack
  /\ GateEnabled \in BOOLEAN
  /\ Faults \subseteq FaultKinds

VARIABLES
  clock,
  row,       \* row[k]: "none", or the status of the outbox row with that dedup key
  job,       \* job[k]: where the job with that id is
  runAt,     \* runAt[k]: when its delay is over
  retries,   \* retries[k]: its failed attempts (attemptsMade)
  unpaced,   \* unpaced[k]: its data.pacedForAttempt is not attemptsMade
  cursor,    \* cursor[i]: the key wa:pacing:<instance>, with its expiry
  at,        \* the await a call, or the gate for a message, is about to make
  readAt,    \* the Date.now() it has read (an unpaced call: when it began)
  delay,     \* the delay it is going to add the job with
  taken,     \* history: how many slots were reserved per instance, and the last one
  held,      \* history: the number of the slot a call or gate holds (0: none)
  slotOf     \* history: the number of the slot the job was added with (0: none)

queueVars == <<job, runAt, retries, unpaced>>
callVars  == <<at, readAt, delay, held>>
vars == <<clock, row, queueVars, cursor, callVars, taken, slotOf>>

-----------------------------------------------------------------------------
Statuses  == {"none", "pending", "sent", "failed"}
JobStates == {"none", "delayed", "active", "completed", "failed"}
Steps     == {"idle", "pace", "reserve", "add", "done", "lost"}

\* A call of enqueue, or the worker's gate, which is named after its message.
Callers == Requests \cup Keys
KeyFor(c) == IF c \in Requests THEN KeyOf[c] ELSE c
Underway(c) == at[c] \in {"pace", "reserve", "add"}

\* Only a new WhatsApp message is paced: with the gate always, without it only
\* when the caller set no delay of its own.
Paces(r) == /\ InstanceOf[KeyOf[r]] # NoInstance
            /\ GateEnabled \/ OwnDelay[r] = 0

NoCursor == [slot |-> 0, expires |-> 0]

\* GET of a key that may have expired.
LastSlot(i) == IF clock < cursor[i].expires THEN cursor[i].slot ELSE 0

\* The call, or the gate, ends in the given way; its locals are dropped.
End(c, how) ==
  /\ at' = [at EXCEPT ![c] = how]
  /\ readAt' = [readAt EXCEPT ![c] = 0]
  /\ delay' = [delay EXCEPT ![c] = 0]
  /\ held' = [held EXCEPT ![c] = 0]

-----------------------------------------------------------------------------
Init ==
  /\ clock = 1
  /\ row = [k \in Keys |-> "none"]
  /\ job = [k \in Keys |-> "none"]
  /\ runAt = [k \in Keys |-> 0]
  /\ retries = [k \in Keys |-> 0]
  /\ unpaced = [k \in Keys |-> FALSE]
  /\ cursor = [i \in Instances |-> NoCursor]
  /\ at = [c \in Callers |-> "idle"]
  /\ readAt = [c \in Callers |-> 0]
  /\ delay = [c \in Callers |-> 0]
  /\ held = [c \in Callers |-> 0]
  /\ taken = [i \in Instances |-> [count |-> 0, last |-> 0]]
  /\ slotOf = [k \in Keys |-> 0]

\* outboxRepo.enqueue: insert, or find the row that holds the dedup key already.
CreateRow(r) ==
  /\ at[r] = "idle"
  /\ IF row[KeyOf[r]] = "none"
     THEN /\ row' = [row EXCEPT ![KeyOf[r]] = "pending"]
          /\ at' = [at EXCEPT ![r] = IF Paces(r) THEN "pace" ELSE "add"]
     ELSE /\ at' = [at EXCEPT ![r] = "add"]
          /\ UNCHANGED row
  /\ readAt' = [readAt EXCEPT ![r] = clock]
  /\ delay' = [delay EXCEPT ![r] = OwnDelay[r]]
  /\ UNCHANGED <<clock, queueVars, cursor, held, taken, slotOf>>

\* nextDelayMs reads the clock before it awaits the Redis client and the script.
ReadClock(c) ==
  /\ at[c] = "pace"
  /\ readAt' = [readAt EXCEPT ![c] = clock]
  /\ at' = [at EXCEPT ![c] = "reserve"]
  /\ UNCHANGED <<clock, row, queueVars, cursor, delay, held, taken, slotOf>>

\* RESERVE_SLOT_LUA, atomic in Redis: the slot is a gap after the later of the
\* caller's clock and the last slot.  The worker's gate notes the attempt it
\* reserved for; a call adds the offset of its batch.
SlotAfterNow(c, gap) == readAt[c] + gap
SlotFor(c, gap) ==
  LET last == LastSlot(InstanceOf[KeyFor(c)])
  IN  (IF last > readAt[c] THEN last ELSE readAt[c]) + gap
KeepsUntilSlot(slot, now) == clock + (slot - now)
CursorExpiry(slot, now) == clock + (slot - now) + Slack

Reserve(c) ==
  /\ at[c] = "reserve"
  /\ \E gap \in GapMin .. GapMax :
       LET i == InstanceOf[KeyFor(c)]
           slot == SlotFor(c, gap)
       IN  /\ cursor' = [cursor EXCEPT ![i] =
                [slot |-> slot, expires |-> CursorExpiry(slot, readAt[c])]]
           /\ taken' = [taken EXCEPT ![i] = [count |-> @.count + 1, last |-> slot]]
           /\ held' = [held EXCEPT ![c] = taken[i].count + 1]
           /\ delay' = [delay EXCEPT ![c] = (slot - readAt[c]) +
                IF c \in Requests /\ GateEnabled THEN ExtraDelay[KeyFor(c)] ELSE 0]
  /\ unpaced' = IF c \in Keys THEN [unpaced EXCEPT ![c] = FALSE] ELSE unpaced
  /\ at' = [at EXCEPT ![c] = "add"]
  /\ UNCHANGED <<clock, row, job, runAt, retries, readAt, slotOf>>

\* dispatchQueue.add: a no-op while the queue keeps a job with this id.
AddIfNew(r) ==
  /\ at[r] = "add"
  /\ End(r, "done")
  /\ IF job[KeyOf[r]] = "none" /\ held[r] # 0
     THEN /\ job' = [job EXCEPT ![KeyOf[r]] = "delayed"]
          /\ runAt' = [runAt EXCEPT ![KeyOf[r]] = clock + delay[r]]
          /\ retries' = [retries EXCEPT ![KeyOf[r]] = 0]
          /\ unpaced' = [unpaced EXCEPT ![KeyOf[r]] = FALSE]
          /\ slotOf' = [slotOf EXCEPT ![KeyOf[r]] = held[r]]
     ELSE UNCHANGED <<queueVars, slotOf>>
  /\ UNCHANGED <<clock, row, cursor, taken>>
AddJob(r) ==
  /\ at[r] = "add"
  /\ End(r, "done")
  /\ IF job[KeyOf[r]] = "none"
     THEN /\ job' = [job EXCEPT ![KeyOf[r]] = "delayed"]
          /\ runAt' = [runAt EXCEPT ![KeyOf[r]] = clock + delay[r]]
          /\ retries' = [retries EXCEPT ![KeyOf[r]] = 0]
          /\ unpaced' = [unpaced EXCEPT ![KeyOf[r]] = FALSE]
          /\ slotOf' = [slotOf EXCEPT ![KeyOf[r]] = held[r]]
     ELSE UNCHANGED <<queueVars, slotOf>>
  /\ UNCHANGED <<clock, row, cursor, taken>>

\* The call ends without its job: Redis fails the reservation and the error leaves
\* enqueue, the add fails and is logged and swallowed, or the process dies.  (A
\* failure before the row is inserted is a call that was not made.)
Lose(r) ==
  /\ \/ "reserve" \in Faults /\ at[r] \in {"pace", "reserve"}
     \/ "add" \in Faults /\ at[r] = "add"
     \/ "crash" \in Faults /\ Underway(r)
  /\ End(r, "lost")
  /\ UNCHANGED <<clock, row, queueVars, cursor, taken, slotOf>>

-----------------------------------------------------------------------------
(* The worker, seen from the queue. *)

\* The delay of a job is over.  A retry that was not paced goes to the gate.
Take(k) ==
  /\ job[k] = "delayed" /\ clock >= runAt[k]
  /\ job' = [job EXCEPT ![k] = "active"]
  /\ at' = [at EXCEPT ![k] =
       IF GateEnabled /\ InstanceOf[k] # NoInstance /\ unpaced[k] /\ row[k] # "sent"
       THEN "pace" ELSE "idle"]
  /\ UNCHANGED <<clock, row, runAt, retries, unpaced, cursor, readAt, delay, held, taken, slotOf>>

\* The gate moves the job back to the delayed set, at the slot it reserved.
MoveByDelayOnly(k) ==
  /\ at[k] = "add"
  /\ End(k, "idle")
  /\ job' = [job EXCEPT ![k] = "delayed"]
  /\ runAt' = [runAt EXCEPT ![k] = delay[k]]
  /\ slotOf' = [slotOf EXCEPT ![k] = held[k]]
  /\ UNCHANGED <<clock, row, retries, unpaced, cursor, taken>>
MoveToDelayed(k) ==
  /\ at[k] = "add"
  /\ End(k, "idle")
  /\ job' = [job EXCEPT ![k] = "delayed"]
  /\ runAt' = [runAt EXCEPT ![k] = clock + delay[k]]
  /\ slotOf' = [slotOf EXCEPT ![k] = held[k]]
  /\ UNCHANGED <<clock, row, retries, unpaced, cursor, taken>>

\* The attempt succeeds, or finds the row sent already.
Succeed(k) ==
  /\ job[k] = "active" /\ at[k] = "idle"
  /\ job' = [job EXCEPT ![k] = "completed"]
  /\ row' = [row EXCEPT ![k] = "sent"]
  /\ UNCHANGED <<clock, runAt, retries, unpaced, cursor, callVars, taken, slotOf>>

\* The attempt fails, in the gate or after it: back off and retry, or give up.
Fail(k) ==
  /\ "attempt" \in Faults
  /\ job[k] = "active" /\ row[k] # "sent"
  /\ End(k, "idle")
  /\ slotOf' = [slotOf EXCEPT ![k] = 0]
  /\ row' = [row EXCEPT ![k] = IF at[k] = "idle" THEN "failed" ELSE row[k]]
  /\ IF retries[k] < MaxRetries
     THEN /\ job' = [job EXCEPT ![k] = "delayed"]
          /\ runAt' = [runAt EXCEPT ![k] = clock + Backoff]
          /\ retries' = [retries EXCEPT ![k] = @ + 1]
          /\ unpaced' = [unpaced EXCEPT ![k] = TRUE]
     ELSE /\ job' = [job EXCEPT ![k] = "failed"]
          /\ UNCHANGED <<runAt, retries, unpaced>>
  /\ UNCHANGED <<clock, cursor, taken>>

\* removeOnComplete, removeOnFail: the queue forgets the job and its id.
Remove(k) ==
  /\ job[k] \in {"completed", "failed"}
  /\ job' = [job EXCEPT ![k] = "none"]
  /\ UNCHANGED <<clock, row, runAt, retries, unpaced, cursor, callVars, taken, slotOf>>

-----------------------------------------------------------------------------
\* Time passes, as long as it makes a difference to a job or to a cursor.
Tick ==
  /\ \/ \E k \in Keys : job[k] = "delayed" /\ clock < runAt[k]
     \/ \E i \in Instances : clock < cursor[i].expires
  /\ \A c \in Callers : at[c] \in {"reserve", "add"} => clock - readAt[c] < MaxLag
  /\ clock' = clock + 1
  /\ UNCHANGED <<row, queueVars, cursor, callVars, taken, slotOf>>

Proceed(r) == CreateRow(r) \/ ReadClock(r) \/ Reserve(r) \/ AddJob(r)
Work(k) == Take(k) \/ ReadClock(k) \/ Reserve(k) \/ MoveToDelayed(k) \/ Succeed(k)

Next ==
  \/ \E r \in Requests : Proceed(r) \/ Lose(r)
  \/ \E k \in Keys : Work(k) \/ Fail(k) \/ Remove(k)
  \/ Tick

Spec == Init /\ [][Next]_vars
=============================================================================
