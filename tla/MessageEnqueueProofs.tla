------------------------ MODULE MessageEnqueueProofs ------------------------
(***************************************************************************)
(* Proofs about MessageEnqueue, for any number of calls, messages and      *)
(* instances, any gaps and any latency up to Slack.                        *)
(*                                                                         *)
(* A reserved slot is held by the call (or gate) that reserved it and then *)
(* by the job it was added with.  A holder h bounds its slot from below    *)
(* and above: Low(h) = High(h) while a call holds it; a job is due up to   *)
(* MaxLag after its slot, so the slot is between runAt - MaxLag and runAt  *)
(* (the batch offset taken off).  HoldersApart says of any two holders     *)
(* what their slots satisfied when they were reserved.                     *)
(***************************************************************************)
EXTENDS MessageEnqueueProps, Integers, TLAPS

Holders == ({"call"} \X Callers) \cup ({"job"} \X Keys)

InstanceFor(h) == InstanceOf[KeyFor(h[2])]
BatchOffset(c) == IF c \in Requests /\ GateEnabled THEN ExtraDelay[KeyFor(c)] ELSE 0

Number(h) == IF h[1] = "call" THEN held[h[2]] ELSE slotOf[h[2]]
High(h) == IF h[1] = "call" THEN readAt[h[2]] + delay[h[2]] - BatchOffset(h[2])
           ELSE runAt[h[2]] - Offset(h[2])
Low(h) == IF h[1] = "call" THEN High(h) ELSE High(h) - MaxLag

\* A call that read the clock is at most MaxLag behind it; it holds a slot from
\* the script on.
CallsAreRecent ==
  \A c \in Callers :
    /\ at[c] \in {"reserve", "add"} => readAt[c] <= clock /\ clock <= readAt[c] + MaxLag
    /\ at[c] \in {"pace", "reserve"} => InstanceOf[KeyFor(c)] \in Instances
    /\ held[c] > 0 => at[c] = "add"

\* The gate runs for retries only, while it has the job.
GatesAreForRetries ==
  \A k \in Keys : /\ unpaced[k] => retries[k] > 0
                  /\ at[k] # "idle" => job[k] = "active" /\ retries[k] > 0

\* The cursor holds the last slot, and outlives it by Slack.
CursorHoldsLast ==
  \A i \in Instances :
    taken[i].count > 0 => /\ cursor[i].slot = taken[i].last
                          /\ cursor[i].expires >= taken[i].last + Slack

HoldersBounded ==
  \A h \in Holders :
    Number(h) > 0 => /\ InstanceFor(h) \in Instances
                     /\ Number(h) <= taken[InstanceFor(h)].count
                     /\ Low(h) <= taken[InstanceFor(h)].last

Apart(g, h) ==
  /\ Number(g) # Number(h)
  /\ Number(g) < Number(h) => High(h) >= Low(g) + GapMin
HoldersApart ==
  \A g, h \in Holders :
    /\ g # h /\ InstanceFor(g) = InstanceFor(h) /\ Number(g) > 0 /\ Number(h) > 0
    => Apart(g, h)

PacingInv == /\ TypeOK
             /\ CallsAreRecent
             /\ GatesAreForRetries
             /\ CursorHoldsLast
SpreadInv == /\ PacingInv
             /\ HoldersBounded
             /\ HoldersApart

-----------------------------------------------------------------------------
LEMMA Constants ==
  /\ Callers = Requests \cup Keys
  /\ \A c \in Callers : KeyFor(c) \in Keys
  /\ \A c \in Callers : InstanceOf[KeyFor(c)] \in Instances \cup {NoInstance}
  /\ \A k \in Keys : KeyFor(k) = k /\ k \notin Requests
  /\ \A r \in Requests : KeyFor(r) = KeyOf[r]
BY KeyAssumption DEF Callers, KeyFor

LEMMA EndTyped ==
  ASSUME TypeOK, NEW c \in Callers, NEW how \in Steps, End(c, how)
  PROVE  /\ at' \in [Callers -> Steps]
         /\ readAt' \in [Callers -> Nat]
         /\ delay' \in [Callers -> Nat]
         /\ held' \in [Callers -> Nat]
BY DEF TypeOK, End

\* What the script computes: a slot at least GapMin after the caller's clock and,
\* since the cursor outlives the last slot by more than a call may lag, after the
\* last slot of the instance, whether or not the cursor is still there.
LEMMA SlotIsLater ==
  ASSUME PacingInv, NEW c \in Callers, at[c] = "reserve", NEW gap \in GapMin .. GapMax,
         NEW i \in Instances, i = InstanceOf[KeyFor(c)]
  PROVE  /\ SlotFor(c, gap) \in Nat
         /\ SlotFor(c, gap) >= readAt[c] + GapMin
         /\ taken[i].count > 0 => SlotFor(c, gap) >= taken[i].last + GapMin
         /\ readAt[c] \in Nat /\ clock \in Nat /\ readAt[c] <= clock
<1>1. /\ readAt[c] \in Nat /\ clock \in Nat
      /\ cursor[i].slot \in Nat /\ cursor[i].expires \in Nat
      /\ taken[i].count \in Nat /\ taken[i].last \in Nat
  BY DEF PacingInv, TypeOK
<1>2. readAt[c] <= clock /\ clock <= readAt[c] + MaxLag
  BY DEF PacingInv, CallsAreRecent
<1>3. taken[i].count > 0 => /\ cursor[i].slot = taken[i].last
                            /\ cursor[i].expires >= taken[i].last + Slack
  BY DEF PacingInv, CursorHoldsLast
<1>4. gap \in Nat /\ gap >= GapMin
  BY TimeAssumption
<1>5. LastSlot(i) \in Nat
  BY <1>1 DEF LastSlot
<1>6. /\ SlotFor(c, gap) \in Nat
      /\ SlotFor(c, gap) >= readAt[c] + GapMin
      /\ SlotFor(c, gap) >= LastSlot(i) + GapMin
  BY <1>1, <1>4, <1>5, TimeAssumption DEF SlotFor
<1>7. taken[i].count > 0 => SlotFor(c, gap) >= taken[i].last + GapMin
  <2>1. CASE clock < cursor[i].expires
    BY <2>1, <1>3, <1>6 DEF LastSlot
  <2>2. CASE ~ (clock < cursor[i].expires)
    BY <2>2, <1>1, <1>2, <1>3, <1>6, TimeAssumption
  <2>3. QED
    BY <2>1, <2>2
<1>8. QED
  BY <1>1, <1>2, <1>6, <1>7

-----------------------------------------------------------------------------
LEMMA InitPacing == Init => PacingInv
<1>1. SUFFICES ASSUME Init PROVE PacingInv
  OBVIOUS
<1>2. TypeOK
  BY <1>1 DEF Init, TypeOK, NoCursor, Statuses, JobStates, Steps
<1>3. CallsAreRecent
  BY <1>1 DEF Init, CallsAreRecent
<1>4. GatesAreForRetries
  BY <1>1, Constants DEF Init, GatesAreForRetries
<1>5. CursorHoldsLast
  BY <1>1 DEF Init, CursorHoldsLast
<1>6. QED
  BY <1>2, <1>3, <1>4, <1>5 DEF PacingInv

LEMMA StepTyped == PacingInv /\ [Next]_vars => TypeOK'
<1>1. SUFFICES ASSUME PacingInv, [Next]_vars PROVE TypeOK'
  OBVIOUS
<1>2. TypeOK
  BY <1>1 DEF PacingInv
<1>3. ASSUME NEW r \in Requests, CreateRow(r) PROVE TypeOK'
  <2>1. KeyOf[r] \in Keys /\ r \in Callers /\ OwnDelay[r] \in Nat
    BY KeyAssumption, Constants
  <2>2. at' \in [Callers -> Steps] /\ row' \in [Keys -> Statuses]
    <3>1. CASE row[KeyOf[r]] = "none"
      BY <1>2, <1>3, <2>1, <3>1 DEF TypeOK, CreateRow, Statuses, Steps
    <3>2. CASE row[KeyOf[r]] # "none"
      BY <1>2, <1>3, <2>1, <3>2 DEF TypeOK, CreateRow, Steps
    <3>3. QED
      BY <3>1, <3>2
  <2>3. readAt' \in [Callers -> Nat] /\ delay' \in [Callers -> Nat]
    BY <1>2, <1>3, <2>1 DEF TypeOK, CreateRow
  <2>4. QED
    BY <1>2, <1>3, <2>2, <2>3 DEF TypeOK, CreateRow, queueVars
<1>4. ASSUME NEW c \in Callers, ReadClock(c) PROVE TypeOK'
  BY <1>2, <1>4 DEF TypeOK, ReadClock, queueVars, Steps
<1>5. ASSUME NEW c \in Callers, Reserve(c) PROVE TypeOK'
  <2> DEFINE i == InstanceOf[KeyFor(c)]
  <2>1. at[c] = "reserve" /\ i \in Instances
    BY <1>1, <1>5 DEF Reserve, PacingInv, CallsAreRecent
  <2>2. PICK gap \in GapMin .. GapMax :
          /\ cursor' = [cursor EXCEPT ![i] = [slot |-> SlotFor(c, gap),
                          expires |-> CursorExpiry(SlotFor(c, gap), readAt[c])]]
          /\ taken' = [taken EXCEPT ![i] = [count |-> @.count + 1, last |-> SlotFor(c, gap)]]
          /\ held' = [held EXCEPT ![c] = taken[i].count + 1]
          /\ delay' = [delay EXCEPT ![c] = (SlotFor(c, gap) - readAt[c]) +
               IF c \in Requests /\ GateEnabled THEN ExtraDelay[KeyFor(c)] ELSE 0]
    BY <1>5 DEF Reserve
  <2>3. /\ SlotFor(c, gap) \in Nat /\ readAt[c] \in Nat /\ clock \in Nat
        /\ SlotFor(c, gap) >= readAt[c] + GapMin
    BY <1>1, <2>1, SlotIsLater
  <2>4. /\ CursorExpiry(SlotFor(c, gap), readAt[c]) \in Nat
        /\ (SlotFor(c, gap) - readAt[c]) +
             (IF c \in Requests /\ GateEnabled THEN ExtraDelay[KeyFor(c)] ELSE 0) \in Nat
    BY <2>3, TimeAssumption, KeyAssumption, Constants DEF CursorExpiry
  <2>5. taken[i].count + 1 \in Nat
    BY <1>2, <2>1 DEF TypeOK
  <2>6. /\ cursor' \in [Instances -> [slot : Nat, expires : Nat]]
        /\ taken' \in [Instances -> [count : Nat, last : Nat]]
    BY <1>2, <2>1, <2>2, <2>3, <2>4, <2>5 DEF TypeOK
  <2>7. held' \in [Callers -> Nat] /\ delay' \in [Callers -> Nat]
    BY <1>2, <2>2, <2>4, <2>5 DEF TypeOK
  <2>8. /\ at' \in [Callers -> Steps] /\ unpaced' \in [Keys -> BOOLEAN]
        /\ UNCHANGED <<clock, row, job, runAt, retries, readAt, slotOf>>
    BY <1>2, <1>5 DEF TypeOK, Reserve, Steps
  <2>9. QED
    BY <1>2, <2>6, <2>7, <2>8 DEF TypeOK
<1>6. ASSUME NEW r \in Requests, AddJob(r) PROVE TypeOK'
  <2>1. KeyOf[r] \in Keys /\ r \in Callers
    BY KeyAssumption, Constants
  <2>2. /\ at' \in [Callers -> Steps] /\ readAt' \in [Callers -> Nat]
        /\ delay' \in [Callers -> Nat] /\ held' \in [Callers -> Nat]
    BY <1>2, <1>6, <2>1, EndTyped DEF AddJob, Steps
  <2>3. clock + delay[r] \in Nat /\ held[r] \in Nat
    BY <1>2, <2>1 DEF TypeOK
  <2>4. /\ job' \in [Keys -> JobStates] /\ runAt' \in [Keys -> Nat]
        /\ retries' \in [Keys -> Nat] /\ unpaced' \in [Keys -> BOOLEAN]
        /\ slotOf' \in [Keys -> Nat]
    <3>1. CASE job[KeyOf[r]] = "none"
      <4> DEFINE k == KeyOf[r]
      <4>1. /\ job' = [job EXCEPT ![k] = "delayed"]
            /\ runAt' = [runAt EXCEPT ![k] = clock + delay[r]]
            /\ retries' = [retries EXCEPT ![k] = 0]
            /\ unpaced' = [unpaced EXCEPT ![k] = FALSE]
            /\ slotOf' = [slotOf EXCEPT ![k] = held[r]]
        BY <1>6, <3>1 DEF AddJob
      <4>2. "delayed" \in JobStates
        BY DEF JobStates
      <4> HIDE DEF k
      <4>3. QED
        BY <1>2, <2>3, <4>1, <4>2 DEF TypeOK
    <3>2. CASE job[KeyOf[r]] # "none"
      BY <1>2, <1>6, <3>2 DEF TypeOK, AddJob, queueVars
    <3>3. QED
      BY <3>1, <3>2
  <2>5. QED
    BY <1>2, <1>6, <2>2, <2>4 DEF TypeOK, AddJob
<1>7. ASSUME NEW r \in Requests, Lose(r) PROVE TypeOK'
  <2>1. r \in Callers
    BY Constants
  <2>2. /\ at' \in [Callers -> Steps] /\ readAt' \in [Callers -> Nat]
        /\ delay' \in [Callers -> Nat] /\ held' \in [Callers -> Nat]
    BY <1>2, <1>7, <2>1, EndTyped DEF Lose, Steps
  <2>3. QED
    BY <1>2, <1>7, <2>2 DEF TypeOK, Lose, queueVars
<1>8. ASSUME NEW k \in Keys, Take(k) PROVE TypeOK'
  BY <1>2, <1>8, Constants DEF TypeOK, Take, JobStates, Steps
<1>9. ASSUME NEW k \in Keys, MoveToDelayed(k) PROVE TypeOK'
  <2>1. k \in Callers
    BY Constants
  <2>2. /\ at' \in [Callers -> Steps] /\ readAt' \in [Callers -> Nat]
        /\ delay' \in [Callers -> Nat] /\ held' \in [Callers -> Nat]
    BY <1>2, <1>9, <2>1, EndTyped DEF MoveToDelayed, Steps
  <2>3. clock + delay[k] \in Nat /\ held[k] \in Nat
    BY <1>2, <2>1 DEF TypeOK
  <2>4. QED
    BY <1>2, <1>9, <2>2, <2>3 DEF TypeOK, MoveToDelayed, JobStates
<1>10. ASSUME NEW k \in Keys, Succeed(k) PROVE TypeOK'
  BY <1>2, <1>10 DEF TypeOK, Succeed, callVars, JobStates, Statuses
<1>11. ASSUME NEW k \in Keys, Fail(k) PROVE TypeOK'
  <2>1. k \in Callers
    BY Constants
  <2>2. /\ at' \in [Callers -> Steps] /\ readAt' \in [Callers -> Nat]
        /\ delay' \in [Callers -> Nat] /\ held' \in [Callers -> Nat]
    BY <1>2, <1>11, <2>1, EndTyped DEF Fail, Steps
  <2>3. clock + Backoff \in Nat /\ retries[k] + 1 \in Nat
    BY <1>2, TimeAssumption DEF TypeOK
  <2>4. /\ job' \in [Keys -> JobStates] /\ runAt' \in [Keys -> Nat]
        /\ retries' \in [Keys -> Nat] /\ unpaced' \in [Keys -> BOOLEAN]
    <3>1. CASE retries[k] < MaxRetries
      <4>1. job' \in [Keys -> JobStates] /\ unpaced' \in [Keys -> BOOLEAN]
        BY <1>2, <1>11, <3>1 DEF TypeOK, Fail, JobStates
      <4>2. runAt' = [runAt EXCEPT ![k] = clock + Backoff]
        BY <1>11, <3>1 DEF Fail
      <4>3. retries' = [retries EXCEPT ![k] = retries[k] + 1]
        BY <1>11, <3>1 DEF Fail
      <4>4. runAt' \in [Keys -> Nat] /\ retries' \in [Keys -> Nat]
        BY <1>2, <2>3, <4>2, <4>3 DEF TypeOK
      <4>5. QED
        BY <4>1, <4>4
    <3>2. CASE ~ (retries[k] < MaxRetries)
      BY <1>2, <1>11, <3>2 DEF TypeOK, Fail, JobStates
    <3>3. QED
      BY <3>1, <3>2
  <2>5. row' \in [Keys -> Statuses] /\ slotOf' \in [Keys -> Nat]
    BY <1>2, <1>11 DEF TypeOK, Fail, Statuses
  <2>6. QED
    BY <1>2, <1>11, <2>2, <2>4, <2>5 DEF TypeOK, Fail
<1>12. ASSUME NEW k \in Keys, Remove(k) PROVE TypeOK'
  BY <1>2, <1>12 DEF TypeOK, Remove, callVars, JobStates
<1>13. CASE Tick
  BY <1>2, <1>13 DEF TypeOK, Tick, queueVars, callVars
<1>14. CASE UNCHANGED vars
  BY <1>2, <1>14 DEF TypeOK, vars, queueVars, callVars
<1>15. QED
  BY <1>1, <1>3, <1>4, <1>5, <1>6, <1>7, <1>8, <1>9, <1>10, <1>11, <1>12, <1>13, <1>14,
     Constants DEF Next, Proceed, Work

\* What a reservation does, with the slot named.
LEMMA ReserveTakes ==
  ASSUME PacingInv, NEW c \in Callers, Reserve(c)
  PROVE  LET i == InstanceOf[KeyFor(c)]
         IN  /\ i \in Instances
             /\ at[c] = "reserve"
             /\ \E slot \in Nat :
                  /\ slot >= readAt[c] + GapMin
                  /\ taken[i].count > 0 => slot >= taken[i].last + GapMin
                  /\ cursor' = [cursor EXCEPT ![i] =
                       [slot |-> slot, expires |-> clock + (slot - readAt[c]) + Slack]]
                  /\ taken' = [taken EXCEPT ![i] = [count |-> @.count + 1, last |-> slot]]
                  /\ held' = [held EXCEPT ![c] = taken[i].count + 1]
                  /\ delay' = [delay EXCEPT ![c] = (slot - readAt[c]) + BatchOffset(c)]
<1> DEFINE i == InstanceOf[KeyFor(c)]
<1>1. at[c] = "reserve" /\ i \in Instances
  BY DEF Reserve, PacingInv, CallsAreRecent
<1>2. PICK gap \in GapMin .. GapMax :
        /\ cursor' = [cursor EXCEPT ![i] = [slot |-> SlotFor(c, gap),
                        expires |-> CursorExpiry(SlotFor(c, gap), readAt[c])]]
        /\ taken' = [taken EXCEPT ![i] = [count |-> @.count + 1, last |-> SlotFor(c, gap)]]
        /\ held' = [held EXCEPT ![c] = taken[i].count + 1]
        /\ delay' = [delay EXCEPT ![c] = (SlotFor(c, gap) - readAt[c]) +
             IF c \in Requests /\ GateEnabled THEN ExtraDelay[KeyFor(c)] ELSE 0]
  BY DEF Reserve
<1>3. /\ SlotFor(c, gap) \in Nat
      /\ SlotFor(c, gap) >= readAt[c] + GapMin
      /\ taken[i].count > 0 => SlotFor(c, gap) >= taken[i].last + GapMin
  BY <1>1, SlotIsLater
<1>4. QED
  BY <1>1, <1>2, <1>3 DEF CursorExpiry, BatchOffset

LEMMA StepRecent == PacingInv /\ [Next]_vars => CallsAreRecent'
<1>1. SUFFICES ASSUME PacingInv, [Next]_vars PROVE CallsAreRecent'
  OBVIOUS
<1>2. TypeOK /\ CallsAreRecent
  BY <1>1 DEF PacingInv
<1>3. ASSUME NEW r \in Requests, CreateRow(r) PROVE CallsAreRecent'
  <2>1. KeyFor(r) = KeyOf[r] /\ r \in Callers
    BY Constants
  <2>2. InstanceOf[KeyFor(r)] \in Instances \cup {NoInstance}
    BY <2>1, Constants
  <2>3. at'[r] \in {"pace", "add"} /\ (at'[r] = "pace" => Paces(r))
    BY <1>2, <1>3, <2>1 DEF CreateRow, TypeOK
  <2>4. readAt'[r] = clock /\ held'[r] = 0 /\ clock' = clock /\ clock \in Nat
    BY <1>2, <1>3, <2>1 DEF CreateRow, TypeOK, CallsAreRecent
  <2>5. \A c \in Callers \ {r} : at'[c] = at[c] /\ readAt'[c] = readAt[c] /\ held'[c] = held[c]
    BY <1>2, <1>3 DEF CreateRow, TypeOK
  <2>6. at'[r] = "pace" => InstanceOf[KeyFor(r)] \in Instances
    BY <2>1, <2>2, <2>3 DEF Paces
  <2>7. QED
    BY <1>2, <2>3, <2>4, <2>5, <2>6, TimeAssumption DEF CallsAreRecent
<1>4. ASSUME NEW c \in Callers, ReadClock(c) PROVE CallsAreRecent'
  BY <1>2, <1>4, TimeAssumption DEF CallsAreRecent, ReadClock, TypeOK
<1>5. ASSUME NEW c \in Callers, Reserve(c) PROVE CallsAreRecent'
  <2>1. /\ at[c] = "reserve" /\ at' = [at EXCEPT ![c] = "add"]
        /\ UNCHANGED <<clock, readAt>>
    BY <1>5 DEF Reserve
  <2>2. \A d \in Callers \ {c} : held'[d] = held[d]
    <3>1. \E n : held' = [held EXCEPT ![c] = n]
      BY <1>1, <1>5, ReserveTakes
    <3>2. QED
      BY <1>2, <3>1 DEF TypeOK
  <2>3. QED
    BY <1>2, <2>1, <2>2 DEF CallsAreRecent, TypeOK
<1>6. ASSUME NEW c \in Callers, NEW how \in {"done", "lost", "idle"}, End(c, how),
             UNCHANGED clock
      PROVE  CallsAreRecent'
  BY <1>2, <1>6 DEF CallsAreRecent, End, TypeOK
<1>7. ASSUME NEW k \in Keys, Take(k) PROVE CallsAreRecent'
  <2>1. k \in Callers /\ KeyFor(k) = k /\ InstanceOf[k] \in Instances \cup {NoInstance}
    BY Constants
  <2>2. \/ at'[k] = "idle"
        \/ at'[k] = "pace" /\ InstanceOf[k] \in Instances
    BY <1>2, <1>7, <2>1 DEF Take, TypeOK
  <2>3. held[k] = 0 \/ at[k] = "add"
    BY <1>2, <2>1 DEF CallsAreRecent, TypeOK
  <2>4. at[k] # "add"
    BY <1>1, <1>7 DEF PacingInv, GatesAreForRetries, Take
  <2>5. \A c \in Callers \ {k} : at'[c] = at[c]
    BY <1>2, <1>7 DEF Take, TypeOK
  <2>6. UNCHANGED <<clock, readAt, held>> /\ held[k] = 0
    BY <1>7, <2>3, <2>4 DEF Take
  <2>7. QED
    BY <1>2, <2>1, <2>2, <2>5, <2>6 DEF CallsAreRecent
<1>8. CASE Tick
  BY <1>2, <1>8, TimeAssumption DEF CallsAreRecent, Tick, callVars, TypeOK
<1>9. CASE UNCHANGED <<clock, callVars>>
  BY <1>2, <1>9 DEF CallsAreRecent, callVars
<1>10. ASSUME NEW r \in Requests, AddJob(r) \/ Lose(r) PROVE CallsAreRecent'
  BY <1>6, <1>10, Constants DEF AddJob, Lose
<1>11. ASSUME NEW k \in Keys, MoveToDelayed(k) \/ Fail(k) PROVE CallsAreRecent'
  BY <1>6, <1>11, Constants DEF MoveToDelayed, Fail
<1>12. ASSUME NEW k \in Keys, Succeed(k) \/ Remove(k) PROVE CallsAreRecent'
  BY <1>9, <1>12 DEF Succeed, Remove
<1>13. QED
  BY <1>1, <1>3, <1>4, <1>5, <1>7, <1>8, <1>9, <1>10, <1>11, <1>12, Constants
     DEF Next, Proceed, Work, vars

LEMMA StepGates == PacingInv /\ [Next]_vars => GatesAreForRetries'
<1>1. SUFFICES ASSUME PacingInv, [Next]_vars PROVE GatesAreForRetries'
  OBVIOUS
<1>2. TypeOK /\ GatesAreForRetries
  BY <1>1 DEF PacingInv
<1>3. \A k \in Keys, r \in Requests : k # r /\ k \in Callers /\ KeyOf[r] \in Keys
  BY Constants, KeyAssumption
<1>4. ASSUME NEW r \in Requests, CreateRow(r) PROVE GatesAreForRetries'
  <2>1. \A k \in Keys : at'[k] = at[k]
    BY <1>2, <1>3, <1>4 DEF CreateRow, TypeOK
  <2>2. QED
    BY <1>2, <1>4, <2>1 DEF GatesAreForRetries, CreateRow, queueVars
<1>5. ASSUME NEW c \in Callers, ReadClock(c) PROVE GatesAreForRetries'
  BY <1>2, <1>5 DEF GatesAreForRetries, ReadClock, queueVars, TypeOK
<1>6. ASSUME NEW c \in Callers, Reserve(c) PROVE GatesAreForRetries'
  <2>1. \A k \in Keys : /\ (at'[k] # "idle" => at[k] # "idle")
                        /\ (unpaced'[k] => unpaced[k])
    BY <1>2, <1>3, <1>6 DEF Reserve, TypeOK
  <2>2. QED
    BY <1>2, <1>6, <2>1 DEF GatesAreForRetries, Reserve
<1>7. ASSUME NEW r \in Requests, AddJob(r) PROVE GatesAreForRetries'
  <2>1. \A k \in Keys : at'[k] = at[k]
    BY <1>2, <1>3, <1>7 DEF AddJob, End, TypeOK
  <2>2. CASE job[KeyOf[r]] = "none"
    <3> DEFINE n == KeyOf[r]
    <3>1. n \in Keys
      BY KeyAssumption
    <3>2. /\ job[n] = "none"
          /\ job' = [job EXCEPT ![n] = "delayed"]
          /\ retries' = [retries EXCEPT ![n] = 0]
          /\ unpaced' = [unpaced EXCEPT ![n] = FALSE]
      BY <1>7, <2>2 DEF AddJob
    <3> HIDE DEF n
    <3>3. at[n] = "idle"
      BY <1>2, <3>1, <3>2 DEF GatesAreForRetries
    <3>4. /\ ~ unpaced'[n]
          /\ \A k \in Keys \ {n} : /\ job'[k] = job[k] /\ retries'[k] = retries[k]
                                  /\ unpaced'[k] = unpaced[k]
      BY <1>2, <3>1, <3>2 DEF TypeOK
    <3>5. QED
      BY <1>2, <2>1, <3>3, <3>4 DEF GatesAreForRetries
  <2>3. CASE job[KeyOf[r]] # "none"
    BY <1>2, <1>7, <2>1, <2>3 DEF GatesAreForRetries, AddJob, queueVars
  <2>4. QED
    BY <2>2, <2>3
<1>8. ASSUME NEW r \in Requests, Lose(r) PROVE GatesAreForRetries'
  <2>1. \A k \in Keys : at'[k] = at[k]
    BY <1>2, <1>3, <1>8 DEF Lose, End, TypeOK
  <2>2. QED
    BY <1>2, <1>8, <2>1 DEF GatesAreForRetries, Lose, queueVars
<1>9. ASSUME NEW k \in Keys, Take(k) PROVE GatesAreForRetries'
  <2>1. at'[k] # "idle" => unpaced[k]
    <3>1. SUFFICES ASSUME ~ unpaced[k] PROVE at'[k] = "idle"
      OBVIOUS
    <3>2. at' = [at EXCEPT ![k] = "idle"] /\ k \in Callers
      BY <1>9, <3>1, Constants DEF Take
    <3>3. QED
      BY <1>2, <3>2 DEF TypeOK
  <2>2. /\ job'[k] = "active"
        /\ \A j \in Keys \ {k} : job'[j] = job[j] /\ at'[j] = at[j]
    BY <1>2, <1>3, <1>9 DEF Take, TypeOK
  <2>3. UNCHANGED <<retries, unpaced>>
    BY <1>9 DEF Take
  <2>4. QED
    BY <1>2, <2>1, <2>2, <2>3 DEF GatesAreForRetries
<1>10. ASSUME NEW k \in Keys, MoveToDelayed(k) PROVE GatesAreForRetries'
  <2>1. at' = [at EXCEPT ![k] = "idle"] /\ k \in Callers
    BY <1>10, Constants DEF MoveToDelayed, End
  <2>2. \A j \in Keys : at'[j] # "idle" => j # k /\ at[j] # "idle"
    BY <1>2, <2>1, Constants DEF TypeOK
  <2>3. /\ \A j \in Keys \ {k} : job'[j] = job[j]
        /\ UNCHANGED <<retries, unpaced>>
    BY <1>2, <1>10 DEF MoveToDelayed, TypeOK
  <2>4. QED
    BY <1>2, <2>2, <2>3 DEF GatesAreForRetries
<1>11. ASSUME NEW k \in Keys, Succeed(k) PROVE GatesAreForRetries'
  BY <1>2, <1>3, <1>11 DEF GatesAreForRetries, Succeed, callVars, TypeOK
<1>12. ASSUME NEW k \in Keys, Fail(k) PROVE GatesAreForRetries'
  <2>1. \A j \in Keys : at'[j] # "idle" => j # k /\ at[j] # "idle"
    <3>1. at' = [at EXCEPT ![k] = "idle"] /\ k \in Callers
      BY <1>3, <1>12, Constants DEF Fail, End
    <3>2. QED
      BY <1>2, <3>1, Constants DEF TypeOK
  <2>2. \A j \in Keys \ {k} : /\ job'[j] = job[j] /\ retries'[j] = retries[j]
                              /\ unpaced'[j] = unpaced[j]
    BY <1>2, <1>12 DEF Fail, TypeOK
  <2>3. unpaced'[k] => retries'[k] > 0
    BY <1>2, <1>12 DEF Fail, TypeOK, GatesAreForRetries
  <2>4. QED
    BY <1>2, <2>1, <2>2, <2>3 DEF GatesAreForRetries
<1>13. ASSUME NEW k \in Keys, Remove(k) PROVE GatesAreForRetries'
  BY <1>2, <1>3, <1>13 DEF GatesAreForRetries, Remove, callVars, TypeOK
<1>14. CASE UNCHANGED <<queueVars, callVars>>
  BY <1>2, <1>14 DEF GatesAreForRetries, queueVars, callVars
<1>15. CASE Tick
  BY <1>14, <1>15 DEF Tick
<1>16. QED
  BY <1>1, <1>4, <1>5, <1>6, <1>7, <1>8, <1>9, <1>10, <1>11, <1>12, <1>13, <1>14, <1>15,
     Constants DEF Next, Proceed, Work, vars

LEMMA StepCursor == PacingInv /\ [Next]_vars => CursorHoldsLast'
<1>1. SUFFICES ASSUME PacingInv, [Next]_vars PROVE CursorHoldsLast'
  OBVIOUS
<1>2. ASSUME NEW c \in Callers, Reserve(c) PROVE CursorHoldsLast'
  <2> DEFINE i == InstanceOf[KeyFor(c)]
  <2>1. i \in Instances /\ at[c] = "reserve"
    BY <1>1, <1>2, ReserveTakes
  <2>2. PICK slot \in Nat :
          /\ slot >= readAt[c] + GapMin
          /\ cursor' = [cursor EXCEPT ![i] =
               [slot |-> slot, expires |-> clock + (slot - readAt[c]) + Slack]]
          /\ taken' = [taken EXCEPT ![i] = [count |-> @.count + 1, last |-> slot]]
    BY <1>1, <1>2, ReserveTakes
  <2>3. readAt[c] \in Nat /\ clock \in Nat /\ readAt[c] <= clock
    BY <1>1, <2>1 DEF PacingInv, TypeOK, CallsAreRecent
  <2>4. /\ cursor'[i].slot = slot /\ taken'[i].last = slot
        /\ cursor'[i].expires >= slot + Slack
    BY <1>1, <2>1, <2>2, <2>3, TimeAssumption DEF PacingInv, TypeOK
  <2>5. \A j \in Instances \ {i} : cursor'[j] = cursor[j] /\ taken'[j] = taken[j]
    BY <1>1, <2>2 DEF PacingInv, TypeOK
  <2>6. QED
    BY <1>1, <2>4, <2>5 DEF CursorHoldsLast, PacingInv
<1>3. CASE UNCHANGED <<cursor, taken>>
  BY <1>1, <1>3 DEF PacingInv, CursorHoldsLast
<1>4. \/ UNCHANGED <<cursor, taken>>
      \/ \E c \in Callers : Reserve(c)
  BY <1>1, Constants
     DEF Next, Proceed, Work, vars, CreateRow, ReadClock, AddJob, Lose, Take, MoveToDelayed,
         Succeed, Fail, Remove, Tick
<1>5. QED
  BY <1>2, <1>3, <1>4

LEMMA StepPacing == PacingInv /\ [Next]_vars => PacingInv'
BY StepTyped, StepRecent, StepGates, StepCursor DEF PacingInv

-----------------------------------------------------------------------------
(* The holders of slots. *)

LEMMA HolderTypes ==
  /\ TypeOK => \A h \in Holders : Number(h) \in Nat /\ High(h) \in Int /\ Low(h) \in Int
  /\ \A h \in Holders : InstanceFor(h) \in Instances \cup {NoInstance}
<1>1. ASSUME TypeOK, NEW h \in Holders
      PROVE  Number(h) \in Nat /\ High(h) \in Int /\ Low(h) \in Int
  <2>1. CASE h[1] = "call"
    <3>1. h[2] \in Callers
      BY <2>1 DEF Holders
    <3>2. BatchOffset(h[2]) \in Nat
      BY <3>1, Constants, KeyAssumption DEF BatchOffset
    <3>3. QED
      BY <1>1, <2>1, <3>1, <3>2 DEF TypeOK, Number, High, Low
  <2>2. CASE h[1] # "call"
    <3>1. h[2] \in Keys
      BY <2>2 DEF Holders
    <3>2. Offset(h[2]) \in Nat
      BY <3>1, KeyAssumption DEF Offset
    <3>3. QED
      BY <1>1, <2>2, <3>1, <3>2, TimeAssumption DEF TypeOK, Number, High, Low
  <2>3. QED
    BY <2>1, <2>2
<1>2. ASSUME NEW h \in Holders
      PROVE  InstanceFor(h) \in Instances \cup {NoInstance}
  BY Constants DEF Holders, InstanceFor
<1>3. QED
  BY <1>1, <1>2

LEMMA NextHolderTypes ==
  ASSUME TypeOK'
  PROVE  \A h \in Holders : Number(h)' \in Nat /\ High(h)' \in Int /\ Low(h)' \in Int
<1>1. SUFFICES ASSUME NEW h \in Holders
               PROVE  Number(h)' \in Nat /\ High(h)' \in Int /\ Low(h)' \in Int
  OBVIOUS
<1>2. CASE h[1] = "call"
  <2>1. h[2] \in Callers
    BY <1>2 DEF Holders
  <2>2. BatchOffset(h[2]) \in Nat
    BY <2>1, Constants, KeyAssumption DEF BatchOffset
  <2>3. QED
    BY <1>2, <2>1, <2>2 DEF TypeOK, Number, High, Low, BatchOffset
<1>3. CASE h[1] # "call"
  <2>1. h[2] \in Keys
    BY <1>3 DEF Holders
  <2>2. Offset(h[2])' \in Nat
    BY <2>1, KeyAssumption DEF Offset
  <2>3. QED
    BY <1>3, <2>1, <2>2, TimeAssumption DEF TypeOK, Number, High, Low
<1>4. QED
  BY <1>2, <1>3

\* A step that reserves nothing keeps the slots apart, when every holder has its
\* slot from a holder of its own and bounds it no more tightly.
LEMMA Inherit ==
  ASSUME SpreadInv, TypeOK', UNCHANGED taken, NEW src \in [Holders -> Holders],
         \A h \in Holders : Number(h)' > 0 =>
           /\ Number(src[h]) = Number(h)'
           /\ InstanceFor(src[h]) = InstanceFor(h)
           /\ Low(h)' <= Low(src[h])
           /\ High(src[h]) <= High(h)',
         \A g, h \in Holders :
           g # h /\ Number(g)' > 0 /\ Number(h)' > 0 => src[g] # src[h]
  PROVE  HoldersBounded' /\ HoldersApart'
<1>1. TypeOK /\ HoldersBounded /\ HoldersApart
  BY DEF SpreadInv, PacingInv
<1>2. \A h \in Holders :
        /\ Number(h) \in Nat /\ High(h) \in Int /\ Low(h) \in Int
        /\ Number(h)' \in Nat /\ High(h)' \in Int /\ Low(h)' \in Int
        /\ InstanceFor(h)' = InstanceFor(h)
  BY <1>1, HolderTypes, NextHolderTypes DEF InstanceFor
<1>3. HoldersBounded'
  <2>1. SUFFICES ASSUME NEW h \in Holders, Number(h)' > 0
                 PROVE  /\ InstanceFor(h) \in Instances
                        /\ Number(h)' <= taken[InstanceFor(h)].count
                        /\ Low(h)' <= taken[InstanceFor(h)].last
    BY <1>2 DEF HoldersBounded
  <2>2. src[h] \in Holders /\ Number(src[h]) > 0
    BY <2>1
  <2>3. /\ InstanceFor(h) \in Instances
        /\ Number(src[h]) <= taken[InstanceFor(h)].count
        /\ Low(src[h]) <= taken[InstanceFor(h)].last
    BY <1>1, <2>1, <2>2 DEF HoldersBounded
  <2>4. taken[InstanceFor(h)].count \in Nat /\ taken[InstanceFor(h)].last \in Nat
    BY <1>1, <2>3 DEF TypeOK
  <2>5. QED
    BY <1>2, <2>1, <2>2, <2>3, <2>4
<1>4. HoldersApart'
  <2>1. SUFFICES ASSUME NEW g \in Holders, NEW h \in Holders, g # h,
                        InstanceFor(g) = InstanceFor(h), Number(g)' > 0, Number(h)' > 0
                 PROVE  /\ Number(g)' # Number(h)'
                        /\ Number(g)' < Number(h)' => High(h)' >= Low(g)' + GapMin
    BY <1>2 DEF HoldersApart, Apart
  <2>2. /\ src[g] \in Holders /\ src[h] \in Holders /\ src[g] # src[h]
        /\ InstanceFor(src[g]) = InstanceFor(src[h])
        /\ Number(src[g]) > 0 /\ Number(src[h]) > 0
    BY <2>1
  <2>3. /\ Number(src[g]) # Number(src[h])
        /\ Number(src[g]) < Number(src[h]) => High(src[h]) >= Low(src[g]) + GapMin
    BY <1>1, <2>2 DEF HoldersApart, Apart
  <2>4. /\ Number(src[g]) = Number(g)' /\ Number(src[h]) = Number(h)'
        /\ Low(g)' <= Low(src[g]) /\ High(src[h]) <= High(h)'
    BY <2>1
  <2>5. /\ Low(g)' \in Int /\ Low(src[g]) \in Int /\ High(src[h]) \in Int /\ High(h)' \in Int
        /\ GapMin \in Int
    BY <1>2, <2>2, TimeAssumption
  <2>6. QED
    BY <2>3, <2>4, <2>5
<1>5. QED
  BY <1>3, <1>4

\* No slot changes hands.
LEMMA SameHolders ==
  ASSUME SpreadInv, TypeOK', UNCHANGED taken,
         \A c \in Callers : held'[c] > 0 =>
           held'[c] = held[c] /\ readAt'[c] = readAt[c] /\ delay'[c] = delay[c],
         \A k \in Keys : slotOf'[k] > 0 =>
           slotOf'[k] = slotOf[k] /\ runAt'[k] = runAt[k] /\ retries'[k] = retries[k]
  PROVE  HoldersBounded' /\ HoldersApart'
<1> DEFINE src == [h \in Holders |-> h]
<1>1. src \in [Holders -> Holders]
  OBVIOUS
<1>2. \A h \in Holders : Number(h)' > 0 =>
        Number(h) = Number(h)' /\ Low(h)' = Low(h) /\ High(h) = High(h)'
  <2>1. ASSUME NEW c \in Callers, held'[c] > 0
        PROVE  LET h == <<"call", c>>
               IN  Number(h) = Number(h)' /\ Low(h)' = Low(h) /\ High(h) = High(h)'
    BY <2>1 DEF Number, Low, High, BatchOffset
  <2>2. ASSUME NEW k \in Keys, slotOf'[k] > 0
        PROVE  LET h == <<"job", k>>
               IN  Number(h) = Number(h)' /\ Low(h)' = Low(h) /\ High(h) = High(h)'
    BY <2>2 DEF Number, Low, High, Offset
  <2>3. \A h \in Holders : \/ \E c \in Callers : h = <<"call", c>>
                           \/ \E k \in Keys : h = <<"job", k>>
    BY DEF Holders
  <2>4. \A c \in Callers : Number(<<"call", c>>)' = held'[c]
    BY DEF Number
  <2>5. \A k \in Keys : Number(<<"job", k>>)' = slotOf'[k]
    BY DEF Number
  <2>6. QED
    BY <2>1, <2>2, <2>3, <2>4, <2>5
<1>3. \A h \in Holders : Low(h) \in Int /\ High(h) \in Int
  BY HolderTypes DEF SpreadInv, PacingInv
<1>4. \A h \in Holders : Number(h)' > 0 =>
        /\ Number(src[h]) = Number(h)'
        /\ InstanceFor(src[h]) = InstanceFor(h)
        /\ Low(h)' <= Low(src[h])
        /\ High(src[h]) <= High(h)'
  BY <1>2, <1>3
<1>5. \A g, h \in Holders :
        g # h /\ Number(g)' > 0 /\ Number(h)' > 0 => src[g] # src[h]
  OBVIOUS
<1> HIDE DEF src
<1>6. QED
  BY <1>1, <1>4, <1>5, Inherit

\* A slot goes from the call (or gate) that holds it to the job of its message.
LEMMA HandOver ==
  ASSUME SpreadInv, TypeOK', UNCHANGED taken, NEW c \in Callers, NEW k \in Keys,
         KeyFor(c) = k, at[c] = "add",
         held' = [held EXCEPT ![c] = 0],
         readAt' = [readAt EXCEPT ![c] = 0],
         delay' = [delay EXCEPT ![c] = 0],
         slotOf' = [slotOf EXCEPT ![k] = held[c]],
         runAt' = [runAt EXCEPT ![k] = clock + delay[c]],
         Offset(k)' = BatchOffset(c),
         \A j \in Keys \ {k} : retries'[j] = retries[j]
  PROVE  HoldersBounded' /\ HoldersApart'
<1> DEFINE from == <<"call", c>>
           to == <<"job", k>>
           src == [h \in Holders |-> IF h = to THEN from ELSE h]
<1>1. TypeOK /\ CallsAreRecent
  BY DEF SpreadInv, PacingInv
<1>2. from \in Holders /\ to \in Holders /\ from # to
  BY DEF Holders
<1>3. src \in [Holders -> Holders]
  BY <1>2
<1>4. Number(from)' = 0
  BY <1>1 DEF Number, TypeOK
<1>5. /\ Number(to)' = Number(from) /\ InstanceFor(from) = InstanceFor(to)
      /\ Low(to)' <= Low(from) /\ High(from) <= High(to)'
  <2>1. /\ readAt[c] \in Nat /\ delay[c] \in Nat /\ clock \in Nat
        /\ readAt[c] <= clock /\ clock <= readAt[c] + MaxLag
        /\ BatchOffset(c) \in Nat /\ KeyFor(k) = k
    BY <1>1, Constants, KeyAssumption DEF CallsAreRecent, TypeOK, BatchOffset
  <2>2. Number(to)' = held[c] /\ Number(from) = held[c]
    BY <1>1 DEF Number, TypeOK
  <2>3. InstanceFor(from) = InstanceFor(to)
    BY <2>1 DEF InstanceFor
  <2>4. High(from) = readAt[c] + delay[c] - BatchOffset(c) /\ Low(from) = High(from)
    BY DEF High, Low
  <2>5. runAt'[k] = clock + delay[c]
    BY <1>1 DEF TypeOK
  <2>6. High(to)' = clock + delay[c] - BatchOffset(c) /\ Low(to)' = High(to)' - MaxLag
    <3>1. High(to)' = runAt'[k] - Offset(k)'
      BY DEF High
    <3>2. Low(to)' = High(to)' - MaxLag
      BY DEF Low
    <3>3. Offset(k)' = BatchOffset(c)
      OBVIOUS
    <3>4. High(to)' = clock + delay[c] - BatchOffset(c)
      BY <2>1, <2>5, <3>1, <3>3
    <3>5. QED
      BY <3>2, <3>4
  <2>7. QED
    BY <2>1, <2>2, <2>3, <2>4, <2>6, TimeAssumption
<1>6. \A h \in Holders \ {from, to} :
        Number(h)' = Number(h) /\ Low(h)' = Low(h) /\ High(h)' = High(h)
  <2>1. ASSUME NEW d \in Callers \ {c}
        PROVE  LET h == <<"call", d>>
               IN  Number(h)' = Number(h) /\ Low(h)' = Low(h) /\ High(h)' = High(h)
    <3>1. held'[d] = held[d] /\ readAt'[d] = readAt[d] /\ delay'[d] = delay[d]
      BY <1>1 DEF TypeOK
    <3>2. QED
      BY <3>1 DEF Number, Low, High, BatchOffset
  <2>2. ASSUME NEW j \in Keys \ {k}
        PROVE  LET h == <<"job", j>>
               IN  Number(h)' = Number(h) /\ Low(h)' = Low(h) /\ High(h)' = High(h)
    <3>1. slotOf'[j] = slotOf[j] /\ runAt'[j] = runAt[j] /\ retries'[j] = retries[j]
      BY <1>1 DEF TypeOK
    <3>2. QED
      BY <3>1 DEF Number, Low, High, Offset
  <2>3. \A h \in Holders \ {from, to} : \/ \E d \in Callers \ {c} : h = <<"call", d>>
                                       \/ \E j \in Keys \ {k} : h = <<"job", j>>
    BY DEF Holders
  <2>4. QED
    BY <2>1, <2>2, <2>3
<1>7. \A h \in Holders : Low(h) \in Int /\ High(h) \in Int
  BY <1>1, HolderTypes
<1>8. \A h \in Holders : Number(h)' > 0 =>
        /\ Number(src[h]) = Number(h)'
        /\ InstanceFor(src[h]) = InstanceFor(h)
        /\ Low(h)' <= Low(src[h])
        /\ High(src[h]) <= High(h)'
  <2>1. SUFFICES ASSUME NEW h \in Holders, Number(h)' > 0
                 PROVE  /\ Number(src[h]) = Number(h)'
                        /\ InstanceFor(src[h]) = InstanceFor(h)
                        /\ Low(h)' <= Low(src[h])
                        /\ High(src[h]) <= High(h)'
    OBVIOUS
  <2>2. CASE h = to
    BY <1>2, <1>5, <2>2
  <2>3. CASE h # to
    <3>1. h # from /\ src[h] = h
      BY <1>4, <2>1, <2>3
    <3>2. QED
      BY <1>6, <1>7, <2>3, <3>1
  <2>4. QED
    BY <2>2, <2>3
<1>9. \A g, h \in Holders :
        g # h /\ Number(g)' > 0 /\ Number(h)' > 0 => src[g] # src[h]
  <2>1. SUFFICES ASSUME NEW g \in Holders, NEW h \in Holders, g # h,
                        Number(g)' > 0, Number(h)' > 0
                 PROVE  src[g] # src[h]
    OBVIOUS
  <2>2. g # from /\ h # from
    BY <1>4, <2>1
  <2>3. QED
    BY <2>1, <2>2
<1> HIDE DEF src
<1>10. QED
  BY <1>3, <1>8, <1>9, Inherit

\* A new slot is apart from every slot held.
LEMMA NewHolder ==
  ASSUME SpreadInv, TypeOK', NEW c \in Callers, Reserve(c)
  PROVE  HoldersBounded' /\ HoldersApart'
<1> DEFINE i == InstanceOf[KeyFor(c)]
           new == <<"call", c>>
<1>1. TypeOK /\ HoldersBounded /\ HoldersApart /\ PacingInv
  BY DEF SpreadInv, PacingInv
<1>2. PICK slot \in Nat :
        /\ slot >= readAt[c] + GapMin
        /\ taken[i].count > 0 => slot >= taken[i].last + GapMin
        /\ taken' = [taken EXCEPT ![i] = [count |-> @.count + 1, last |-> slot]]
        /\ held' = [held EXCEPT ![c] = taken[i].count + 1]
        /\ delay' = [delay EXCEPT ![c] = (slot - readAt[c]) + BatchOffset(c)]
  BY <1>1, ReserveTakes
<1>3. i \in Instances /\ new \in Holders /\ InstanceFor(new) = i
  BY <1>1, ReserveTakes DEF Holders, InstanceFor
<1>4. taken[i].count \in Nat /\ taken[i].last \in Nat /\ GapMin \in Nat
  BY <1>1, <1>3, TimeAssumption DEF TypeOK
<1>5. taken'[i].count = taken[i].count + 1 /\ taken'[i].last = slot
  BY <1>1, <1>2, <1>3 DEF TypeOK
<1>6. \A j \in Instances \ {i} : taken'[j] = taken[j]
  BY <1>1, <1>2 DEF TypeOK
<1>7. Number(new)' = taken[i].count + 1 /\ High(new)' = slot /\ Low(new)' = slot
  <2>1. held'[c] = taken[i].count + 1
    BY <1>1, <1>2 DEF TypeOK
  <2>2. delay'[c] = (slot - readAt[c]) + BatchOffset(c) /\ readAt'[c] = readAt[c]
    BY <1>1, <1>2 DEF TypeOK, Reserve
  <2>3. readAt[c] \in Nat /\ BatchOffset(c) \in Nat
    BY <1>1, Constants, KeyAssumption DEF TypeOK, BatchOffset
  <2>4. BatchOffset(c)' = BatchOffset(c)
    BY DEF BatchOffset
  <2>5. High(new)' = readAt'[c] + delay'[c] - BatchOffset(c)
    BY <2>4 DEF High
  <2>6. High(new)' = slot
    BY <2>2, <2>3, <2>5
  <2>7. QED
    BY <2>1, <2>6 DEF Number, Low
<1>8. \A h \in Holders \ {new} :
        Number(h)' = Number(h) /\ Low(h)' = Low(h) /\ High(h)' = High(h)
  <2>1. ASSUME NEW d \in Callers \ {c}
        PROVE  LET h == <<"call", d>>
               IN  Number(h)' = Number(h) /\ Low(h)' = Low(h) /\ High(h)' = High(h)
    <3>1. held'[d] = held[d] /\ readAt'[d] = readAt[d] /\ delay'[d] = delay[d]
      BY <1>1, <1>2 DEF TypeOK, Reserve
    <3>2. QED
      BY <3>1 DEF Number, Low, High, BatchOffset
  <2>2. ASSUME NEW j \in Keys
        PROVE  LET h == <<"job", j>>
               IN  Number(h)' = Number(h) /\ Low(h)' = Low(h) /\ High(h)' = High(h)
    <3>1. UNCHANGED <<slotOf, runAt, retries>>
      BY DEF Reserve
    <3>2. QED
      BY <3>1 DEF Number, Low, High, Offset
  <2>3. \A h \in Holders \ {new} : \/ \E d \in Callers \ {c} : h = <<"call", d>>
                                 \/ \E j \in Keys : h = <<"job", j>>
    BY DEF Holders
  <2>4. QED
    BY <2>1, <2>2, <2>3
<1>9. \A h \in Holders : /\ Number(h) \in Nat /\ High(h) \in Int /\ Low(h) \in Int
                        /\ InstanceFor(h)' = InstanceFor(h)
  BY <1>1, HolderTypes DEF InstanceFor
\* Whoever holds a slot of this instance holds one of those before.
<1>10. \A h \in Holders \ {new} : InstanceFor(h) = i /\ Number(h) > 0 =>
         /\ Number(h) <= taken[i].count
         /\ Low(h) <= taken[i].last
         /\ slot >= Low(h) + GapMin
  <2>1. SUFFICES ASSUME NEW h \in Holders, InstanceFor(h) = i, Number(h) > 0
                 PROVE  /\ Number(h) <= taken[i].count
                        /\ Low(h) <= taken[i].last
                        /\ slot >= Low(h) + GapMin
    OBVIOUS
  <2>2. Number(h) <= taken[i].count /\ Low(h) <= taken[i].last
    BY <1>1, <2>1 DEF HoldersBounded
  <2>3. Number(h) \in Nat /\ Low(h) \in Int
    BY <1>9, <2>1
  <2>4. taken[i].count > 0
    BY <1>4, <2>1, <2>2, <2>3
  <2>5. slot >= taken[i].last + GapMin
    BY <1>2, <2>4
  <2>6. QED
    BY <1>4, <2>2, <2>3, <2>5
<1> HIDE DEF i, new
<1>11. HoldersBounded'
  <2>1. SUFFICES ASSUME NEW h \in Holders, Number(h)' > 0
                 PROVE  /\ InstanceFor(h) \in Instances
                        /\ Number(h)' <= taken'[InstanceFor(h)].count
                        /\ Low(h)' <= taken'[InstanceFor(h)].last
    BY <1>9 DEF HoldersBounded
  <2>2. CASE h = new
    BY <1>3, <1>4, <1>5, <1>7, <2>2
  <2>3. CASE h # new /\ InstanceFor(h) = i
    BY <1>3, <1>4, <1>5, <1>8, <1>9, <1>10, <2>1, <2>3
  <2>4. CASE h # new /\ InstanceFor(h) # i
    <3>1. Number(h) > 0 /\ Number(h)' = Number(h) /\ Low(h)' = Low(h)
      BY <1>8, <2>1, <2>4
    <3>2. /\ InstanceFor(h) \in Instances
          /\ Number(h) <= taken[InstanceFor(h)].count
          /\ Low(h) <= taken[InstanceFor(h)].last
      BY <1>1, <3>1 DEF HoldersBounded
    <3>3. QED
      BY <1>6, <2>4, <3>1, <3>2
  <2>5. QED
    BY <2>2, <2>3, <2>4
<1>12. HoldersApart'
  <2>1. SUFFICES ASSUME NEW g \in Holders, NEW h \in Holders, g # h,
                        InstanceFor(g) = InstanceFor(h), Number(g)' > 0, Number(h)' > 0
                 PROVE  /\ Number(g)' # Number(h)'
                        /\ Number(g)' < Number(h)' => High(h)' >= Low(g)' + GapMin
    BY <1>9 DEF HoldersApart, Apart
  <2>2. CASE g # new /\ h # new
    BY <1>1, <1>8, <2>1, <2>2 DEF HoldersApart, Apart
  <2>3. CASE g = new
    BY <1>3, <1>4, <1>7, <1>8, <1>9, <1>10, <2>1, <2>3
  <2>4. CASE h = new
    BY <1>3, <1>4, <1>7, <1>8, <1>9, <1>10, <2>1, <2>4
  <2>5. QED
    BY <2>2, <2>3, <2>4
<1>13. QED
  BY <1>11, <1>12

LEMMA InitSpread == Init => SpreadInv
<1>1. SUFFICES ASSUME Init PROVE SpreadInv
  OBVIOUS
<1>2. \A h \in Holders : Number(h) = 0
  BY <1>1 DEF Init, Holders, Number
<1>3. QED
  BY <1>1, <1>2, InitPacing DEF SpreadInv, HoldersBounded, HoldersApart

LEMMA StepSpread == SpreadInv /\ [Next]_vars => SpreadInv'
<1>1. SUFFICES ASSUME SpreadInv, [Next]_vars PROVE HoldersBounded' /\ HoldersApart'
  BY StepPacing DEF SpreadInv
<1>2. PacingInv /\ TypeOK /\ CallsAreRecent /\ GatesAreForRetries /\ TypeOK'
  BY <1>1, StepTyped DEF SpreadInv, PacingInv
<1>3. ASSUME NEW r \in Requests, CreateRow(r) PROVE HoldersBounded' /\ HoldersApart'
  <2>1. held[r] = 0 /\ r \in Callers
    <3>1. r \in Callers /\ at[r] = "idle"
      BY <1>3, Constants DEF CreateRow
    <3>2. held[r] \in Nat
      BY <1>2, <3>1 DEF TypeOK
    <3>3. ~ (held[r] > 0)
      BY <1>2, <3>1 DEF CallsAreRecent
    <3>4. QED
      BY <3>1, <3>2, <3>3
  <2>2. \A c \in Callers : held'[c] > 0 =>
          held'[c] = held[c] /\ readAt'[c] = readAt[c] /\ delay'[c] = delay[c]
    BY <1>2, <1>3, <2>1 DEF CreateRow, TypeOK
  <2>3. UNCHANGED <<taken, slotOf, runAt, retries>>
    BY <1>3 DEF CreateRow, queueVars
  <2>4. QED
    BY <1>1, <1>2, <2>2, <2>3, SameHolders
<1>4. ASSUME NEW c \in Callers, ReadClock(c) PROVE HoldersBounded' /\ HoldersApart'
  <2>1. held[c] = 0
    BY <1>2, <1>4 DEF ReadClock, CallsAreRecent, TypeOK
  <2>2. \A d \in Callers : held'[d] > 0 =>
          held'[d] = held[d] /\ readAt'[d] = readAt[d] /\ delay'[d] = delay[d]
    BY <1>2, <1>4, <2>1 DEF ReadClock, TypeOK
  <2>3. UNCHANGED <<taken, slotOf, runAt, retries>>
    BY <1>4 DEF ReadClock, queueVars
  <2>4. QED
    BY <1>1, <1>2, <2>2, <2>3, SameHolders
<1>5. ASSUME NEW c \in Callers, Reserve(c) PROVE HoldersBounded' /\ HoldersApart'
  BY <1>1, <1>2, <1>5, NewHolder
<1>6. ASSUME NEW c \in Callers, NEW how \in Steps, End(c, how),
             UNCHANGED taken,
             \A k \in Keys : slotOf'[k] > 0 =>
               slotOf'[k] = slotOf[k] /\ runAt'[k] = runAt[k] /\ retries'[k] = retries[k]
      PROVE  HoldersBounded' /\ HoldersApart'
  <2>1. \A d \in Callers : held'[d] > 0 =>
          held'[d] = held[d] /\ readAt'[d] = readAt[d] /\ delay'[d] = delay[d]
    BY <1>2, <1>6 DEF End, TypeOK
  <2>2. QED
    BY <1>1, <1>2, <1>6, <2>1, SameHolders
<1>7. ASSUME NEW r \in Requests, AddJob(r) PROVE HoldersBounded' /\ HoldersApart'
  <2> DEFINE k == KeyOf[r]
  <2>1. r \in Callers /\ k \in Keys /\ KeyFor(r) = k
    BY Constants, KeyAssumption
  <2>2. CASE job[k] = "none"
    <3>1. /\ runAt' = [runAt EXCEPT ![k] = clock + delay[r]]
          /\ retries' = [retries EXCEPT ![k] = 0]
          /\ slotOf' = [slotOf EXCEPT ![k] = held[r]]
          /\ at[r] = "add" /\ UNCHANGED taken /\ End(r, "done")
      BY <1>7, <2>2 DEF AddJob
    <3> HIDE DEF k
    <3>2. retries'[k] = 0 /\ \A j \in Keys \ {k} : retries'[j] = retries[j]
      BY <1>2, <2>1, <3>1 DEF TypeOK
    <3>3. Offset(k)' = BatchOffset(r)
      BY <2>1, <3>2 DEF Offset, BatchOffset
    <3>4. QED
      BY <1>1, <1>2, <2>1, <3>1, <3>2, <3>3, HandOver DEF End
  <2>3. CASE job[k] # "none"
    BY <1>6, <1>7, <2>1, <2>3 DEF AddJob, queueVars, Steps
  <2>4. QED
    BY <2>2, <2>3
<1>8. ASSUME NEW r \in Requests, Lose(r) PROVE HoldersBounded' /\ HoldersApart'
  BY <1>6, <1>8, Constants DEF Lose, queueVars, Steps
<1>9. ASSUME NEW k \in Keys, MoveToDelayed(k) PROVE HoldersBounded' /\ HoldersApart'
  <2>1. k \in Callers /\ KeyFor(k) = k /\ k \notin Requests
    BY Constants
  <2>2. /\ runAt' = [runAt EXCEPT ![k] = clock + delay[k]]
        /\ slotOf' = [slotOf EXCEPT ![k] = held[k]]
        /\ at[k] = "add" /\ UNCHANGED <<taken, retries>> /\ End(k, "idle")
    BY <1>9 DEF MoveToDelayed
  <2>3. retries[k] > 0
    BY <1>2, <2>2 DEF GatesAreForRetries
  <2>4. Offset(k)' = BatchOffset(k)
    BY <1>2, <2>1, <2>2, <2>3 DEF Offset, BatchOffset, TypeOK
  <2>5. QED
    BY <1>1, <1>2, <2>1, <2>2, <2>4, HandOver DEF End
<1>10. ASSUME NEW k \in Keys, Fail(k) PROVE HoldersBounded' /\ HoldersApart'
  <2>1. k \in Callers /\ "idle" \in Steps
    BY Constants DEF Steps
  <2>2. slotOf' = [slotOf EXCEPT ![k] = 0] /\ UNCHANGED taken /\ End(k, "idle")
    BY <1>10 DEF Fail
  <2>3. \A j \in Keys \ {k} : runAt'[j] = runAt[j] /\ retries'[j] = retries[j]
    BY <1>2, <1>10 DEF Fail, TypeOK
  <2>4. \A j \in Keys : slotOf'[j] > 0 => j # k /\ slotOf'[j] = slotOf[j]
    BY <1>2, <2>2 DEF TypeOK
  <2>5. QED
    BY <1>6, <2>1, <2>2, <2>3, <2>4
<1>11. CASE UNCHANGED <<taken, slotOf, runAt, retries, readAt, delay, held>>
  BY <1>1, <1>2, <1>11, SameHolders
<1>12. ASSUME NEW k \in Keys, Take(k) \/ Succeed(k) \/ Remove(k)
       PROVE  HoldersBounded' /\ HoldersApart'
  BY <1>11, <1>12 DEF Take, Succeed, Remove, callVars
<1>13. CASE Tick \/ UNCHANGED vars
  BY <1>11, <1>13 DEF Tick, vars, queueVars, callVars
<1>14. QED
  BY <1>1, <1>3, <1>4, <1>5, <1>7, <1>8, <1>9, <1>10, <1>12, <1>13, Constants
     DEF Next, Proceed, Work

-----------------------------------------------------------------------------
\* Rows, jobs, cursors and calls keep their types.
THEOREM EnqueueTyped == Spec => []TypeOK
<1>1. PacingInv => TypeOK
  BY DEF PacingInv
<1>2. QED
  BY InitPacing, StepPacing, <1>1, PTL DEF Spec

\* The script reserves every slot at least GapMin after the last one, for any
\* number of processes, as long as no call lags more than the cursor's slack.
THEOREM SlotsKeepTheirGap == Spec => SlotsAreSpaced
<1>1. PacingInv /\ [Next]_vars =>
        \A i \in Instances :
          taken'[i] # taken[i] => \/ taken[i].count = 0
                                  \/ taken'[i].last >= taken[i].last + GapMin
  <2>1. SUFFICES ASSUME PacingInv, [Next]_vars, NEW j \in Instances,
                        taken'[j] # taken[j], taken[j].count # 0
                 PROVE  taken'[j].last >= taken[j].last + GapMin
    OBVIOUS
  <2>2. PICK c \in Callers : Reserve(c)
    BY <2>1, Constants
       DEF Next, Proceed, Work, vars, CreateRow, ReadClock, AddJob, Lose, Take, MoveToDelayed,
           Succeed, Fail, Remove, Tick
  <2> DEFINE i == InstanceOf[KeyFor(c)]
  <2>3. PICK slot \in Nat :
          /\ taken[i].count > 0 => slot >= taken[i].last + GapMin
          /\ taken' = [taken EXCEPT ![i] = [count |-> @.count + 1, last |-> slot]]
    BY <2>1, <2>2, ReserveTakes
  <2>4. i = j
    BY <2>1, <2>3 DEF PacingInv, TypeOK
  <2>5. taken[j].count \in Nat /\ taken'[j].last = slot
    BY <2>1, <2>3, <2>4 DEF PacingInv, TypeOK
  <2>6. QED
    BY <2>1, <2>3, <2>4, <2>5
<1>2. QED
  BY InitPacing, StepPacing, <1>1, PTL DEF Spec, SlotsAreSpaced

\* Jobs that carry slots of one instance, with the same batch offset, are due
\* GapMin apart, save for the lag of the call that added the later one.
THEOREM ReservedJobsKeepTheirGap == Spec => []ReservedJobsSpread
<1>1. SpreadInv => ReservedJobsSpread
  <2>1. SUFFICES ASSUME SpreadInv, NEW a \in Keys, NEW b \in Keys, a # b,
                        InstanceOf[a] = InstanceOf[b], slotOf[a] > 0, slotOf[b] > 0,
                        Offset(a) = Offset(b), slotOf[a] <= slotOf[b]
                 PROVE  runAt[b] + MaxLag >= runAt[a] + GapMin
    BY DEF ReservedJobsSpread, SpreadApart
  <2> DEFINE g == <<"job", a>>
             h == <<"job", b>>
  <2>2. g \in Holders /\ h \in Holders /\ g # h /\ InstanceFor(g) = InstanceFor(h)
    BY <2>1, Constants DEF Holders, InstanceFor
  <2>3. /\ Number(g) = slotOf[a] /\ Number(h) = slotOf[b]
        /\ High(h) = runAt[b] - Offset(b) /\ Low(g) = runAt[a] - Offset(a) - MaxLag
    BY DEF Number, High, Low
  <2>4. /\ slotOf[a] # slotOf[b]
        /\ slotOf[a] < slotOf[b] => High(h) >= Low(g) + GapMin
    BY <2>1, <2>2, <2>3 DEF SpreadInv, HoldersApart, Apart
  <2>5. /\ slotOf[a] \in Nat /\ slotOf[b] \in Nat /\ runAt[a] \in Nat /\ runAt[b] \in Nat
        /\ Offset(a) \in Nat
    BY <2>1, KeyAssumption DEF SpreadInv, PacingInv, TypeOK, Offset
  <2>6. QED
    BY <2>1, <2>3, <2>4, <2>5, TimeAssumption
<1>2. QED
  BY InitSpread, StepSpread, <1>1, PTL DEF Spec

-----------------------------------------------------------------------------
(* What an earlier call left undone is repaired by the next one that gets to *)
(* its add: the queue drops a job only once its row says how it ended.  The  *)
(* one case that needs the gate is an attempt that fails inside it, which    *)
(* writes no row: the gate runs for retries only, and the first failure of a *)
(* message, never in the gate, has marked its row.                           *)

Attempted(k) == row[k] \in {"sent", "failed"}
QueuedInv ==
  /\ PacingInv
  /\ DoneMeansQueued
  /\ \A k \in Keys : job[k] \in {"completed", "failed"} \/ retries[k] > 0 => Attempted(k)

\* A step that forgets no row, and no job of a message not attempted, and that
\* completes no call without leaving its job, keeps QueuedInv.
LEMMA StaysQueued ==
  ASSUME QueuedInv, PacingInv',
         \A k \in Keys : Attempted(k) => Attempted(k)',
         \A k \in Keys : job[k] # "none" => job'[k] # "none" \/ Attempted(k)',
         \A k \in Keys : job'[k] \in {"completed", "failed"} \/ retries'[k] > 0 =>
           \/ job[k] \in {"completed", "failed"} \/ retries[k] > 0
           \/ Attempted(k)',
         \A r \in Requests : at'[r] = "done" => at[r] = "done" \/ job'[KeyOf[r]] # "none"
  PROVE  QueuedInv'
<1>1. DoneMeansQueued'
  <2>1. SUFFICES ASSUME NEW r \in Requests, at'[r] = "done"
                 PROVE  job'[KeyOf[r]] # "none" \/ Attempted(KeyOf[r])'
    BY DEF DoneMeansQueued, Attempted
  <2>2. KeyOf[r] \in Keys
    BY KeyAssumption
  <2>3. CASE job'[KeyOf[r]] # "none"
    BY <2>3
  <2>4. CASE at[r] = "done"
    <3>1. job[KeyOf[r]] # "none" \/ Attempted(KeyOf[r])
      BY <2>4 DEF QueuedInv, DoneMeansQueued, Attempted
    <3>2. QED
      BY <2>2, <3>1
  <2>5. QED
    BY <2>1, <2>3, <2>4
<1>2. \A k \in Keys : job'[k] \in {"completed", "failed"} \/ retries'[k] > 0 => Attempted(k)'
  BY DEF QueuedInv
<1>3. QED
  BY <1>1, <1>2 DEF QueuedInv

LEMMA InitQueued == Init => QueuedInv
<1>1. SUFFICES ASSUME Init PROVE QueuedInv
  OBVIOUS
<1>2. DoneMeansQueued
  BY <1>1, Constants DEF Init, DoneMeansQueued
<1>3. QED
  BY <1>1, <1>2, InitPacing DEF QueuedInv, Init

LEMMA StepQueued == QueuedInv /\ [Next]_vars => QueuedInv'
<1>1. SUFFICES ASSUME QueuedInv, [Next]_vars PROVE QueuedInv'
  OBVIOUS
<1>2. PacingInv /\ PacingInv' /\ TypeOK /\ GatesAreForRetries
  BY <1>1, StepPacing DEF QueuedInv, PacingInv
<1>3. ASSUME NEW r \in Requests, CreateRow(r) PROVE QueuedInv'
  <2>1. \A k \in Keys : Attempted(k) => Attempted(k)'
    BY <1>2, <1>3, KeyAssumption DEF CreateRow, Attempted, TypeOK
  <2>2. \A q \in Requests : at'[q] = "done" => at[q] = "done"
    BY <1>2, <1>3 DEF CreateRow, TypeOK, Callers
  <2>3. UNCHANGED <<job, retries>>
    BY <1>3 DEF CreateRow, queueVars
  <2>4. QED
    BY <1>1, <1>2, <2>1, <2>2, <2>3, StaysQueued
<1>4. ASSUME NEW c \in Callers, ReadClock(c) \/ Reserve(c) PROVE QueuedInv'
  <2>1. UNCHANGED <<row, job, retries>>
    BY <1>4 DEF ReadClock, Reserve, queueVars
  <2>2. \A q \in Requests : at'[q] = "done" => at[q] = "done"
    BY <1>2, <1>4 DEF ReadClock, Reserve, TypeOK, Callers
  <2>3. QED
    BY <1>1, <1>2, <2>1, <2>2, StaysQueued DEF Attempted
<1>5. ASSUME NEW r \in Requests, AddJob(r) PROVE QueuedInv'
  <2>1. KeyOf[r] \in Keys /\ row' = row
    BY <1>5, KeyAssumption DEF AddJob
  <2>2. job'[KeyOf[r]] # "none"
    BY <1>2, <1>5, <2>1 DEF AddJob, TypeOK, queueVars
  <2>3. \A k \in Keys : job[k] # "none" => job'[k] = job[k]
    BY <1>2, <1>5, <2>1 DEF AddJob, TypeOK, queueVars
  <2>4. \A k \in Keys : job'[k] = job[k] \/ job'[k] = "delayed"
    BY <1>2, <1>5, <2>1 DEF AddJob, TypeOK, queueVars
  <2>5. \A k \in Keys : retries'[k] > 0 => retries[k] > 0
    BY <1>2, <1>5, <2>1 DEF AddJob, TypeOK, queueVars
  <2>6. \A q \in Requests \ {r} : at'[q] = at[q]
    BY <1>2, <1>5 DEF AddJob, End, TypeOK, Callers
  <2>7. QED
    BY <1>1, <1>2, <2>1, <2>2, <2>3, <2>4, <2>5, <2>6, StaysQueued DEF Attempted
<1>6. ASSUME NEW r \in Requests, Lose(r) PROVE QueuedInv'
  <2>1. UNCHANGED <<row, job, retries>>
    BY <1>6 DEF Lose, queueVars
  <2>2. \A q \in Requests : at'[q] = "done" => at[q] = "done"
    BY <1>2, <1>6 DEF Lose, End, TypeOK, Callers
  <2>3. QED
    BY <1>1, <1>2, <2>1, <2>2, StaysQueued DEF Attempted
<1>7. ASSUME NEW k \in Keys, Take(k) \/ MoveToDelayed(k) PROVE QueuedInv'
  <2>1. UNCHANGED <<row, retries>>
    BY <1>7 DEF Take, MoveToDelayed
  <2>2. \A j \in Keys : job'[j] = job[j] \/ job'[j] \in {"active", "delayed"}
    BY <1>2, <1>7 DEF Take, MoveToDelayed, TypeOK
  <2>3. \A q \in Requests : at'[q] = at[q]
    BY <1>2, <1>7, Constants DEF Take, MoveToDelayed, End, TypeOK, Callers
  <2>4. QED
    BY <1>1, <1>2, <2>1, <2>2, <2>3, StaysQueued DEF Attempted
<1>8. ASSUME NEW k \in Keys, Succeed(k) PROVE QueuedInv'
  <2>1. Attempted(k)' /\ \A j \in Keys \ {k} : row'[j] = row[j] /\ job'[j] = job[j]
    BY <1>2, <1>8 DEF Succeed, TypeOK, Attempted
  <2>2. UNCHANGED <<retries, at>>
    BY <1>8 DEF Succeed, callVars
  <2>3. QED
    BY <1>1, <1>2, <2>1, <2>2, StaysQueued DEF Attempted
<1>9. ASSUME NEW k \in Keys, Fail(k) PROVE QueuedInv'
  <2>1. Attempted(k)'
    <3>1. CASE at[k] = "idle"
      BY <1>2, <1>9, <3>1 DEF Fail, TypeOK, Attempted
    <3>2. CASE at[k] # "idle"
      <4>1. retries[k] > 0
        BY <1>2, <3>2 DEF GatesAreForRetries
      <4>2. Attempted(k)
        BY <1>1, <4>1 DEF QueuedInv
      <4>3. QED
        BY <1>2, <1>9, <3>2, <4>2 DEF Fail, TypeOK, Attempted
    <3>3. QED
      BY <3>1, <3>2
  <2>2. \A j \in Keys \ {k} : row'[j] = row[j] /\ job'[j] = job[j] /\ retries'[j] = retries[j]
    BY <1>2, <1>9 DEF Fail, TypeOK
  <2>3. \A q \in Requests : at'[q] = at[q]
    BY <1>2, <1>9, Constants DEF Fail, End, TypeOK, Callers
  <2>4. QED
    BY <1>1, <1>2, <2>1, <2>2, <2>3, StaysQueued DEF Attempted
<1>10. ASSUME NEW k \in Keys, Remove(k) PROVE QueuedInv'
  <2>1. UNCHANGED <<row, retries, at>>
    BY <1>10 DEF Remove, callVars
  <2>2. Attempted(k) /\ \A j \in Keys : job'[j] = IF j = k THEN "none" ELSE job[j]
    BY <1>1, <1>2, <1>10 DEF Remove, QueuedInv, TypeOK
  <2>3. QED
    BY <1>1, <1>2, <2>1, <2>2, StaysQueued DEF Attempted
<1>11. CASE Tick \/ UNCHANGED vars
  <2>1. UNCHANGED <<row, job, retries, at>>
    BY <1>11 DEF Tick, vars, queueVars, callVars
  <2>2. QED
    BY <1>1, <1>2, <2>1, StaysQueued DEF Attempted
<1>12. QED
  BY <1>1, <1>3, <1>4, <1>5, <1>6, <1>7, <1>8, <1>9, <1>10, <1>11, Constants
     DEF Next, Proceed, Work

\* A call of enqueue that returned after its add has left a job behind, or the
\* message has been attempted, whatever calls for the same key died before it.
THEOREM DoneLeavesAJob == Spec => []DoneMeansQueued
<1>1. QueuedInv => DoneMeansQueued
  BY DEF QueuedInv
<1>2. QED
  BY InitQueued, StepQueued, <1>1, PTL DEF Spec
=============================================================================
