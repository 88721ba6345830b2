------------------------------- MODULE CheckIn -------------------------------
(***************************************************************************)
(* The check-in at the door (registration.service.ts: checkIn,             *)
(* shared/handlers/phone.ts): who arrives types a phone, and the event is  *)
(* found out from the dates.  The registrations are read with one query    *)
(* and marked with another; meanwhile people register, the staff mark and  *)
(* delete registrations, and events are moved to other dates.              *)
(***************************************************************************)
EXTENDS Integers, Nulls

CONSTANTS
  Guests,        \* ids of registrations, never used twice
  Nights,        \* events
  Numbers,        \* phones as typed: records, see brNationalNumber
  Doors,         \* requests in flight
  DayLength,     \* instants in a day
  LastInstant,   \* bound: the time
  MaxDoorCalls   \* bound: what is requested

ASSUME DoorAssumption ==
  /\ \A x \in Numbers : /\ x.country \in {"55", "none", "other"} /\ x.ddd \in Nat /\ x.nine \in BOOLEAN
                       /\ x.line \in Nat
                       /\ None \notin {x, [ddd |-> x.ddd, nine |-> x.nine, line |-> x.line]}
  /\ DayLength \in Nat \ {0} /\ {LastInstant, MaxDoorCalls} \subseteq Nat
  /\ None \notin Guests \cup Nights

VARIABLES
  guest,      \* rows of registrations
  night,      \* events.eventDate
  clock,
  door,       \* door[d]: the locals of checkIn
  doorCalls

doorVars == <<guest, night, clock, door, doorCalls>>

Nobody == [is |-> "free", phone |-> None, event |-> None, attended |-> FALSE]
NoDoor == [at |-> "idle", phone |-> None, mine |-> {}, event |-> None,
           quiet |-> TRUE]      \* history: nothing changed since it read

Instants == 0..LastInstant

InitDoor ==
  /\ \E x \in [Guests -> Numbers], e \in [Guests -> Nights], S \in SUBSET Guests :
       guest = [g \in Guests |-> IF g \in S THEN [is |-> "row", phone |-> x[g], event |-> e[g], attended |-> FALSE]
                                 ELSE Nobody]
  /\ night \in [Nights -> Instants \cup {None}]
  /\ clock \in Instants
  /\ door = [d \in Doors |-> NoDoor] /\ doorCalls = 0

-----------------------------------------------------------------------------
(* phone.ts.  A Brazilian number is DDD, perhaps a nine, and eight digits.  *)

brNationalNumber(x) ==
  IF x.country = "other" THEN None ELSE [ddd |-> x.ddd, nine |-> x.nine, line |-> x.line]

normalizePhone(x) == brNationalNumber(x)

\* The nine does not count; abroad every digit does.
phoneMatchKey(x) ==
  IF brNationalNumber(x) = None THEN x ELSE [country |-> "55", ddd |-> x.ddd, line |-> x.line]

phoneMatchSuffix(key) == key.line

-----------------------------------------------------------------------------
(* checkIn. *)

Seats == {g \in Guests : guest[g].is = "row"}
Day(t) == t \div DayLength
Apart(m, n) == IF m < n THEN n - m ELSE m - n

findByPhoneWithEventDate(suffix) ==
  {g \in Seats : night[guest[g].event] # None /\ guest[g].phone.line = suffix}

Matches(x) ==
  {g \in findByPhoneWithEventDate(phoneMatchSuffix(phoneMatchKey(x))) :
     phoneMatchKey(guest[g].phone) = phoneMatchKey(x)}

NearerInstant(e, f) == Apart(night[e], clock) < Apart(night[f], clock)
Nearer(e, f) ==
  LET days(n) == Apart(Day(night[n]), Day(clock)) IN
  \/ days(e) < days(f)
  \/ days(e) = days(f) /\ NearerInstant(e, f)

\* The query has no order, so any one of those as near.
pickClosestToToday(S) == {g \in S : \A o \in S : ~Nearer(guest[o].event, guest[g].event)}

Requested == doorCalls < MaxDoorCalls /\ doorCalls' = doorCalls + 1
Disturbed == [d \in Doors |-> [door[d] EXCEPT !.quiet = @ /\ door[d].at = "idle"]]

AtTheDoor(d) ==
  \E x \in Numbers :
    /\ door[d].at = "idle" /\ Requested
    /\ \E g \in pickClosestToToday(Matches(x)) :
         door' = [door EXCEPT ![d] =
           [NoDoor EXCEPT !.at = "mark", !.phone = x, !.event = guest[g].event,
                          !.mine = {o \in Matches(x) : guest[o].event = guest[g].event}]]
    /\ UNCHANGED <<guest, night, clock>>

\* updateMany: the ids that are still rows of the event.
setAttendance(ids, e, b) ==
  guest' = [g \in Guests |-> IF g \in ids \cap Seats /\ guest[g].event = e
                             THEN [guest[g] EXCEPT !.attended = b] ELSE guest[g]]

MarkPresent(d) ==
  /\ door[d].at = "mark" /\ setAttendance(door[d].mine, door[d].event, TRUE)
  /\ door' = [Disturbed EXCEPT ![d] = NoDoor]
  /\ UNCHANGED <<night, clock, doorCalls>>

-----------------------------------------------------------------------------
(* Meanwhile. *)

StaffMarks ==
  \E S \in SUBSET Seats \ {{}}, e \in Nights, b \in BOOLEAN :
    Requested /\ setAttendance(S, e, b) /\ door' = Disturbed /\ UNCHANGED <<night, clock>>

StaffDeletes ==
  \E S \in SUBSET Seats \ {{}}, e \in Nights :
    /\ Requested /\ door' = Disturbed /\ UNCHANGED <<night, clock>>
    /\ guest' = [g \in Guests |-> IF g \in S /\ guest[g].event = e THEN [guest[g] EXCEPT !.is = "gone"] ELSE guest[g]]

\* Found in the event by the phone, nine and all, a registration is not made again.
Enrol ==
  \E g \in Guests, x \in Numbers, e \in Nights :
    /\ guest[g].is = "free" /\ g = CHOOSE o \in Guests : guest[o].is = "free"
    /\ \A o \in Seats : guest[o].event = e => normalizePhone(guest[o].phone) # normalizePhone(x)
    /\ Requested /\ door' = Disturbed /\ UNCHANGED <<night, clock>>
    /\ guest' = [guest EXCEPT ![g] = [Nobody EXCEPT !.is = "row", !.phone = x, !.event = e]]

\* updateAnswers, with another phone.
CorrectPhone ==
  \E g \in Seats, x \in Numbers :
    /\ x # guest[g].phone /\ Requested /\ door' = Disturbed /\ UNCHANGED <<night, clock>>
    /\ guest' = [guest EXCEPT ![g].phone = x]

Reschedule ==
  \E e \in Nights, t \in Instants :
    /\ t # night[e] /\ Requested /\ door' = Disturbed /\ UNCHANGED <<guest, clock>>
    /\ night' = [night EXCEPT ![e] = t]

TimeGoesBy ==
  clock < LastInstant /\ clock' = clock + 1 /\ door' = Disturbed /\ UNCHANGED <<guest, night, doorCalls>>

NextDoor ==
  \/ \E d \in Doors : AtTheDoor(d) \/ MarkPresent(d)
  \/ StaffMarks \/ StaffDeletes \/ Enrol \/ CorrectPhone \/ Reschedule \/ TimeGoesBy

SpecDoor == InitDoor /\ [][NextDoor]_doorVars
=============================================================================
