------------------------------ MODULE CheckInProps ------------------------------
(* What the check-in promises. *)
EXTENDS CheckIn

\* The type of every variable of the check-in.
TypeOKDoor ==
  /\ guest \in [Guests -> [is : {"free", "row", "gone"}, phone : Numbers \cup {None},
                           event : Nights \cup {None}, attended : BOOLEAN]]
  /\ night \in [Nights -> Instants \cup {None}] /\ clock \in Instants
  /\ door \in [Doors -> [at : {"idle", "mark"}, phone : Numbers \cup {None}, mine : SUBSET Guests,
                         event : Nights \cup {None}, quiet : BOOLEAN]]
  /\ doorCalls \in 0..MaxDoorCalls

\* One person's phone, written in two ways that both occur in the table.
SamePhone(x, y) ==
  IF x.country = "other" THEN x = y
  ELSE y.country # "other" /\ x.ddd = y.ddd /\ x.line = y.line

\* Who checks in is marked in every registration of theirs at one event and in no other, in
\* nobody else's, and never unmarked; and that event is today's if they are in one of today
\* (what the doc of checkIn promises: "quem chega e digita o telefone está no evento que
\* está acontecendo agora"), unless something changed between the query and the update.
\* Whatever changed, it stays within one event.
DoorMarksTheRightEvent ==
  [][\A d \in Doors : MarkPresent(d) =>
       LET marked == {g \in Guests : guest'[g] # guest[g]}
           theirs == {g \in Seats : SamePhone(guest[g].phone, door[d].phone) /\ night[guest[g].event] # None} IN
       /\ \A g, o \in marked : guest[g].event = guest[o].event
       /\ \A g \in marked : guest'[g].attended /\ guest'[g] = [guest[g] EXCEPT !.attended = TRUE]
       /\ door[d].quiet =>
            /\ marked \subseteq theirs
            /\ \A g \in theirs : guest[g].event = door[d].event => guest'[g].attended
            /\ \A g \in theirs : Day(night[guest[g].event]) = Day(clock) =>
                                   Day(night[door[d].event]) = Day(clock)
            /\ \E g \in theirs : guest'[g].attended]_doorVars
=============================================================================
