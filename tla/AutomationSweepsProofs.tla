----------------------- MODULE AutomationSweepsProofs -----------------------
(***************************************************************************)
(* Proofs about AutomationSweeps, for any number of rules, registrations,  *)
(* sweeps, faults and edits.                                               *)
(***************************************************************************)
EXTENDS AutomationSweepsProps, TLAPS

LEMMA Constants ==
  /\ DateRules \cap DelayRules = {} /\ DateSweepers \cap DelaySweepers = {}
  /\ Nobody \notin Regs
  /\ Dates \subseteq Nat /\ Delays \subseteq Int
  /\ MaxLateness \in Nat /\ MaxTime \in Nat /\ MaxFaults \in Nat /\ MaxEdits \in Nat
  BY SweepAssumption

LEMMA IdleTyped == Idle \in Locals
  BY DEF Idle, Locals

LEMMA DueTyped ==
  ASSUME TypeOK, NEW r \in Rules
  PROVE  DueAt(r) \in Int
<1>1. rule[r].when \in Int /\ event.date \in Nat
  BY DEF TypeOK, Row
<1> QED
  BY <1>1 DEF DueAt

LEMMA ChoicesTyped ==
  ASSUME NEW r \in Rules
  PROVE  Choices(r) \subseteq Int
  BY Constants DEF Choices

LEMMA CandidatesTyped ==
  ASSUME TypeOK, NEW s \in Sweepers
  PROVE  Candidates(s) \subseteq Candidate
<1> SUFFICES ASSUME NEW i \in Candidates(s) PROVE i \in Candidate
  OBVIOUS
<1>1. PICK r \in Rules :
        i = [rule |-> r, due |-> DueAt(r), firedFor |-> rule[r].firedFor]
  BY DEF Candidates, Rules
<1>2. rule[r].firedFor \in SUBSET Int
  BY DEF TypeOK, Row
<1> QED
  BY <1>1, <1>2, DueTyped DEF Candidate

LEMMA ContinueTyped ==
  ASSUME NEW left \in SUBSET Candidate
  PROVE  Continue(left) \in Locals
  BY IdleTyped DEF Continue, Idle, Locals

-----------------------------------------------------------------------------
(* The inductive invariant. *)

\* The locals of a sweep: one rule in hand, the registration about to be enqueued is
\* still among those left, and the others of its audience have been served.
LocalsGood(loc, served) ==
  /\ \A i, j \in loc.item : i = j
  /\ loc.at = "enqueue" => loc.who \in loc.left
  /\ \A i \in loc.item : \A g \in loc.to \ loc.left : <<g, i.rule, i.due>> \in served
HandsGood == \A s \in Sweepers : LocalsGood(sweep[s], outbox \cup dropped)

ServedInv == TypeOK /\ HandsGood /\ FiredMeansServed

\* What a sweep holds, and what it has sent, is for the date the rule still has.
Holds(s) == sweep[s].todo \cup sweep[s].item
HeldIsCurrent ==
  \A s \in Sweepers : \A i \in Holds(s) :
    /\ rule[i.rule].is # "new"
    /\ i.rule \in DateRules \ raced => i.due = rule[i.rule].when
SentIsCurrent ==
  \A key \in outbox :
    /\ rule[key[2]].is # "new"
    /\ key[2] \in DateRules \ raced => key[3] = rule[key[2]].when
FiredStaysPut ==
  patch # NoPatch /\ patch.rule \in DateRules /\ patch.seen.marked
    => patch.when = patch.seen.when

OnceInv == ServedInv /\ HeldIsCurrent /\ SentIsCurrent /\ FiredStaysPut

\* What a step of a sweep may do.
Shape(s) ==
  /\ \E loc \in Locals :
       /\ sweep' = [sweep EXCEPT ![s] = loc]
       /\ LocalsGood(loc, outbox' \cup dropped')
       /\ loc.todo \cup loc.item \subseteq Holds(s) \cup Candidates(s)
  /\ outbox \subseteq outbox' /\ dropped \subseteq dropped'
  /\ dropped' \subseteq Regs \X Rules \X Int
  /\ \A k \in outbox' \ outbox : \E g \in Regs, i \in sweep[s].item : k = <<g, i.rule, i.due>>
  /\ rule' \in [Rules -> Row]
  /\ \A r \in Rules : rule'[r].when = rule[r].when /\ rule'[r].is = rule[r].is
  /\ settled' \subseteq [rule : Rules, due : Int, to : SUBSET Regs]
  /\ \A m \in settled' \ settled : \A g \in m.to :
       <<g, m.rule, m.due>> \in outbox' \cup dropped'
  /\ faults' \in Nat
  /\ UNCHANGED <<clock, event, approved, patch, edits, raced>>

LEMMA LocalsTyped ==
  ASSUME TypeOK, NEW s \in Sweepers
  PROVE  /\ sweep[s] \in Locals
         /\ sweep[s].todo \subseteq Candidate /\ sweep[s].item \subseteq Candidate
         /\ sweep[s].to \subseteq Regs /\ sweep[s].left \subseteq Regs
         /\ \A i \in sweep[s].item : i.rule \in Rules /\ i.due \in Int
<1>1. sweep[s] \in Locals
  BY DEF TypeOK
<1> QED
  BY <1>1 DEF Locals, Candidate

LEMMA ContinueGood ==
  ASSUME NEW left, NEW served
  PROVE  LocalsGood(Continue(left), served) /\ Continue(left).item = {}
         /\ Continue(left).todo \subseteq left
<1>1. CASE left = {}
  BY <1>1 DEF Continue, Idle, LocalsGood
<1>2. CASE left # {}
  BY <1>2 DEF Continue, Idle, LocalsGood
<1> QED
  BY <1>1, <1>2

\* A step that only moves the locals of s.
LEMMA OnlyLocals ==
  ASSUME TypeOK, NEW s \in Sweepers, NEW loc \in Locals,
         sweep' = [sweep EXCEPT ![s] = loc],
         LocalsGood(loc, outbox \cup dropped),
         loc.todo \cup loc.item \subseteq Holds(s) \cup Candidates(s),
         faults' \in Nat,
         UNCHANGED <<clock, event, rule, approved, outbox, patch, edits, history>>
  PROVE  Shape(s)
<1>1. /\ dropped \subseteq Regs \X Rules \X Int /\ rule \in [Rules -> Row]
      /\ settled \subseteq [rule : Rules, due : Int, to : SUBSET Regs]
  BY DEF TypeOK
<1>2. /\ outbox' = outbox /\ dropped' = dropped /\ settled' = settled /\ rule' = rule
      /\ UNCHANGED <<clock, event, approved, patch, edits, raced>>
  BY DEF history
<1>3. LocalsGood(loc, outbox' \cup dropped')
  BY <1>2
<1> QED
  BY <1>1, <1>2, <1>3 DEF Shape

LEMMA StartShape ==
  ASSUME TypeOK, NEW s \in Sweepers, StartSweep(s)
  PROVE  Shape(s)
<1> DEFINE loc == [Idle EXCEPT !.at = "next", !.todo = Candidates(s)]
<1>1. loc \in Locals
  BY CandidatesTyped DEF Idle, Locals
<1>2. /\ LocalsGood(loc, outbox \cup dropped)
      /\ loc.todo \cup loc.item \subseteq Holds(s) \cup Candidates(s)
  BY DEF Idle, LocalsGood
<1>3. faults' \in Nat
  BY DEF StartSweep, TypeOK
<1>4. /\ sweep' = [sweep EXCEPT ![s] = loc]
      /\ UNCHANGED <<clock, event, rule, approved, outbox, patch, edits, history>>
  BY DEF StartSweep
<1> HIDE DEF loc
<1> QED
  BY <1>1, <1>2, <1>3, <1>4, OnlyLocals

LEMMA DieShape ==
  ASSUME TypeOK, NEW s \in Sweepers, SweepDies(s)
  PROVE  Shape(s)
<1>1. /\ LocalsGood(Idle, outbox \cup dropped)
      /\ Idle.todo \cup Idle.item \subseteq Holds(s) \cup Candidates(s)
  BY DEF Idle, LocalsGood
<1>2. faults' \in Nat
  BY DEF SweepDies, TypeOK
<1>3. /\ sweep' = [sweep EXCEPT ![s] = Idle]
      /\ UNCHANGED <<clock, event, rule, approved, outbox, patch, edits, history>>
  BY DEF SweepDies
<1> QED
  BY <1>1, <1>2, <1>3, IdleTyped, OnlyLocals

LEMMA TakeShape ==
  ASSUME TypeOK, NEW s \in Sweepers, TakeRule(s)
  PROVE  Shape(s)
<1>1. PICK i \in sweep[s].todo :
        LET left == sweep[s].todo \ {i}
            send == clock - i.due <= MaxLateness /\ event.status # "deleted"
            to == IF send THEN approved ELSE {}
        IN  sweep' = [sweep EXCEPT ![s] =
              IF IsDue(i)
              THEN [at |-> "fire", todo |-> left, item |-> {i}, to |-> to, left |-> to,
                    who |-> Nobody]
              ELSE Continue(left)]
  BY DEF TakeRule
<1> DEFINE rest == sweep[s].todo \ {i}
           take(to) == [at |-> "fire", todo |-> rest, item |-> {i}, to |-> to, left |-> to,
                        who |-> Nobody]
<1>2. i \in Candidate /\ rest \subseteq Candidate /\ rest \subseteq Holds(s) /\ i \in Holds(s)
  BY LocalsTyped DEF Holds
<1>3. PICK to \in {approved, {}} : \/ sweep' = [sweep EXCEPT ![s] = take(to)]
                                   \/ sweep' = [sweep EXCEPT ![s] = Continue(rest)]
  BY <1>1
<1>4. faults' \in Nat /\ UNCHANGED <<clock, event, rule, approved, outbox, patch, edits, history>>
  BY DEF TakeRule, TypeOK
<1>5. CASE sweep' = [sweep EXCEPT ![s] = take(to)]
  <2>1. to \subseteq Regs
    BY DEF TypeOK
  <2>2. take(to) \in Locals
    BY <1>2, <2>1 DEF Locals
  <2>3. /\ LocalsGood(take(to), outbox \cup dropped)
        /\ take(to).todo \cup take(to).item \subseteq Holds(s) \cup Candidates(s)
    BY <1>2 DEF LocalsGood
  <2> HIDE DEF take
  <2> QED
    BY <1>4, <1>5, <2>2, <2>3, OnlyLocals
<1>6. CASE sweep' = [sweep EXCEPT ![s] = Continue(rest)]
  <2>1. /\ Continue(rest) \in Locals
        /\ LocalsGood(Continue(rest), outbox \cup dropped)
        /\ Continue(rest).todo \cup Continue(rest).item \subseteq Holds(s) \cup Candidates(s)
    BY <1>2, ContinueTyped, ContinueGood
  <2> HIDE DEF rest
  <2> QED
    BY <1>4, <1>6, <2>1, OnlyLocals
<1> QED
  BY <1>3, <1>5, <1>6

\* The recipient in hand is done with, served or dropped.
LEMMA NextRecipient ==
  ASSUME TypeOK, NEW s \in Sweepers, NEW i \in sweep[s].item, NEW g \in sweep[s].left,
         LocalsGood(sweep[s], outbox \cup dropped),
         NEW served, outbox \cup dropped \subseteq served, <<g, i.rule, i.due>> \in served,
         NEW loc, loc = [sweep[s] EXCEPT !.at = "fire", !.who = Nobody, !.left = @ \ {g}]
  PROVE  /\ loc \in Locals
         /\ LocalsGood(loc, served)
         /\ loc.todo \cup loc.item \subseteq Holds(s)
<1>1. /\ loc.at = "fire" /\ loc.todo = sweep[s].todo /\ loc.item = sweep[s].item
      /\ loc.to = sweep[s].to /\ loc.left = sweep[s].left \ {g}
      /\ loc \in Locals
  BY LocalsTyped DEF Locals
<1>2. \A j \in loc.item : \A h \in loc.to \ loc.left : <<h, j.rule, j.due>> \in served
  BY <1>1 DEF LocalsGood
<1> QED
  BY <1>1, <1>2 DEF LocalsGood, Holds

LEMMA CheckShape ==
  ASSUME TypeOK, HandsGood, NEW s \in Sweepers, CheckRecipient(s)
  PROVE  Shape(s)
<1>1. PICK i \in sweep[s].item, g \in sweep[s].left :
       IF Live(i.rule) /\ rule[i.rule].active /\ event.status \in Sendable
       THEN /\ sweep' = [sweep EXCEPT ![s].at = "enqueue", ![s].who = g]
            /\ UNCHANGED dropped
       ELSE /\ sweep' = [sweep EXCEPT ![s].left = @ \ {g}]
            /\ dropped' = dropped \cup {Key(s, g, i)}
  BY DEF CheckRecipient
<1>2. /\ sweep[s].at = "fire"
      /\ UNCHANGED <<clock, event, rule, approved, outbox, patch, faults, edits, settled, raced>>
  BY DEF CheckRecipient
<1>3. /\ i.rule \in Rules /\ i.due \in Int /\ g \in Regs
      /\ sweep[s] \in Locals /\ sweep \in [Sweepers -> Locals]
  BY LocalsTyped DEF TypeOK
<1>4. LocalsGood(sweep[s], outbox \cup dropped)
  BY DEF HandsGood
<1>5. /\ dropped \subseteq Regs \X Rules \X Int /\ rule \in [Rules -> Row] /\ faults \in Nat
      /\ settled \subseteq [rule : Rules, due : Int, to : SUBSET Regs]
  BY DEF TypeOK
<1>6. CASE sweep' = [sweep EXCEPT ![s].at = "enqueue", ![s].who = g] /\ dropped' = dropped
  <2> DEFINE loc == [sweep[s] EXCEPT !.at = "enqueue", !.who = g]
  <2>1. loc \in Locals
    BY <1>3 DEF Locals
  <2>2. /\ loc.at = "enqueue" /\ loc.who = g /\ loc.todo = sweep[s].todo
        /\ loc.item = sweep[s].item /\ loc.to = sweep[s].to /\ loc.left = sweep[s].left
    BY <1>3 DEF Locals
  <2>3. LocalsGood(loc, outbox \cup dropped)
    BY <1>4, <2>2 DEF LocalsGood
  <2>4. loc.todo \cup loc.item \subseteq Holds(s) \cup Candidates(s)
    BY <2>2 DEF Holds
  <2>5. sweep' = [sweep EXCEPT ![s] = loc]
    BY <1>3, <1>6
  <2>6. UNCHANGED <<clock, event, rule, approved, outbox, patch, edits, history>> /\ faults' \in Nat
    BY <1>2, <1>5, <1>6 DEF history
  <2> HIDE DEF loc
  <2> QED
    BY <2>1, <2>3, <2>4, <2>5, <2>6, OnlyLocals
<1>7. CASE /\ sweep' = [sweep EXCEPT ![s].left = @ \ {g}]
           /\ dropped' = dropped \cup {Key(s, g, i)}
  <2> DEFINE loc == [sweep[s] EXCEPT !.left = @ \ {g}]
  <2>1. loc \in Locals
    BY <1>3 DEF Locals
  <2>2. /\ loc.at = "fire" /\ loc.todo = sweep[s].todo /\ loc.item = sweep[s].item
        /\ loc.to = sweep[s].to /\ loc.left = sweep[s].left \ {g}
    BY <1>2, <1>3 DEF Locals
  <2>3. <<g, i.rule, i.due>> \in dropped' /\ dropped \subseteq dropped'
    BY <1>7 DEF Key
  <2>4. \A j \in loc.item : \A h \in loc.to \ loc.left :
          <<h, j.rule, j.due>> \in outbox' \cup dropped'
    BY <1>2, <1>4, <2>2, <2>3 DEF LocalsGood
  <2>5. LocalsGood(loc, outbox' \cup dropped')
    BY <1>4, <2>2, <2>4 DEF LocalsGood
  <2>6. loc.todo \cup loc.item \subseteq Holds(s) \cup Candidates(s)
    BY <2>2 DEF Holds
  <2>7. sweep' = [sweep EXCEPT ![s] = loc]
    BY <1>3, <1>7
  <2>8. dropped' \subseteq Regs \X Rules \X Int
    BY <1>3, <1>5, <1>7 DEF Key
  <2> HIDE DEF loc
  <2> QED
    BY <1>2, <1>5, <2>1, <2>3, <2>5, <2>6, <2>7, <2>8 DEF Shape
<1> QED
  BY <1>1, <1>6, <1>7

LEMMA EnqueueShape ==
  ASSUME TypeOK, HandsGood, NEW s \in Sweepers, Enqueue(s)
  PROVE  Shape(s)
<1>1. PICK i \in sweep[s].item : outbox' = outbox \cup {Key(s, sweep[s].who, i)}
  BY DEF Enqueue
<1>2. /\ sweep[s].at = "enqueue"
      /\ sweep' = [sweep EXCEPT ![s].at = "fire", ![s].who = Nobody,
                                ![s].left = @ \ {sweep[s].who}]
      /\ UNCHANGED <<clock, event, rule, approved, patch, faults, edits, history>>
  BY DEF Enqueue
<1>3. LocalsGood(sweep[s], outbox \cup dropped) /\ sweep[s].who \in sweep[s].left
  BY <1>2 DEF HandsGood, LocalsGood
<1>4. sweep[s].who \in Regs /\ sweep \in [Sweepers -> Locals]
  BY <1>3, LocalsTyped DEF TypeOK
<1> DEFINE loc == [sweep[s] EXCEPT !.at = "fire", !.who = Nobody, !.left = @ \ {sweep[s].who}]
<1>5. sweep' = [sweep EXCEPT ![s] = loc]
  BY <1>2, <1>4
<1>6. /\ outbox \cup dropped \subseteq outbox' \cup dropped'
      /\ <<sweep[s].who, i.rule, i.due>> \in outbox' \cup dropped'
      /\ outbox \subseteq outbox' /\ dropped' = dropped /\ settled' = settled
      /\ \A k \in outbox' \ outbox : k = <<sweep[s].who, i.rule, i.due>>
  BY <1>1, <1>2 DEF Key, history
<1>7. /\ loc \in Locals /\ LocalsGood(loc, outbox' \cup dropped')
      /\ loc.todo \cup loc.item \subseteq Holds(s)
  BY <1>3, <1>6, NextRecipient
<1>8. /\ dropped \subseteq Regs \X Rules \X Int /\ rule \in [Rules -> Row] /\ faults \in Nat
      /\ settled \subseteq [rule : Rules, due : Int, to : SUBSET Regs]
  BY DEF TypeOK
<1>9. \A k \in outbox' \ outbox : \E g \in Regs, j \in sweep[s].item : k = <<g, j.rule, j.due>>
  BY <1>4, <1>6
<1>10. /\ dropped' = dropped /\ settled' = settled /\ faults' \in Nat /\ rule' = rule
       /\ UNCHANGED <<clock, event, approved, patch, edits, raced>>
  BY <1>2, <1>8 DEF history
<1>11. \A m \in settled' \ settled : \A g \in m.to :
         <<g, m.rule, m.due>> \in outbox' \cup dropped'
  BY <1>10
<1>12. /\ dropped' \subseteq Regs \X Rules \X Int /\ rule' \in [Rules -> Row]
       /\ \A r \in Rules : rule'[r].when = rule[r].when /\ rule'[r].is = rule[r].is
       /\ settled' \subseteq [rule : Rules, due : Int, to : SUBSET Regs]
  BY <1>8, <1>10
<1>14. /\ outbox \subseteq outbox' /\ dropped \subseteq dropped' /\ faults' \in Nat
       /\ UNCHANGED <<clock, event, approved, patch, edits, raced>>
  BY <1>6, <1>10
<1> HIDE DEF loc
<1>13. \E l \in Locals :
         /\ sweep' = [sweep EXCEPT ![s] = l]
         /\ LocalsGood(l, outbox' \cup dropped')
         /\ l.todo \cup l.item \subseteq Holds(s) \cup Candidates(s)
  BY <1>5, <1>7
<1> QED
  BY <1>9, <1>11, <1>12, <1>13, <1>14 DEF Shape

LEMMA FailShape ==
  ASSUME TypeOK, HandsGood, NEW s \in Sweepers, RecipientFails(s)
  PROVE  Shape(s)
<1>1. PICK i \in sweep[s].item : dropped' = dropped \cup {Key(s, sweep[s].who, i)}
  BY DEF RecipientFails
<1>2. /\ sweep[s].at = "enqueue"
      /\ sweep' = [sweep EXCEPT ![s].at = "fire", ![s].who = Nobody,
                                ![s].left = @ \ {sweep[s].who}]
      /\ faults' = faults + 1
      /\ UNCHANGED <<clock, event, rule, approved, outbox, patch, edits, settled, raced>>
  BY DEF RecipientFails
<1>3. LocalsGood(sweep[s], outbox \cup dropped) /\ sweep[s].who \in sweep[s].left
  BY <1>2 DEF HandsGood, LocalsGood
<1>4. /\ sweep[s].who \in Regs /\ sweep \in [Sweepers -> Locals]
      /\ i.rule \in Rules /\ i.due \in Int
  BY <1>3, LocalsTyped DEF TypeOK
<1> DEFINE loc == [sweep[s] EXCEPT !.at = "fire", !.who = Nobody, !.left = @ \ {sweep[s].who}]
<1>5. sweep' = [sweep EXCEPT ![s] = loc]
  BY <1>2, <1>4
<1>6. /\ outbox \cup dropped \subseteq outbox' \cup dropped'
      /\ <<sweep[s].who, i.rule, i.due>> \in outbox' \cup dropped'
      /\ dropped \subseteq dropped'
  BY <1>1, <1>2 DEF Key
<1>7. /\ loc \in Locals /\ LocalsGood(loc, outbox' \cup dropped')
      /\ loc.todo \cup loc.item \subseteq Holds(s)
  BY <1>3, <1>6, NextRecipient
<1>8. /\ dropped \subseteq Regs \X Rules \X Int /\ rule \in [Rules -> Row] /\ faults \in Nat
      /\ settled \subseteq [rule : Rules, due : Int, to : SUBSET Regs]
  BY DEF TypeOK
<1>9. dropped' \subseteq Regs \X Rules \X Int
  BY <1>1, <1>4, <1>8 DEF Key
<1>10. /\ outbox' = outbox /\ settled' = settled /\ faults' \in Nat /\ rule' = rule
       /\ UNCHANGED <<clock, event, approved, patch, edits, raced>>
  BY <1>2, <1>8
<1>11. /\ \A k \in outbox' \ outbox : \E g \in Regs, j \in sweep[s].item :
              k = <<g, j.rule, j.due>>
       /\ \A m \in settled' \ settled : \A g \in m.to :
            <<g, m.rule, m.due>> \in outbox' \cup dropped'
  BY <1>10
<1>12. /\ rule' \in [Rules -> Row]
       /\ \A r \in Rules : rule'[r].when = rule[r].when /\ rule'[r].is = rule[r].is
       /\ settled' \subseteq [rule : Rules, due : Int, to : SUBSET Regs]
       /\ outbox \subseteq outbox'
  BY <1>8, <1>10
<1> HIDE DEF loc
<1> QED
  BY <1>5, <1>6, <1>7, <1>9, <1>10, <1>11, <1>12 DEF Shape

LEMMA MarkShape ==
  ASSUME TypeOK, HandsGood, NEW s \in Sweepers, MarkFired(s)
  PROVE  Shape(s)
<1>1. PICK i \in sweep[s].item :
       IF Live(i.rule)
       THEN /\ rule' = [rule EXCEPT ![i.rule] =
                 IF i.rule \in DateRules THEN [@ EXCEPT !.marked = TRUE]
                                         ELSE [@ EXCEPT !.firedFor = {i.due}]]
            /\ settled' = settled \cup {[rule |-> i.rule, due |-> i.due, to |-> sweep[s].to]}
            /\ sweep' = [sweep EXCEPT ![s] = Continue(sweep[s].todo)]
       ELSE /\ sweep' = [sweep EXCEPT ![s] = Idle]
            /\ UNCHANGED <<rule, settled>>
  BY DEF MarkFired
<1>2. /\ sweep[s].left = {}
      /\ UNCHANGED <<clock, event, approved, outbox, patch, faults, edits, dropped, raced>>
  BY DEF MarkFired
<1>3. /\ i.rule \in Rules /\ i.due \in Int /\ sweep[s].to \subseteq Regs
      /\ sweep[s].todo \subseteq Candidate
  BY LocalsTyped
<1>4. /\ dropped \subseteq Regs \X Rules \X Int /\ rule \in [Rules -> Row] /\ faults \in Nat
      /\ settled \subseteq [rule : Rules, due : Int, to : SUBSET Regs]
  BY DEF TypeOK
<1>5. \A g \in sweep[s].to : <<g, i.rule, i.due>> \in outbox \cup dropped
  BY <1>2 DEF HandsGood, LocalsGood
<1>6. CASE Live(i.rule)
  <2>1. /\ [rule[i.rule] EXCEPT !.marked = TRUE] \in Row
        /\ [rule[i.rule] EXCEPT !.firedFor = {i.due}] \in Row
    <3>1. rule[i.rule] \in Row
      BY <1>3, <1>4
    <3>2. [rule[i.rule] EXCEPT !.marked = TRUE] \in Row
      BY <3>1 DEF Row
    <3>3. [rule[i.rule] EXCEPT !.firedFor = {i.due}] \in Row
      BY <1>3, <3>1 DEF Row
    <3> QED
      BY <3>2, <3>3
  <2>2. PICK row \in {[rule[i.rule] EXCEPT !.marked = TRUE],
                      [rule[i.rule] EXCEPT !.firedFor = {i.due}]} :
          rule' = [rule EXCEPT ![i.rule] = row]
    <3>1. CASE i.rule \in DateRules
      BY <1>1, <1>6, <3>1
    <3>2. CASE i.rule \notin DateRules
      BY <1>1, <1>6, <3>2
    <3> QED
      BY <3>1, <3>2
  <2>3. row.when = rule[i.rule].when /\ row.is = rule[i.rule].is
    BY <1>3, <1>4 DEF Row
  <2>4. /\ rule' \in [Rules -> Row]
        /\ \A r \in Rules : rule'[r].when = rule[r].when /\ rule'[r].is = rule[r].is
    BY <1>4, <2>1, <2>2, <2>3
  <2>5. /\ settled' \subseteq [rule : Rules, due : Int, to : SUBSET Regs]
        /\ \A m \in settled' \ settled : \A g \in m.to :
             <<g, m.rule, m.due>> \in outbox' \cup dropped'
    BY <1>1, <1>2, <1>3, <1>4, <1>5, <1>6
  <2>6. /\ Continue(sweep[s].todo) \in Locals
        /\ LocalsGood(Continue(sweep[s].todo), outbox' \cup dropped')
        /\ Continue(sweep[s].todo).todo \cup Continue(sweep[s].todo).item
             \subseteq Holds(s) \cup Candidates(s)
    BY <1>3, ContinueTyped, ContinueGood DEF Holds
  <2> QED
    BY <1>1, <1>2, <1>4, <1>6, <2>4, <2>5, <2>6 DEF Shape
<1>7. CASE ~ Live(i.rule)
  <2>1. LocalsGood(Idle, outbox \cup dropped) /\ Idle.todo \cup Idle.item \subseteq Holds(s)
    BY DEF Idle, LocalsGood
  <2>2. UNCHANGED <<clock, event, rule, approved, outbox, patch, edits, history>> /\ faults' \in Nat
    BY <1>1, <1>2, <1>4, <1>7 DEF history
  <2> QED
    BY <1>1, <1>7, <2>1, <2>2, IdleTyped, OnlyLocals
<1> QED
  BY <1>6, <1>7

SweepStep(s) == StartSweep(s) \/ Step(s) \/ RecipientFails(s) \/ SweepDies(s)

LEMMA SweepShape ==
  ASSUME TypeOK, HandsGood, NEW s \in Sweepers, SweepStep(s)
  PROVE  Shape(s)
  BY StartShape, TakeShape, CheckShape, EnqueueShape, MarkShape, FailShape, DieShape
  DEF SweepStep, Step

-----------------------------------------------------------------------------
(* Type correctness, and nobody left out. *)

LEMMA InitServed == Init => ServedInv
<1> SUFFICES ASSUME Init PROVE ServedInv
  OBVIOUS
<1>1. NoRule \in Row
  BY DEF NoRule, Row
<1>2. rule \in [Rules -> Row] /\ sweep \in [Sweepers -> Locals]
  BY <1>1, IdleTyped DEF Init
<1>3. event \in [status : EventStatuses, date : Nat]
  BY Constants DEF Init, EventStatuses
<1>4. TypeOK
  BY <1>2, <1>3 DEF Init, TypeOK
<1>5. \A s \in Sweepers : LocalsGood(sweep[s], outbox \cup dropped)
  BY DEF Init, Idle, LocalsGood
<1> QED
  BY <1>4, <1>5 DEF Init, ServedInv, HandsGood, FiredMeansServed

LEMMA ServedGrows ==
  ASSUME NEW loc, NEW served, NEW more, LocalsGood(loc, served), served \subseteq more
  PROVE  LocalsGood(loc, more)
  BY DEF LocalsGood

LEMMA ShapeServed ==
  ASSUME ServedInv, NEW s \in Sweepers, Shape(s)
  PROVE  ServedInv'
<1>0. TypeOK /\ HandsGood /\ FiredMeansServed
  BY DEF ServedInv
<1>1. PICK loc \in Locals :
        /\ sweep' = [sweep EXCEPT ![s] = loc]
        /\ LocalsGood(loc, outbox' \cup dropped')
  BY DEF Shape
<1>2. sweep \in [Sweepers -> Locals] /\ sweep' \in [Sweepers -> Locals]
  BY <1>0, <1>1 DEF TypeOK
<1>3. outbox \cup dropped \subseteq outbox' \cup dropped'
  BY DEF Shape
<1>4. outbox' \subseteq Regs \X Rules \X Int
  <2>1. outbox \subseteq Regs \X Rules \X Int
    BY <1>0 DEF TypeOK
  <2>2. ASSUME NEW k \in outbox' \ outbox PROVE k \in Regs \X Rules \X Int
    <3>1. PICK g \in Regs, i \in sweep[s].item : k = <<g, i.rule, i.due>>
      BY DEF Shape
    <3>2. i.rule \in Rules /\ i.due \in Int
      BY <1>0, LocalsTyped
    <3> QED
      BY <3>1, <3>2
  <2> QED
    BY <2>1, <2>2
<1>5. TypeOK'
  <2>1. /\ dropped' \subseteq Regs \X Rules \X Int /\ rule' \in [Rules -> Row]
        /\ settled' \subseteq [rule : Rules, due : Int, to : SUBSET Regs] /\ faults' \in Nat
        /\ UNCHANGED <<clock, event, approved, patch, edits, raced>>
    BY DEF Shape
  <2> QED
    BY <1>0, <1>2, <1>4, <2>1 DEF TypeOK
<1>6. HandsGood'
  <2> SUFFICES ASSUME NEW q \in Sweepers
               PROVE  LocalsGood(sweep'[q], outbox' \cup dropped')
    BY DEF HandsGood
  <2>1. CASE q = s
    BY <1>1, <1>2, <2>1
  <2>2. CASE q # s
    <3>1. sweep'[q] = sweep[q] /\ LocalsGood(sweep[q], outbox \cup dropped)
      BY <1>0, <1>1, <1>2, <2>2 DEF HandsGood
    <3> QED
      BY <1>3, <3>1, ServedGrows
  <2> QED
    BY <2>1, <2>2
<1>7. FiredMeansServed'
  <2> SUFFICES ASSUME NEW m \in settled', NEW g \in m.to
               PROVE  <<g, m.rule, m.due>> \in outbox' \cup dropped'
    BY DEF FiredMeansServed
  <2>1. CASE m \in settled
    BY <1>0, <1>3, <2>1 DEF FiredMeansServed
  <2>2. CASE m \notin settled
    BY <2>2 DEF Shape
  <2> QED
    BY <2>1, <2>2
<1> QED
  BY <1>5, <1>6, <1>7 DEF ServedInv

\* What is not a step of a sweep.
Outside ==
  \/ \E r \in Rules : \E when \in Choices(r), active, sets \in BOOLEAN :
       CreateRule(r, when, active) \/ CheckPatch(r, when, active, sets)
  \/ WritePatch
  \/ \E r \in Rules : DeleteRule(r)
  \/ \E date \in Dates : MoveEvent(date)
  \/ \E next \in EventStatuses : UpdateStatus(next)
  \/ DeleteEvent
  \/ \E g \in Regs : Decide(g)
  \/ Tick

LEMMA NextSplits == Next <=> Outside \/ \E s \in Sweepers : SweepStep(s)
  BY DEF Next, Outside, SweepStep

LEMMA OutsideLeaves ==
  ASSUME Outside
  PROVE  UNCHANGED <<sweep, outbox, settled, dropped, faults>>
<1>1. ASSUME NEW r \in Rules, NEW when, NEW active, NEW sets,
             CreateRule(r, when, active) \/ CheckPatch(r, when, active, sets)
      PROVE  UNCHANGED <<sweep, outbox, settled, dropped, faults>>
  BY <1>1 DEF CreateRule, CheckPatch, history
<1>2. ASSUME WritePatch \/ DeleteEvent \/ Tick \/ \E r \in Rules : DeleteRule(r)
      PROVE  UNCHANGED <<sweep, outbox, settled, dropped, faults>>
  BY <1>2 DEF WritePatch, DeleteEvent, Tick, DeleteRule, history
<1>3. ASSUME NEW date, NEW next, NEW g, MoveEvent(date) \/ UpdateStatus(next) \/ Decide(g)
      PROVE  UNCHANGED <<sweep, outbox, settled, dropped, faults>>
  BY <1>3 DEF MoveEvent, UpdateStatus, Decide, history
<1> QED
  BY <1>1, <1>2, <1>3 DEF Outside

LEMMA CheckPatchTyped ==
  ASSUME TypeOK, NEW r \in Rules, NEW when \in Choices(r), NEW active \in BOOLEAN,
         NEW sets \in BOOLEAN, CheckPatch(r, when, active, sets)
  PROVE  patch' \in Checked
<1>1. when \in Int /\ rule[r] \in Row
  BY ChoicesTyped DEF TypeOK
<1>2. patch' = [at |-> "write", rule |-> r, seen |-> rule[r], when |-> when,
                active |-> IF sets THEN {active} ELSE {}]
  BY DEF CheckPatch
<1>3. (IF sets THEN {active} ELSE {}) \in SUBSET BOOLEAN
  OBVIOUS
<1> QED
  BY <1>1, <1>2, <1>3 DEF Checked

LEMMA OutsideTyped ==
  ASSUME TypeOK, Outside
  PROVE  TypeOK'
<1>0. UNCHANGED <<sweep, outbox, settled, dropped, faults>>
  BY OutsideLeaves
<1>1. ASSUME NEW r \in Rules, NEW when \in Choices(r), NEW active \in BOOLEAN,
             CreateRule(r, when, active)
      PROVE  TypeOK'
  <2>1. when \in Int
    BY ChoicesTyped
  <2>2. [NoRule EXCEPT !.is = "live", !.active = active, !.when = when] \in Row
    BY <2>1 DEF NoRule, Row
  <2>3. rule' \in [Rules -> Row]
    BY <1>1, <2>2 DEF CreateRule, TypeOK
  <2> QED
    BY <1>0, <1>1, <2>3 DEF CreateRule, history, TypeOK
<1>2. ASSUME NEW r \in Rules, NEW when \in Choices(r), NEW active \in BOOLEAN,
             NEW sets \in BOOLEAN, CheckPatch(r, when, active, sets)
      PROVE  TypeOK'
  <2>1. patch' \in Checked
    BY <1>2, CheckPatchTyped
  <2>2. edits' \in Nat /\ UNCHANGED <<clock, event, rule, approved, raced>>
    BY <1>2 DEF CheckPatch, Edit, history, TypeOK
  <2> QED
    BY <1>0, <2>1, <2>2 DEF TypeOK
<1>3. CASE WritePatch
  <2>1. patch \in Checked
    BY <1>3 DEF WritePatch, TypeOK
  <2> DEFINE r == patch.rule
  <2>2. r \in Rules /\ patch.when \in Int /\ rule[r] \in Row
    BY <2>1 DEF Checked, TypeOK
  <2>3. /\ (IF Moves THEN patch.when ELSE rule[r].when) \in Int
        /\ (IF patch.active = {} THEN rule[r].active ELSE patch.active = {TRUE}) \in BOOLEAN
        /\ (rule[r].marked /\ ~ Moves) \in BOOLEAN
    <3>1. rule[r].when \in Int /\ rule[r].active \in BOOLEAN
      BY <2>2 DEF Row
    <3> QED
      BY <2>2, <3>1
  <2>4. Patched(rule[r]) \in Row
    BY <2>2, <2>3 DEF Patched, Row
  <2>5. rule' = rule \/ rule' = [rule EXCEPT ![r] = Patched(rule[r])]
    BY <1>3 DEF WritePatch
  <2>6. rule' \in [Rules -> Row]
    BY <2>2, <2>4, <2>5 DEF TypeOK
  <2>7. raced' \subseteq Rules
    BY <1>3, <2>2 DEF WritePatch, TypeOK
  <2> QED
    BY <1>0, <1>3, <2>6, <2>7 DEF WritePatch, TypeOK
<1>4. ASSUME NEW r \in Rules, DeleteRule(r)
      PROVE  TypeOK'
  <2>1. [rule[r] EXCEPT !.is = "deleted"] \in Row
    BY DEF TypeOK, Row
  <2>2. rule' \in [Rules -> Row]
    BY <1>4, <2>1 DEF DeleteRule, TypeOK
  <2> QED
    BY <1>0, <1>4, <2>2 DEF DeleteRule, Edit, history, TypeOK
<1>5. ASSUME NEW date \in Dates, MoveEvent(date)
      PROVE  TypeOK'
  <2>1. date \in Nat
    BY Constants
  <2> QED
    BY <1>0, <1>5, <2>1 DEF MoveEvent, Edit, history, TypeOK
<1>6. ASSUME NEW next \in EventStatuses, UpdateStatus(next)
      PROVE  TypeOK'
  BY <1>0, <1>6 DEF UpdateStatus, Edit, history, TypeOK
<1>7. CASE DeleteEvent
  <2>1. \A r \in Rules : [rule[r] EXCEPT !.is = "deleted"] \in Row
    BY DEF TypeOK, Row
  <2>2. rule' \in [Rules -> Row]
    BY <1>7, <2>1 DEF DeleteEvent
  <2>3. event' \in [status : EventStatuses, date : Nat]
    BY <1>7 DEF DeleteEvent, EventStatuses, TypeOK
  <2> QED
    BY <1>0, <1>7, <2>2, <2>3 DEF DeleteEvent, Edit, history, TypeOK
<1>8. ASSUME NEW g \in Regs, Decide(g)
      PROVE  TypeOK'
  BY <1>0, <1>8 DEF Decide, Edit, history, TypeOK
<1>9. CASE Tick
  BY <1>0, <1>9 DEF Tick, history, TypeOK
<1> QED
  BY <1>1, <1>2, <1>3, <1>4, <1>5, <1>6, <1>7, <1>8, <1>9 DEF Outside

LEMMA NextServed == ServedInv /\ [Next]_vars => ServedInv'
<1> SUFFICES ASSUME ServedInv, [Next]_vars PROVE ServedInv'
  OBVIOUS
<1>0. TypeOK /\ HandsGood /\ FiredMeansServed
  BY DEF ServedInv
<1>1. CASE Outside
  <2>1. TypeOK' /\ UNCHANGED <<sweep, outbox, settled, dropped>>
    BY <1>0, <1>1, OutsideTyped, OutsideLeaves
  <2> QED
    BY <1>0, <2>1 DEF ServedInv, HandsGood, FiredMeansServed
<1>2. ASSUME NEW s \in Sweepers, SweepStep(s) PROVE ServedInv'
  BY <1>0, <1>2, SweepShape, ShapeServed
<1>3. CASE UNCHANGED vars
  BY <1>0, <1>3 DEF vars, ServedInv, TypeOK, HandsGood, FiredMeansServed
<1> QED
  BY <1>1, <1>2, <1>3, NextSplits

\* Every variable of the sweeps, and of the calls beside them, keeps its type.
THEOREM SweepsTyped == Spec => []TypeOK
<1>1. ServedInv => TypeOK
  BY DEF ServedInv
<1> QED
  BY <1>1, InitServed, NextServed, PTL DEF Spec

\* A rule is marked fired only when everybody the sweep read as approved was served,
\* failed with a logged error, or was barred by the engine: crashes, overlapping
\* sweeps, patches and deletions included.
THEOREM NobodyLeftOut == Spec => []FiredMeansServed
<1>1. ServedInv => FiredMeansServed
  BY DEF ServedInv
<1> QED
  BY <1>1, InitServed, NextServed, PTL DEF Spec

-----------------------------------------------------------------------------
(* A date rule reaches a registration once. *)

LEMMA CandidatesCurrent ==
  ASSUME NEW s \in Sweepers, NEW i \in Candidates(s)
  PROVE  /\ i.rule \in Rules /\ rule[i.rule].is # "new"
         /\ i.rule \in DateRules => i.due = rule[i.rule].when
<1>1. PICK r \in Rules :
        /\ i = [rule |-> r, due |-> DueAt(r), firedFor |-> rule[r].firedFor]
        /\ Live(r)
  BY DEF Candidates, Rules
<1>2. r \in DateRules => DueAt(r) = rule[r].when
  BY Constants DEF DueAt
<1> QED
  BY <1>1, <1>2 DEF Live

LEMMA HoldsTyped ==
  ASSUME TypeOK, NEW s \in Sweepers, NEW i \in Holds(s)
  PROVE  i.rule \in Rules
  BY LocalsTyped DEF Holds, Candidate

LEMMA SentTyped ==
  ASSUME TypeOK, NEW key \in outbox
  PROVE  key[1] \in Regs /\ key[2] \in Rules /\ key[3] \in Int /\ key = <<key[1], key[2], key[3]>>
<1>1. key \in Regs \X Rules \X Int
  BY DEF TypeOK
<1> QED
  BY <1>1

LEMMA ShapeCurrent ==
  ASSUME OnceInv, NEW s \in Sweepers, Shape(s)
  PROVE  HeldIsCurrent' /\ SentIsCurrent' /\ FiredStaysPut'
<1>0. TypeOK /\ HeldIsCurrent /\ SentIsCurrent /\ FiredStaysPut
  BY DEF OnceInv, ServedInv
<1>1. /\ \A r \in Rules : rule'[r].when = rule[r].when /\ rule'[r].is = rule[r].is
      /\ raced' = raced /\ patch' = patch
  BY DEF Shape
<1>2. PICK loc \in Locals :
        /\ sweep' = [sweep EXCEPT ![s] = loc]
        /\ loc.todo \cup loc.item \subseteq Holds(s) \cup Candidates(s)
  BY DEF Shape
<1>3. HeldIsCurrent'
  <2> SUFFICES ASSUME NEW q \in Sweepers, NEW i \in Holds(q)'
               PROVE  /\ rule'[i.rule].is # "new"
                      /\ i.rule \in DateRules \ raced' => i.due = rule'[i.rule].when
    BY DEF HeldIsCurrent
  <2>1. i \in Holds(q) \/ (q = s /\ i \in Candidates(s))
    <3>1. sweep \in [Sweepers -> Locals]
      BY <1>0 DEF TypeOK
    <3>2. CASE q = s
      BY <1>2, <3>1, <3>2 DEF Holds
    <3>3. CASE q # s
      BY <1>2, <3>1, <3>3 DEF Holds
    <3> QED
      BY <3>2, <3>3
  <2>2. CASE i \in Holds(q)
    BY <1>0, <1>1, <2>2, HoldsTyped DEF HeldIsCurrent
  <2>3. CASE i \in Candidates(s)
    BY <1>1, <2>3, CandidatesCurrent
  <2> QED
    BY <2>1, <2>2, <2>3
<1>4. SentIsCurrent'
  <2> SUFFICES ASSUME NEW key \in outbox'
               PROVE  /\ rule'[key[2]].is # "new"
                      /\ key[2] \in DateRules \ raced' => key[3] = rule'[key[2]].when
    BY DEF SentIsCurrent
  <2>1. CASE key \in outbox
    BY <1>0, <1>1, <2>1, SentTyped DEF SentIsCurrent
  <2>2. CASE key \notin outbox
    <3>1. PICK g \in Regs, i \in sweep[s].item : key = <<g, i.rule, i.due>>
      BY <2>2 DEF Shape
    <3>2. i \in Holds(s)
      BY DEF Holds
    <3>3. /\ rule[i.rule].is # "new"
          /\ i.rule \in DateRules \ raced => i.due = rule[i.rule].when
          /\ i.rule \in Rules
      BY <1>0, <3>2, HoldsTyped DEF HeldIsCurrent
    <3> QED
      BY <1>1, <3>1, <3>3
  <2> QED
    BY <2>1, <2>2
<1>5. FiredStaysPut'
  BY <1>0, <1>1 DEF FiredStaysPut
<1> QED
  BY <1>3, <1>4, <1>5

\* The dates of the rules somebody holds or has sent stay as they are, or the rule
\* is raced.
Steady ==
  /\ raced \subseteq raced'
  /\ \A r \in Rules :
       /\ rule[r].is # "new" => rule'[r].is # "new"
       /\ BeingFired(r) /\ rule[r].is # "new" /\ r \in DateRules \ raced'
            => rule'[r].when = rule[r].when

LEMMA SteadyKeeps ==
  ASSUME OnceInv, Steady, UNCHANGED <<sweep, outbox>>
  PROVE  HeldIsCurrent' /\ SentIsCurrent'
<1>0. TypeOK /\ HeldIsCurrent /\ SentIsCurrent
  BY DEF OnceInv, ServedInv
<1>1. ASSUME NEW s \in Sweepers, NEW i \in Holds(s)
      PROVE  /\ rule'[i.rule].is # "new"
             /\ i.rule \in DateRules \ raced' => i.due = rule'[i.rule].when
  <2>1. i.rule \in Rules
    BY <1>0, <1>1, HoldsTyped
  <2>2. BeingFired(i.rule)
    BY <1>1 DEF BeingFired, Holds
  <2>3. /\ rule[i.rule].is # "new"
        /\ i.rule \in DateRules \ raced => i.due = rule[i.rule].when
    BY <1>0, <1>1 DEF HeldIsCurrent
  <2> QED
    BY <2>1, <2>2, <2>3 DEF Steady
<1>2. ASSUME NEW key \in outbox
      PROVE  /\ rule'[key[2]].is # "new"
             /\ key[2] \in DateRules \ raced' => key[3] = rule'[key[2]].when
  <2>1. key[2] \in Rules
    BY <1>0, <1>2, SentTyped
  <2>2. BeingFired(key[2])
    BY <1>2 DEF BeingFired
  <2>3. /\ rule[key[2]].is # "new"
        /\ key[2] \in DateRules \ raced => key[3] = rule[key[2]].when
    BY <1>0, <1>2 DEF SentIsCurrent
  <2> QED
    BY <2>1, <2>2, <2>3 DEF Steady
<1>3. HeldIsCurrent'
  BY <1>1 DEF HeldIsCurrent, Holds
<1>4. SentIsCurrent'
  BY <1>2 DEF SentIsCurrent
<1> QED
  BY <1>3, <1>4

LEMMA WritePatchSteady ==
  ASSUME TypeOK, FiredStaysPut, WritePatch
  PROVE  Steady
<1> DEFINE r == patch.rule
<1>1. patch \in Checked /\ patch # NoPatch
  BY DEF WritePatch, TypeOK
<1>2. r \in Rules /\ rule \in [Rules -> Row] /\ rule[r] \in Row
  BY <1>1 DEF Checked, TypeOK
<1>3. \/ rule' = rule
      \/ rule' = [rule EXCEPT ![r] = Patched(rule[r])]
  BY DEF WritePatch
<1>4. /\ Patched(rule[r]).is = rule[r].is
      /\ ~ Moves => Patched(rule[r]).when = rule[r].when
  BY <1>2 DEF Patched, Row
<1>5. raced \subseteq raced'
  BY DEF WritePatch
<1>6. Moves /\ r \in DateRules \ raced' => ~ BeingFired(r)
  BY <1>1 DEF WritePatch, FiredStaysPut, Moves
<1> QED
  BY <1>2, <1>3, <1>4, <1>5, <1>6 DEF Steady

LEMMA OutsideSteady ==
  ASSUME OnceInv, Outside
  PROVE  Steady /\ FiredStaysPut'
<1>0. TypeOK /\ FiredStaysPut /\ rule \in [Rules -> Row]
  BY DEF OnceInv, ServedInv, TypeOK
<1>1. ASSUME NEW r \in Rules, NEW when \in Choices(r), NEW active, CreateRule(r, when, active)
      PROVE  Steady /\ FiredStaysPut'
  <2>1. /\ rule' = [rule EXCEPT ![r] =
              [NoRule EXCEPT !.is = "live", !.active = active, !.when = when]]
        /\ rule[r].is = "new" /\ raced' = raced /\ patch' = patch
    BY <1>1 DEF CreateRule, history
  <2>2. [NoRule EXCEPT !.is = "live", !.active = active, !.when = when].is = "live"
    BY DEF NoRule
  <2> QED
    BY <1>0, <2>1, <2>2 DEF Steady, FiredStaysPut
<1>2. ASSUME NEW r \in Rules, NEW when, NEW active, NEW sets,
             CheckPatch(r, when, active, sets)
      PROVE  Steady /\ FiredStaysPut'
  <2>1. /\ patch'.rule = r /\ patch'.seen = rule[r] /\ patch'.when = when
        /\ rule' = rule /\ raced' = raced
        /\ r \in DateRules => AssertDateNotRearmed(r, when)
    BY <1>2 DEF CheckPatch, history
  <2> QED
    BY <2>1 DEF Steady, FiredStaysPut, AssertDateNotRearmed
<1>3. CASE WritePatch
  <2>1. patch' = NoPatch
    BY <1>3 DEF WritePatch
  <2> QED
    BY <1>0, <1>3, <2>1, WritePatchSteady DEF FiredStaysPut
<1>4. ASSUME NEW r \in Rules, DeleteRule(r)
      PROVE  Steady /\ FiredStaysPut'
  <2>1. /\ rule' = [rule EXCEPT ![r] = [rule[r] EXCEPT !.is = "deleted"]]
        /\ raced' = raced /\ patch' = patch
    BY <1>0, <1>4 DEF DeleteRule, history
  <2>2. /\ [rule[r] EXCEPT !.is = "deleted"].is = "deleted"
        /\ [rule[r] EXCEPT !.is = "deleted"].when = rule[r].when
    BY <1>0 DEF Row
  <2> QED
    BY <1>0, <2>1, <2>2 DEF Steady, FiredStaysPut
<1>5. CASE DeleteEvent
  <2>1. /\ rule' = [r \in Rules |-> [rule[r] EXCEPT !.is = "deleted"]]
        /\ raced' = raced /\ patch' = patch
    BY <1>5 DEF DeleteEvent, history
  <2>2. \A r \in Rules : /\ [rule[r] EXCEPT !.is = "deleted"].is = "deleted"
                         /\ [rule[r] EXCEPT !.is = "deleted"].when = rule[r].when
    BY <1>0 DEF Row
  <2> QED
    BY <1>0, <2>1, <2>2 DEF Steady, FiredStaysPut
<1>6. ASSUME UNCHANGED <<rule, raced, patch>> PROVE Steady /\ FiredStaysPut'
  BY <1>0, <1>6 DEF Steady, FiredStaysPut
<1>7. ASSUME NEW date, NEW next, NEW g, MoveEvent(date) \/ UpdateStatus(next) \/ Decide(g) \/ Tick
      PROVE  UNCHANGED <<rule, raced, patch>>
  BY <1>7 DEF MoveEvent, UpdateStatus, Decide, Tick, history
<1> QED
  BY <1>1, <1>2, <1>3, <1>4, <1>5, <1>6, <1>7 DEF Outside

LEMMA InitOnce == Init => OnceInv
  BY InitServed DEF Init, Idle, OnceInv, HeldIsCurrent, Holds, SentIsCurrent, FiredStaysPut

LEMMA NextOnce == OnceInv /\ [Next]_vars => OnceInv'
<1> SUFFICES ASSUME OnceInv, [Next]_vars PROVE OnceInv'
  OBVIOUS
<1>0. ServedInv /\ TypeOK /\ HandsGood /\ ServedInv'
  BY NextServed DEF OnceInv, ServedInv
<1>1. CASE Outside
  BY <1>0, <1>1, OutsideSteady, SteadyKeeps, OutsideLeaves DEF OnceInv
<1>2. ASSUME NEW s \in Sweepers, SweepStep(s) PROVE OnceInv'
  BY <1>0, <1>2, SweepShape, ShapeCurrent DEF OnceInv
<1>3. CASE UNCHANGED vars
  <2>1. UNCHANGED <<rule, raced, patch, sweep, outbox>>
    BY <1>3 DEF vars
  <2> QED
    BY <1>0, <2>1 DEF OnceInv, HeldIsCurrent, Holds, SentIsCurrent, FiredStaysPut
<1> QED
  BY <1>1, <1>2, <1>3, NextSplits

\* However its date is patched, and whichever sweeps overlap or die, a date rule has
\* one message for a registration, unless a patch moved the date while it was fired.
THEOREM DateRuleOnce == Spec => []OncePerRule
<1>1. OnceInv => OncePerRule
  <2> SUFFICES ASSUME OnceInv, NEW a \in outbox, NEW b \in outbox,
                      a[1] = b[1], a[2] = b[2], a[2] \in DateRules \ raced
               PROVE  a = b
    BY DEF OncePerRule
  <2>1. a = <<a[1], a[2], a[3]>> /\ b = <<b[1], b[2], b[3]>>
    BY SentTyped DEF OnceInv, ServedInv
  <2>2. a[3] = b[3]
    BY DEF OnceInv, SentIsCurrent
  <2> QED
    BY <2>1, <2>2
<1> QED
  BY <1>1, InitOnce, NextOnce, PTL DEF Spec
=============================================================================
