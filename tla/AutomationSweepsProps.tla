----------------------- MODULE AutomationSweepsProps -----------------------
(***************************************************************************)
(* What the scheduled triggers promise: nobody is left out of a rule that  *)
(* counts as fired, nobody gets a date rule twice, and what is due is dealt*)
(* with.                                                                   *)
(***************************************************************************)
EXTENDS AutomationSweeps

\* Every variable has its type (the rows of automation rules and of the event, the
\* locals of the sweeps and of AutomationService.update).
Row == [is : {"new", "live", "deleted"}, active : BOOLEAN, when : Int, marked : BOOLEAN,
        firedFor : SUBSET Int]
Candidate == [rule : Rules, due : Int, firedFor : SUBSET Int]
Locals == [at : {"idle", "next", "fire", "enqueue"}, todo : SUBSET Candidate,
           item : SUBSET Candidate, to : SUBSET Regs, left : SUBSET Regs,
           who : Regs \cup {Nobody}]
Checked == [at : {"write"}, rule : Rules, seen : Row, when : Int, active : SUBSET BOOLEAN]
TypeOK ==
  /\ clock \in Nat
  /\ event \in [status : EventStatuses, date : Nat]
  /\ rule \in [Rules -> Row]
  /\ approved \subseteq Regs
  /\ outbox \subseteq Regs \X Rules \X Int
  /\ sweep \in [Sweepers -> Locals]
  /\ patch \in Checked \cup {NoPatch}
  /\ faults \in Nat /\ edits \in Nat
  /\ settled \subseteq [rule : Rules, due : Int, to : SUBSET Regs]
  /\ dropped \subseteq Regs \X Rules \X Int
  /\ raced \subseteq Rules

\* When a sweep marks a rule fired, every registration it read as approved has its
\* outbox row, or was logged as an error or barred by the engine: a sweep that dies
\* half-way leaves the rule due (date-automations.service.ts:33-38).
FiredMeansServed ==
  \A m \in settled : \A g \in m.to : <<g, m.rule, m.due>> \in outbox \cup dropped

\* A registration gets the message of a date rule once, even when its date is moved,
\* unless it was moved while the rule was being fired (assertDateNotRearmed,
\* automation.service.ts:445-471).
OncePerRule ==
  \A a, b \in outbox :
    a[1] = b[1] /\ a[2] = b[2] /\ a[2] \in DateRules \ raced => a = b

FallsDue(r, d) ==
  /\ Live(r) /\ rule[r].active /\ DueAt(r) = d /\ d <= clock
  /\ r \in DelayRules => event.status \in Sendable
SettledFor(r, d) == \E m \in settled : m.rule = r /\ m.due = d
Withdrawn(r, d) ==
  \/ ~ Live(r) \/ ~ rule[r].active \/ DueAt(r) # d
  \/ r \in DelayRules /\ event.status \notin Sendable

\* An active rule that falls due is fired, or discarded as stale, for that instant,
\* whatever dies on the way, unless it is withdrawn or, a date rule, was moved while
\* being fired (date-automations.service.ts:33-38, event-delay:28-36).
Instants(r) == IF r \in DateRules THEN Dates ELSE {d + e : d \in Dates, e \in Delays}
DueRulesSettle ==
  \A r \in Rules : \A d \in Instants(r) :
    FallsDue(r, d) ~> SettledFor(r, d) \/ Withdrawn(r, d) \/ r \in raced

\* What automation.service.ts:276-277 says of a patch that moves the date: it reopens
\* the rule, so that a rule marked fired was fired for the date it holds.
RescheduledRuleFires ==
  \A r \in DateRules : Live(r) /\ rule[r].marked => SettledFor(r, rule[r].when)
=============================================================================
