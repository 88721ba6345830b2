--------------------------- MODULE RecurringRulesProps ---------------------------
(* What the schedule of the recurring rules promises. *)
EXTENDS RecurringRules

Schedule == Crons \cup {None}

\* The type of every variable of the recurring rules.
TypeOKRecurring ==
  /\ events \subseteq EventIds /\ templates \subseteq events \X Templates
  /\ LET RuleRows == [is : {"free", "row", "gone"}, event : EventIds, template : Templates,
                   trigger : {"recurring", "other"}, cron : Schedule, active : BOOLEAN] IN
     /\ rrule \in [RuleIds -> RuleRows]
     /\ call \in [Sessions -> [at : {"idle", "check", "write", "erase", "template", "sync"},
                               id : RuleIds \cup {None}, rule : RuleRows,
                               patch : RulePatches, left : SUBSET RuleIds,
                               wants : [RuleIds -> Schedule]]]
  /\ sched \in [RuleIds -> Schedule]
  /\ boot \in [at : {"idle", "upsert", "prune"}, found : SUBSET RuleIds,
               left : SUBSET RuleIds, wants : [RuleIds -> Schedule], clean : SUBSET RuleIds]
  /\ callsTaken \in Nat /\ outages \in Nat /\ disturbed \subseteq RuleIds

\* A rule whose scheduler nobody is still bringing in line is on the schedule exactly
\* when it is active and recurring, and on its own cron, whatever was patched, copied or
\* reconciled at boot; unless a request or a boot was overtaken by another write of the
\* rule, or Redis failed after the row was written, and no boot has repaired it since (a
\* boot does not repair an active recurring rule that two updates left without a cron).
RecurringOnTime ==
  \A r \in RecurringRows \ disturbed :
    (\A q \in Sessions : ~Owes(q, r)) => sched[r] = Wanted(rrule[r])
=============================================================================
