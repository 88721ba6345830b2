-------------------------- MODULE AutomationSweeps --------------------------
(***************************************************************************)
(* The two scheduled triggers that fire once, and the calls that change    *)
(* what they fire: on_date (date-automations.service.ts, an instant stored *)
(* in the rule) and on_event_delay (event-delay-automations.service.ts, an *)
(* offset from the event's date, recomputed at every tick), beside         *)
(* AutomationService.update and delete, the event's own updates and        *)
(* approvals.                                                              *)
(*                                                                         *)
(* A sweep is an async function: it reads the due rules once, then for each*)
(* rule the approved registrations once, then fires the rule for one       *)
(* registration at a time, and only then marks it fired.  Anything may     *)
(* happen between two of its awaits, another sweep included: the date sweep*)
(* has no guard against overlapping ticks, the delay sweep one per process.*)
(***************************************************************************)
EXTENDS Integers, FiniteSets

CONSTANTS
  DateRules, DelayRules,   \* rules with trigger on_date and on_event_delay
  Regs, Nobody,            \* registrations
  DateSweepers,            \* overlapping executions of DateAutomationsService.sweep
  DelaySweepers,           \* processes running EventDelayAutomationsService
  Dates,                   \* instants a rule or the event may be set to
  Delays,                  \* delays of on_event_delay rules, negative: before
  MaxLateness,             \* MAX_LATENESS_MS, in ticks of the clock
  MaxTime,                 \* bound: the clock stops here
  MaxFaults,               \* bound: failed calls and crashes
  MaxEdits                 \* bound: changes made by users once the rules exist

Rules == DateRules \cup DelayRules
Sweepers == DateSweepers \cup DelaySweepers

ASSUME SweepAssumption ==
  /\ DateRules \cap DelayRules = {} /\ DateSweepers \cap DelaySweepers = {}
  /\ Nobody \notin Regs
  /\ Dates \subseteq Nat /\ Delays \subseteq Int
  /\ MaxLateness \in Nat /\ MaxTime \in Nat /\ MaxFaults \in Nat /\ MaxEdits \in Nat

VARIABLES
  clock,
  event,     \* its status and eventDate (no endDate)
  rule,      \* rule[r]: its row
  approved,  \* registrations with status 'approved'
  outbox,    \* <<registration, rule, instant>>: dedup keys with an outbox row
  sweep,     \* sweep[s]: the locals of an execution of sweep()
  patch,     \* the PATCH of a rule between its checks and its write
  faults, edits,   \* how many there were
  settled,   \* history: rules marked fired, for which instant and audience
  dropped,   \* history: dedup keys whose error was swallowed or that the engine barred
  raced      \* history: rules whose date moved while it was being fired

vars == <<clock, event, rule, approved, outbox, sweep, patch, faults, edits, settled, dropped, raced>>
history == <<settled, dropped, raced>>

-----------------------------------------------------------------------------
EventStatuses == {"draft", "published", "cancelled", "ended", "deleted"}
Sendable == {"published", "ended"}

\* is: whether the row exists.  when: sendAt of a date rule, delay of a delay rule.
\* marked: firedAt is set (date rules).  firedFor: firedForAt, if set (delay rules).
NoRule == [is |-> "new", active |-> FALSE, when |-> 0, marked |-> FALSE, firedFor |-> {}]
Live(r) == rule[r].is = "live"
Choices(r) == IF r \in DateRules THEN Dates ELSE Delays
DueAt(r) == IF r \in DelayRules THEN event.date + rule[r].when ELSE rule[r].when

\* todo: candidates not taken yet; item: the one in hand; to: its registrations;
\* left: those not fired for yet; who: the one about to be enqueued.
Idle == [at |-> "idle", todo |-> {}, item |-> {}, to |-> {}, left |-> {}, who |-> Nobody]
NoPatch == [at |-> "idle"]

Init ==
  /\ clock = 0
  /\ event \in [status : {"draft", "published"}, date : Dates]
  /\ rule = [r \in Rules |-> NoRule]
  /\ approved \in SUBSET Regs
  /\ outbox = {}
  /\ sweep = [s \in Sweepers |-> Idle]
  /\ patch = NoPatch
  /\ faults = 0 /\ edits = 0
  /\ settled = {} /\ dropped = {} /\ raced = {}

-----------------------------------------------------------------------------
(* The sweeps. *)

\* findDueDateRules, findEventDelayCandidates.
Candidates(s) ==
  {[rule |-> r, due |-> DueAt(r), firedFor |-> rule[r].firedFor] :
     r \in IF s \in DateSweepers
           THEN {q \in DateRules : /\ Live(q) /\ rule[q].active
                                   /\ ~ rule[q].marked /\ rule[q].when <= clock}
           ELSE {q \in DelayRules : /\ Live(q) /\ rule[q].active
                                    /\ event.status \in Sendable}}

\* Whether doSweep goes on with a candidate: due, and not for this instant yet.
IsDue(i) == i.due <= clock /\ i.due \notin i.firedFor

StartSweep(s) ==
  /\ sweep[s].at = "idle"
  /\ \E i \in Candidates(s) : IsDue(i)
  /\ sweep' = [sweep EXCEPT ![s] = [Idle EXCEPT !.at = "next", !.todo = Candidates(s)]]
  /\ UNCHANGED <<clock, event, rule, approved, outbox, patch, faults, edits, history>>

\* The loop goes on with the candidates left, or ends.
Continue(left) == IF left = {} THEN Idle ELSE [Idle EXCEPT !.at = "next", !.todo = left]

\* The next rule, the earliest first in a date sweep.  Too late, or its event gone:
\* mark it without sending.  Otherwise read the approved registrations.
TakeAndMark(s) ==
  /\ sweep[s].at = "next"
  /\ \E i \in sweep[s].todo :
       LET left == sweep[s].todo \ {i}
           to == IF clock - i.due <= MaxLateness THEN approved ELSE {}
       IN  IF IsDue(i) /\ Live(i.rule)
           THEN /\ sweep' = [sweep EXCEPT ![s] =
                     [at |-> "fire", todo |-> left, item |-> {i}, to |-> to, left |-> to,
                      who |-> Nobody]]
                /\ rule' = [rule EXCEPT ![i.rule].marked = TRUE]
                /\ settled' = settled \cup {[rule |-> i.rule, due |-> i.due, to |-> to]}
           ELSE /\ sweep' = [sweep EXCEPT ![s] = Continue(left)]
                /\ UNCHANGED <<rule, settled>>
  /\ UNCHANGED <<clock, event, approved, outbox, patch, faults, edits, dropped, raced>>
TakeRule(s) ==
  /\ sweep[s].at = "next"
  /\ \E i \in sweep[s].todo :
       /\ s \in DateSweepers => \A j \in sweep[s].todo : i.due <= j.due
       /\ LET left == sweep[s].todo \ {i}
              send == clock - i.due <= MaxLateness /\ event.status # "deleted"
              to == IF send THEN approved ELSE {}
          IN  sweep' = [sweep EXCEPT ![s] =
                IF IsDue(i)
                THEN [at |-> "fire", todo |-> left, item |-> {i}, to |-> to, left |-> to,
                      who |-> Nobody]
                ELSE Continue(left)]
  /\ UNCHANGED <<clock, event, rule, approved, outbox, patch, faults, edits, history>>

Key(s, g, i) == <<g, i.rule, i.due>>

\* fireAutomations reads the rule and the event again: it sends nothing for a rule
\* that is gone or inactive, or in an event that is not published or ended.
CheckRecipient(s) ==
  /\ sweep[s].at = "fire"
  /\ \E i \in sweep[s].item, g \in sweep[s].left :
       IF Live(i.rule) /\ rule[i.rule].active /\ event.status \in Sendable
       THEN /\ sweep' = [sweep EXCEPT ![s].at = "enqueue", ![s].who = g]
            /\ UNCHANGED dropped
       ELSE /\ sweep' = [sweep EXCEPT ![s].left = @ \ {g}]
            /\ dropped' = dropped \cup {Key(s, g, i)}
  /\ UNCHANGED <<clock, event, rule, approved, outbox, patch, faults, edits, settled, raced>>

\* OutboxService.enqueue: a row per dedup key, inserted once.
Enqueue(s) ==
  /\ sweep[s].at = "enqueue"
  /\ \E i \in sweep[s].item :
       outbox' = outbox \cup {Key(s, sweep[s].who, i)}
  /\ sweep' = [sweep EXCEPT ![s].at = "fire", ![s].who = Nobody,
                            ![s].left = @ \ {sweep[s].who}]
  /\ UNCHANGED <<clock, event, rule, approved, patch, faults, edits, history>>

\* One recipient's error is logged, and the loop goes on.
RecipientFails(s) ==
  /\ faults < MaxFaults
  /\ sweep[s].at = "enqueue"
  /\ \E i \in sweep[s].item : dropped' = dropped \cup {Key(s, sweep[s].who, i)}
  /\ sweep' = [sweep EXCEPT ![s].at = "fire", ![s].who = Nobody,
                            ![s].left = @ \ {sweep[s].who}]
  /\ faults' = faults + 1
  /\ UNCHANGED <<clock, event, rule, approved, outbox, patch, edits, settled, raced>>

\* markDateRuleFired, markEventDelayRuleFired: unconditional updates by id, which
\* throw out of the sweep when the rule was deleted.
MarkCurrentMoment(s) ==
  /\ sweep[s].at = "fire" /\ sweep[s].left = {}
  /\ \E i \in sweep[s].item :
       IF Live(i.rule)
       THEN /\ rule' = [rule EXCEPT ![i.rule] =
                 IF i.rule \in DateRules THEN [@ EXCEPT !.marked = TRUE]
                                         ELSE [@ EXCEPT !.firedFor = {DueAt(i.rule)}]]
            /\ settled' = settled \cup {[rule |-> i.rule, due |-> i.due, to |-> sweep[s].to]}
            /\ sweep' = [sweep EXCEPT ![s] = Continue(sweep[s].todo)]
       ELSE /\ sweep' = [sweep EXCEPT ![s] = Idle]
            /\ UNCHANGED <<rule, settled>>
  /\ UNCHANGED <<clock, event, approved, outbox, patch, faults, edits, dropped, raced>>
MarkFired(s) ==
  /\ sweep[s].at = "fire" /\ sweep[s].left = {}
  /\ \E i \in sweep[s].item :
       IF Live(i.rule)
       THEN /\ rule' = [rule EXCEPT ![i.rule] =
                 IF i.rule \in DateRules THEN [@ EXCEPT !.marked = TRUE]
                                         ELSE [@ EXCEPT !.firedFor = {i.due}]]
            /\ settled' = settled \cup {[rule |-> i.rule, due |-> i.due, to |-> sweep[s].to]}
            /\ sweep' = [sweep EXCEPT ![s] = Continue(sweep[s].todo)]
       ELSE /\ sweep' = [sweep EXCEPT ![s] = Idle]
            /\ UNCHANGED <<rule, settled>>
  /\ UNCHANGED <<clock, event, approved, outbox, patch, faults, edits, dropped, raced>>

\* A query or an update of the sweep itself fails, or the process dies: the rules
\* it had not marked are due again at the next tick.
SweepDies(s) ==
  /\ faults < MaxFaults
  /\ sweep[s].at # "idle"
  /\ sweep' = [sweep EXCEPT ![s] = Idle]
  /\ faults' = faults + 1
  /\ UNCHANGED <<clock, event, rule, approved, outbox, patch, edits, history>>

-----------------------------------------------------------------------------
Edit == edits < MaxEdits /\ edits' = edits + 1

(* AutomationService. *)

\* create: active with an instant in the future, or inactive with any.
CreateRule(r, when, active) ==
  /\ rule[r].is = "new" /\ event.status # "deleted"
  /\ when \in Choices(r)
  /\ active => clock < IF r \in DateRules THEN when ELSE event.date + when
  /\ rule' = [rule EXCEPT ![r] = [NoRule EXCEPT !.is = "live", !.active = active, !.when = when]]
  /\ UNCHANGED <<clock, event, approved, outbox, sweep, patch, faults, edits, history>>

\* update: read the rule and check the patch against it.  when and active are the
\* merged values.  A date in the future is asked of a rule that will be active and
\* has not fired at this date; a rule that fired cannot be given another date.
RearmAnyDate(r, when) == TRUE
AssertDateNotRearmed(r, when) == rule[r].marked => when = rule[r].when
AssertFuture(r, when, active, sets) ==
  active =>
    IF r \in DateRules
    THEN (when # rule[r].when \/ ~ rule[r].marked) => when > clock
    ELSE (when # rule[r].when \/ sets) => event.date + when > clock

CheckPatch(r, when, active, sets) ==
  /\ Edit
  /\ patch = NoPatch
  /\ Live(r)
  /\ sets \/ active = rule[r].active
  /\ when # rule[r].when \/ sets
  /\ when \in Choices(r)
  /\ r \in DateRules => AssertDateNotRearmed(r, when)
  /\ AssertFuture(r, when, active, sets)
  /\ patch' = [at |-> "write", rule |-> r, seen |-> rule[r], when |-> when,
               active |-> IF sets THEN {active} ELSE {}]
  /\ UNCHANGED <<clock, event, rule, approved, outbox, sweep, faults, history>>

\* Some of the rule's messages are out, or a sweep has it in hand.
BeingFired(r) ==
  \/ \E key \in outbox : key[2] = r
  \/ \E s \in Sweepers : \E i \in sweep[s].todo \cup sweep[s].item : i.rule = r

\* repo.update: the fields the patch changed; a new date also clears firedAt.
Moves == patch.when # patch.seen.when
Patched(row) ==
  [row EXCEPT !.when = IF Moves THEN patch.when ELSE row.when,
              !.active = IF patch.active = {} THEN row.active ELSE patch.active = {TRUE},
              !.marked = row.marked /\ ~ Moves]

\* A rule deleted in between is a P2025.
WritePatch ==
  /\ patch # NoPatch
  /\ LET r == patch.rule
     IN  /\ rule' = IF Live(r) THEN [rule EXCEPT ![r] = Patched(rule[r])] ELSE rule
         /\ raced' = IF r \in DateRules /\ Moves /\ ~ patch.seen.marked /\ BeingFired(r)
                     THEN raced \cup {r} ELSE raced
  /\ patch' = NoPatch
  /\ UNCHANGED <<clock, event, approved, outbox, sweep, faults, edits, settled, dropped>>

DeleteRule(r) ==
  /\ Edit
  /\ Live(r)
  /\ rule' = [rule EXCEPT ![r].is = "deleted"]
  /\ UNCHANGED <<clock, event, approved, outbox, sweep, patch, faults, history>>

-----------------------------------------------------------------------------
(* The rest of the application. *)

\* EventService.update, while the event is editable.
MoveEvent(date) ==
  /\ Edit
  /\ event.status \in {"draft", "published"}
  /\ event' = [event EXCEPT !.date = date]
  /\ UNCHANGED <<clock, rule, approved, outbox, sweep, patch, faults, history>>

\* STATUS_TRANSITIONS of event.entity.ts.
Transitions == {<<"draft", "published">>, <<"draft", "cancelled">>,
                <<"published", "cancelled">>, <<"published", "ended">>}
UpdateStatus(next) ==
  /\ Edit
  /\ <<event.status, next>> \in Transitions
  /\ event' = [event EXCEPT !.status = next]
  /\ UNCHANGED <<clock, rule, approved, outbox, sweep, patch, faults, history>>

\* EventService.delete cascades to the event's rules.
DeleteEvent ==
  /\ Edit
  /\ event.status # "deleted"
  /\ event' = [event EXCEPT !.status = "deleted"]
  /\ rule' = [r \in Rules |-> [rule[r] EXCEPT !.is = "deleted"]]
  /\ UNCHANGED <<clock, approved, outbox, sweep, patch, faults, history>>

\* RegistrationService.updateStatus, to and from 'approved'.
Decide(g) ==
  /\ Edit
  /\ approved' = IF g \in approved THEN approved \ {g} ELSE approved \cup {g}
  /\ UNCHANGED <<clock, event, rule, outbox, sweep, patch, faults, history>>

Tick ==
  /\ clock < MaxTime
  /\ clock' = clock + 1
  /\ UNCHANGED <<event, rule, approved, outbox, sweep, patch, faults, edits, history>>

-----------------------------------------------------------------------------
Step(s) == \/ TakeRule(s) \/ CheckRecipient(s) \/ Enqueue(s) \/ MarkFired(s)

Next ==
  \/ \E s \in Sweepers : StartSweep(s) \/ Step(s) \/ RecipientFails(s) \/ SweepDies(s)
  \/ \E r \in Rules : \E when \in Choices(r), active, sets \in BOOLEAN :
       CreateRule(r, when, active) \/ CheckPatch(r, when, active, sets)
  \/ WritePatch
  \/ \E r \in Rules : DeleteRule(r)
  \/ \E date \in Dates : MoveEvent(date)
  \/ \E next \in EventStatuses : UpdateStatus(next)
  \/ DeleteEvent
  \/ \E g \in Regs : Decide(g)
  \/ Tick

Spec == Init /\ [][Next]_vars

\* Cron keeps ticking, and an await that does not fail returns.
FairSpec == Spec /\ \A s \in Sweepers : WF_vars(StartSweep(s) \/ Step(s))
=============================================================================
