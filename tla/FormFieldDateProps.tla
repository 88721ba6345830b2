-------------------------- MODULE FormFieldDateProps --------------------------
(***************************************************************************)
(* What the monthly trigger promises: each month a message, the right day, *)
(* and only once.                                                          *)
(***************************************************************************)
EXTENDS FormFieldDate

\* Every variable has its type (the rows of the event, its rules, registrations and
\* responses, and the locals of doSweep and sweepEventForm).
Instant == [day : Nat, tick : 0 .. DayTicks - 1]
Window == [rule : Rules, anchor : Int, month : Months]
Match == [reg : Regs, day : Nat, win : Window]
Locals == [at : {"idle", "rules", "page", "fire", "enqueue"}, due : BOOLEAN, span : Nat,
           top : Instant, windows : SUBSET Window, skip : Nat, full : BOOLEAN,
           todo : SUBSET Match, item : SUBSET Match]
Message == [reg : Regs, rule : Rules, anchor : Int, month : Months, day : Nat]
TypeOK ==
  /\ now \in Instant
  /\ event \in EventStatuses
  /\ active \subseteq Rules /\ sendTime \in [Rules -> SendTimes]
  /\ reg \in [Regs -> RegStatuses] /\ answer \in [Regs -> Answers]
  /\ outbox \subseteq Message
  /\ sweep \in [Replicas -> Locals]
  /\ faults \in Nat /\ edits \in Nat
  /\ owed \subseteq [reg : Regs, rule : Rules, anchor : Int]

\* A registration gets one message of a rule for the anchors of one month, in windows
\* that cross midnight into the next month too, whatever is answered anew, overlaps
\* or dies (form-field-date-automations.service.ts:287-293).
OncePerMonth ==
  \A x, y \in outbox :
    x.reg = y.reg /\ x.rule = y.rule /\ MonthOf(x.anchor) = MonthOf(y.anchor) => x = y

\* The message for an answered day is sent for that day of its month, or for the last
\* day of a month that lacks it, and never before that day has come (:311-316).
RightDay ==
  \A x \in outbox : x.anchor = TargetDay(x.day, x.month) /\ x.anchor <= now.day

\* Who is approved, with an answer due that day, from the opening of a window to its
\* end, has the month's message by then, although single sweeps die, are missed or
\* skip a response that slides over a page boundary (:22-40).  The runs of the cron
\* within a window (144) have to outnumber the failures and edits they meet, and no
\* rule may be one too many for a tick (:115).
EnoughRuns == (MaxFaults + MaxEdits + 1) * (MaxSpan + 1) <= Tolerance
EveryRuleIsRead == IsFiniteSet(Rules) /\ Cardinality(Rules) <= RulesPerTick
NobodyMissesAMonth ==
  EnoughRuns /\ EveryRuleIsRead =>
    \A o \in owed : Open(o) \/ \E p \in Replicas : sweep[p].due \/ sweep[p].at # "idle"
=============================================================================
