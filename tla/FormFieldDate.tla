---------------------------- MODULE FormFieldDate ----------------------------
(***************************************************************************)
(* The monthly trigger on_date_form_field (application/automation_module/  *)
(* form-field-date-automations.service.ts): every approved registration of *)
(* a form gets a message each month on the day of the month it answered in *)
(* a field of the form, at the rule's time of day.                         *)
(*                                                                         *)
(* Nothing is scheduled or marked: every five minutes a sweep works out    *)
(* from the clock alone which day's messages are due, reads the approved   *)
(* responses page by page and enqueues those whose answer falls on that    *)
(* day, again and again for as long as the day's window is open.  The      *)
(* dedupKey, which names the month, makes the repetitions harmless.        *)
(***************************************************************************)
EXTENDS Integers, FiniteSets

CONSTANTS
  Replicas,       \* processes that run the cron
  Rules,          \* active or inactive rules of one form, numbered by createdAt
  Regs,           \* registrations with a response to the form, numbered by its id
  Answers,        \* days of the month they may answer; 0: empty or unparseable
  SendTimes,      \* times of day a rule may have, in ticks since midnight
  LastMonth, Start,   \* Start[m]: the first day of month m, counted in days
  DayTicks,       \* runs of the cron in a day
  Tolerance,      \* TOLERANCE_MINUTES, in runs of the cron
  LastDay,        \* the last day within 30 days of the event's date
  RulesPerTick,   \* RULES_PER_TICK
  PageSize,       \* RESPONSES_PER_PAGE
  MaxSpan,        \* bound: runs of the cron that pass during a sweep
  MaxFaults,      \* bound: failed queries and calls, crashes, missed runs
  MaxEdits        \* bound: changes made by users

Months == 0 .. LastMonth
LastTick == Start[LastMonth + 1] - 1      \* bound: the clock stops with this day

ASSUME CalendarAssumption ==
  /\ LastMonth \in Nat /\ Start \in [0 .. LastMonth + 1 -> Nat] /\ Start[0] = 0
  /\ \A m, n \in 0 .. LastMonth + 1 : m < n => Start[m] < Start[n]
  /\ LastTick >= 1
  /\ \A d \in 0 .. LastTick : \E m \in Months : Start[m] <= d /\ d < Start[m + 1]

ASSUME RuleAssumption ==
  /\ Replicas # {}
  /\ Rules \subseteq Nat /\ Regs \subseteq Nat /\ Answers \subseteq Nat
  /\ SendTimes \subseteq 0 .. DayTicks - 1
  /\ PageSize \in Nat \ {0} /\ RulesPerTick \in Nat /\ LastDay \in Nat
  /\ MaxSpan \in Nat /\ MaxFaults \in Nat /\ MaxEdits \in Nat

\* TOLERANCE_MINUTES "has to stay below 1440".
ASSUME ToleranceAssumption == DayTicks \in Nat /\ Tolerance \in Nat /\ Tolerance < DayTicks

VARIABLES
  now,        \* the day and the tick of the day
  event,      \* events.status
  active, sendTime,   \* of each rule
  reg, answer,        \* registrations.status, the answer in the response
  outbox,     \* the outbox rows of the trigger
  sweep,      \* sweep[p]: the locals of sweep() in process p
  faults, edits,
  owed        \* history: due and undisturbed since its window opened, not sent yet

rows == <<event, active, sendTime, reg, answer>>
vars == <<now, rows, outbox, sweep, faults, edits, owed>>

-----------------------------------------------------------------------------
(* The calendar, and the two pure functions of the sweep. *)

MonthOf(d) == CHOOSE m \in Months : Start[m] <= d /\ d < Start[m + 1]
DayOf(d) == d - Start[MonthOf(d)] + 1
DaysInMonth(d) == Start[MonthOf(d) + 1] - Start[MonthOf(d)]

\* resolveWindow: the anchor is today or yesterday at the rule's time, if it is past
\* by less than the tolerance.  (It tries today first; they never both match.)
Late(t, a, time) == (IF a = t.day THEN t.tick ELSE t.tick + DayTicks) - time
Anchors(t, time) ==
  {a \in {t.day, t.day - 1} : 0 <= Late(t, a, time) /\ Late(t, a, time) < Tolerance}

\* clampMatches: the answered day, or the month's last day for the days it lacks.
ClampEarly(day, a) ==
  day = DayOf(a) \/ (DayOf(a) = DaysInMonth(a) /\ day >= DaysInMonth(a) - 1)
ClampMatches(day, a) ==
  day = DayOf(a) \/ (DayOf(a) = DaysInMonth(a) /\ day > DaysInMonth(a))

\* What it is for: the day of month m on which an answered day falls.
TargetDay(day, m) ==
  LET length == Start[m + 1] - Start[m]
  IN  Start[m] + (IF day <= length THEN day ELSE length) - 1

-----------------------------------------------------------------------------
EventStatuses == {"draft", "published", "cancelled", "ended"}
RegStatuses == {"pending", "approved", "rejected", "deleted"}

\* at: the await a sweep is about to make.  due: the cron is about to call it.
\* span: runs of the cron since it began.  full: the page in hand was a full one.
\* todo: matches of that page not fired yet; item: the one being fired.
Idle == [at |-> "idle", due |-> FALSE, span |-> 0, top |-> [day |-> 0, tick |-> 0],
         windows |-> {}, skip |-> 0, full |-> FALSE, todo |-> {}, item |-> {}]

Init ==
  /\ now = [day |-> 1, tick |-> 0]
  /\ event \in {"draft", "published"}
  /\ active \in SUBSET Rules
  /\ sendTime \in [Rules -> SendTimes]
  /\ reg \in [Regs -> {"pending", "approved"}]
  /\ answer \in [Regs -> Answers]
  /\ outbox = {}
  /\ sweep = [p \in Replicas |-> Idle]
  /\ faults = 0 /\ edits = 0
  /\ owed = {}

-----------------------------------------------------------------------------
(* The sweep. *)

\* sweep() is called and not running yet; doSweep takes the time, once for all.
StartSweep(p) ==
  /\ sweep[p].due
  /\ sweep' = [sweep EXCEPT ![p] = [Idle EXCEPT !.at = "rules", !.top = now]]
  /\ UNCHANGED <<now, rows, outbox, faults, edits, owed>>

\* findActiveFormFieldDateRules, the oldest of them, and their windows: the anchor and
\* the occurrence key, which is the anchor's month (and the form).
Oldest(S) == {r \in S : Cardinality({q \in S : q < r}) < RulesPerTick}
ActiveRules(t) == IF event = "published" /\ t.day <= LastDay THEN Oldest(active) ELSE {}
WindowsOfNow(t) ==
  UNION {{[rule |-> r, anchor |-> a, month |-> MonthOf(t.day)] :
            a \in Anchors(t, sendTime[r])} : r \in ActiveRules(t)}
Windows(t) ==
  UNION {{[rule |-> r, anchor |-> a, month |-> MonthOf(a)] :
            a \in Anchors(t, sendTime[r])} : r \in ActiveRules(t)}
ReadRules(p) ==
  /\ sweep[p].at = "rules"
  /\ sweep' = [sweep EXCEPT ![p] =
       IF Windows(sweep[p].top) = {} THEN Idle
       ELSE [Idle EXCEPT !.at = "page", !.span = sweep[p].span, !.windows = Windows(sweep[p].top)]]
  /\ UNCHANGED <<now, rows, outbox, faults, edits, owed>>

\* findApprovedByForm, ordered by id: the page of the approved responses from skip on.
Approved == {g \in Regs : reg[g] = "approved"}
Place(g) == Cardinality({h \in Approved : h < g})
Page(skip) == {g \in Approved : skip <= Place(g) /\ Place(g) < skip + PageSize}
Matches(page, windows) ==
  {m \in [reg : page, day : {answer[g] : g \in page}, win : windows] :
     m.day = answer[m.reg] /\ m.day # 0 /\ ClampMatches(m.day, m.win.anchor)}
ReadPage(p) ==
  LET page == Page(sweep[p].skip)
  IN  /\ sweep[p].at = "page"
      /\ sweep' = [sweep EXCEPT ![p] =
           IF page = {} THEN Idle
           ELSE [@ EXCEPT !.at = "fire", !.todo = Matches(page, sweep[p].windows),
                          !.full = Cardinality(page) = PageSize]]
      /\ UNCHANGED <<now, rows, outbox, faults, edits, owed>>

\* The page is done: on to the next one, unless it was the last.
FirstPageOnly(p) ==
  /\ sweep[p].at = "fire" /\ sweep[p].todo = {}
  /\ sweep' = [sweep EXCEPT ![p] = Idle]
  /\ UNCHANGED <<now, rows, outbox, faults, edits, owed>>
NextPage(p) ==
  /\ sweep[p].at = "fire" /\ sweep[p].todo = {}
  /\ sweep' = [sweep EXCEPT ![p] =
       IF sweep[p].full THEN [@ EXCEPT !.at = "page", !.skip = sweep[p].skip + PageSize]
       ELSE Idle]
  /\ UNCHANGED <<now, rows, outbox, faults, edits, owed>>

\* fireAutomations reads registration, rule and event again before it enqueues.
CheckRecipient(p) ==
  /\ sweep[p].at = "fire"
  /\ \E m \in sweep[p].todo :
       sweep' = [sweep EXCEPT ![p] =
         IF /\ reg[m.reg] # "deleted" /\ m.win.rule \in active
            /\ event \notin {"draft", "cancelled"}
         THEN [@ EXCEPT !.at = "enqueue", !.item = {m}, !.todo = sweep[p].todo \ {m}]
         ELSE [@ EXCEPT !.todo = sweep[p].todo \ {m}]]
  /\ UNCHANGED <<now, rows, outbox, faults, edits, owed>>

\* OutboxService.enqueue: nothing, if the dedupKey is taken.
Key(x) == <<x.reg, x.rule, x.month>>
Due(o) == <<o.reg, o.rule, MonthOf(o.anchor)>>
Enqueue(p) ==
  /\ sweep[p].at = "enqueue"
  /\ \E m \in sweep[p].item :
       LET x == [reg |-> m.reg, rule |-> m.win.rule, anchor |-> m.win.anchor,
                 month |-> m.win.month, day |-> m.day]
       IN  /\ outbox' = IF \E y \in outbox : Key(y) = Key(x) THEN outbox ELSE outbox \cup {x}
           /\ owed' = {o \in owed : Due(o) # Key(x)}
  /\ sweep' = [sweep EXCEPT ![p].at = "fire", ![p].item = {}]
  /\ UNCHANGED <<now, rows, faults, edits>>

\* One recipient's error is logged and the loop goes on; a page that cannot be read
\* ends the form; a failing query, or the death of the process, ends the sweep; a
\* process that is down misses a run of the cron.
Fault(p) ==
  /\ faults < MaxFaults
  /\ faults' = faults + 1
  /\ \/ /\ sweep[p].at = "enqueue"
        /\ sweep' = [sweep EXCEPT ![p].at = "fire", ![p].item = {}]
     \/ /\ sweep[p].at # "idle" \/ sweep[p].due
        /\ sweep' = [sweep EXCEPT ![p] = Idle]
  /\ UNCHANGED <<now, rows, outbox, edits, owed>>

-----------------------------------------------------------------------------
(* Users, each of whose changes disturbs what is owed while its window is open. *)

Open(o) == o.anchor \in Anchors(now, sendTime[o.rule])
Edit ==
  /\ edits < MaxEdits
  /\ edits' = edits + 1
  /\ UNCHANGED <<now, outbox, sweep, faults>>
Disturbs(touched) == owed' = owed \ {o \in touched : Open(o)}

\* RegistrationService.updateStatus (every transition is allowed) and delete.
Decide(g) ==
  /\ Edit
  /\ reg[g] # "deleted"
  /\ \E s \in RegStatuses \ {reg[g]} : reg' = [reg EXCEPT ![g] = s]
  /\ Disturbs({o \in owed : o.reg = g})
  /\ UNCHANGED <<event, active, sendTime, answer>>

\* The form is submitted again, or the answer edited: the response is overwritten.
AnswerAgain(g) ==
  /\ Edit
  /\ reg[g] # "deleted"
  /\ \E d \in Answers \ {answer[g]} : answer' = [answer EXCEPT ![g] = d]
  /\ Disturbs({o \in owed : o.reg = g})
  /\ UNCHANGED <<event, active, sendTime, reg>>

\* AutomationService.update: active and sendTime.
PatchRule(r) ==
  /\ Edit
  /\ active' \in {active, active \cup {r}, active \ {r}}
  /\ \E time \in SendTimes : sendTime' = [sendTime EXCEPT ![r] = time]
  /\ Disturbs({o \in owed : o.rule = r})
  /\ UNCHANGED <<event, reg, answer>>

\* EventService.updateStatus, along STATUS_TRANSITIONS.
Transitions == {<<"draft", "published">>, <<"draft", "cancelled">>,
                <<"published", "ended">>, <<"published", "cancelled">>}
UpdateStatus ==
  /\ Edit
  /\ \E s \in EventStatuses : <<event, s>> \in Transitions /\ event' = s
  /\ Disturbs(owed)
  /\ UNCHANGED <<active, sendTime, reg, answer>>

-----------------------------------------------------------------------------
\* The next run of the cron: sweep() is called in every process, and returns at once
\* where it is running.  A window that opens makes its day's messages owed.
NextTick == IF now.tick + 1 < DayTicks THEN [now EXCEPT !.tick = @ + 1]
                                       ELSE [day |-> now.day + 1, tick |-> 0]
FallsDue(t) ==
  {o \in [reg : Approved, rule : ActiveRules(t), anchor : {t.day} \ {LastDay}] :
     /\ sendTime[o.rule] = t.tick
     /\ answer[o.reg] # 0 /\ t.day = TargetDay(answer[o.reg], MonthOf(t.day))
     /\ \A x \in outbox : Key(x) # Due(o)}
Tick ==
  /\ NextTick.day <= LastTick
  /\ \A p \in Replicas : ~ sweep[p].due /\ sweep[p].span < MaxSpan
  /\ now' = NextTick
  /\ owed' = owed \cup FallsDue(NextTick)
  /\ sweep' = [p \in Replicas |->
       IF sweep[p].at = "idle" THEN [sweep[p] EXCEPT !.due = TRUE]
                               ELSE [sweep[p] EXCEPT !.span = @ + 1]]
  /\ UNCHANGED <<rows, outbox, faults, edits>>

Step(p) == \/ StartSweep(p) \/ ReadRules(p) \/ ReadPage(p) \/ NextPage(p)
           \/ CheckRecipient(p) \/ Enqueue(p)
Next ==
  \/ \E p \in Replicas : Step(p) \/ Fault(p)
  \/ \E g \in Regs : Decide(g) \/ AnswerAgain(g)
  \/ \E r \in Rules : PatchRule(r)
  \/ UpdateStatus
  \/ Tick

Spec == Init /\ [][Next]_vars
=============================================================================
