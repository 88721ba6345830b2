----------------------------- MODULE RecurringRules -----------------------------
(***************************************************************************)
(* Recurring rules and their job schedulers                                *)
(* (application/automation_module: automation.service.ts,                  *)
(* recurring-scheduler.service.ts; workers/recurring-automations.worker.ts; *)
(* event-lifecycle.service.ts for the copies).                             *)
(*                                                                         *)
(* The rule is a row of the database and the clock that fires it is a job  *)
(* scheduler in Redis.  Every request writes the row first and brings the  *)
(* scheduler in line afterwards; the two are never written together, so    *)
(* requests that overlap, a Redis error and a boot that reconciles in the  *)
(* meantime may each leave a rule active and mute, or on an old cron.      *)
(***************************************************************************)
EXTENDS Naturals, Nulls

CONSTANTS
  RuleIds, Templates,
  EventIds,         \* ids of events
  Crons,          \* cron with its timezone
  Source,         \* the event that there is at first, with all its templates
  Sessions,       \* requests in flight
  Patches,        \* what a request to update may hold
  MaxCalls,       \* bound: requests received and boots
  MaxOutages      \* bound: Redis errors and crashes in mid-request

RulePatches == [template : Templates \cup {Keep}, trigger : {"keep", "recurring", "other"},
                cron : Crons \cup {None, Keep}, active : BOOLEAN \cup {Keep}]

ASSUME RecurringAssumption ==
  /\ Patches \subseteq RulePatches
  /\ Source \in EventIds /\ Templates # {} /\ Keep \notin Templates
  /\ None \notin Crons /\ Keep \notin Crons
  /\ MaxCalls \in Nat /\ MaxOutages \in Nat

VARIABLES
  events, templates,    \* rows: events, and <<event, template>>
  rrule,                \* the automation_rules
  sched,                \* the job schedulers in Redis: the cron of each rule
  call,                 \* call[q]: the locals of request q
  boot,                 \* the locals of RecurringAutomationsWorker.onModuleInit
  callsTaken, outages,
  disturbed             \* history: rules whose scheduler nobody can vouch for

recurVars == <<events, templates, rrule, sched, call, boot, callsTaken, outages, disturbed>>
tables == <<events, templates, rrule>>

NoRecurring == [is |-> "free", event |-> Source, template |-> CHOOSE t \in Templates : TRUE,
                trigger |-> "other", cron |-> None, active |-> FALSE]
NoRulePatch == [template |-> Keep, trigger |-> "keep", cron |-> Keep, active |-> Keep]
Nothing == [r \in RuleIds |-> None]
NoCall == [at |-> "idle", id |-> None, rule |-> NoRecurring, patch |-> NoRulePatch,
           left |-> {}, wants |-> Nothing]     \* schedulers to bring in line, and to what

NoBoot == [at |-> "idle", found |-> {}, left |-> {}, wants |-> Nothing,
           clean |-> {}]                       \* history: what this boot will vouch for

InitRecurring ==
  /\ events = {Source} /\ templates = {Source} \X Templates
  /\ rrule = [r \in RuleIds |-> NoRecurring] /\ sched = [r \in RuleIds |-> None]
  /\ call = [q \in Sessions |-> NoCall]
  /\ boot = NoBoot
  /\ callsTaken = 0 /\ outages = 0 /\ disturbed = {}

-----------------------------------------------------------------------------
RecurringRows == {r \in RuleIds : rrule[r].is = "row"}

\* A new row has a new id, any one.
FreshRule(r) == r = CHOOSE s \in RuleIds : rrule[s].is = "free"

\* What syncRecurringScheduler makes of a row: its cron, or no scheduler.
Wanted(x) == IF x.is = "row" /\ x.trigger = "recurring" /\ x.active THEN x.cron ELSE None

\* An active rule of the same event, trigger and template, other than r.
Duplicate(x, r) ==
  \E o \in RecurringRows \ {r} : /\ rrule[o].active /\ rrule[o].event = x.event
                                 /\ rrule[o].trigger = x.trigger /\ rrule[o].template = x.template

\* The partial unique index and the foreign keys.
Accepts(x, r) ==
  /\ x.active => ~Duplicate(x, r)
  /\ x.event \in events /\ <<x.event, x.template>> \in templates

\* A request that has written the row of r and not yet its scheduler.
Owes(q, r) == call[q].at = "sync" /\ r \in call[q].left

\* Writing the rows W may overtake another request, or a boot, that is yet to bring
\* their schedulers in line.
Write(q, W) ==
  /\ disturbed' = disturbed \cup
       {r \in W : boot.at # "idle" \/ \E o \in Sessions \ {q} : Owes(o, r)}
  /\ boot' = [boot EXCEPT !.clean = @ \ W]

Accept(q, c) ==
  /\ call[q].at = "idle" /\ callsTaken < MaxCalls /\ callsTaken' = callsTaken + 1
  /\ call' = [call EXCEPT ![q] = c]
  /\ UNCHANGED <<tables, sched, boot, outages, disturbed>>

CallGoes(q, c) == call' = [call EXCEPT ![q] = c] /\ UNCHANGED <<callsTaken, outages>>
OnlyReads == UNCHANGED <<tables, sched, boot, disturbed>>

-----------------------------------------------------------------------------
(* create: two checks, the insert, the scheduler. *)

ReceiveCreate(q) ==
  \E e \in events, t \in Templates, c \in Crons \cup {None}, a \in BOOLEAN :
    Accept(q, [NoCall EXCEPT !.at = "check",
      !.rule = [is |-> "row", event |-> e, template |-> t, active |-> a, cron |-> c,
                trigger |-> IF c = None THEN "other" ELSE "recurring"]])

Merge(x, p) ==
  [x EXCEPT !.template = IF p.template = Keep THEN @ ELSE p.template,
            !.trigger = IF p.trigger = "keep" THEN @ ELSE p.trigger,
            !.cron = IF p.cron = Keep THEN @ ELSE p.cron,
            !.active = IF p.active = Keep THEN @ ELSE p.active]

\* update reads the row, merges the patch into it and checks the result; assertRuleValid
\* asks a recurring rule for its cron.
ReceiveUpdate(q) ==
  \E r \in RecurringRows, p \in Patches :
    LET new == Merge(rrule[r], p) IN
    /\ new.trigger = "recurring" => new.cron # None
    /\ Accept(q, [NoCall EXCEPT !.at = "check", !.id = r, !.rule = new, !.patch = p])

\* assertTemplateExists, assertNoActiveDuplicate.
MustCheck(p) == p = NoRulePatch \/ p.template # Keep \/ p.trigger # "keep" \/ p.active = TRUE

PassesChecks(q) ==
  LET c == call[q] IN
  /\ c.id = None \/ c.patch.template # Keep => <<c.rule.event, c.rule.template>> \in templates
  /\ c.rule.active /\ MustCheck(c.patch) => ~Duplicate(c.rule, c.id)

CheckRule(q) ==
  /\ call[q].at = "check"
  /\ CallGoes(q, IF PassesChecks(q) THEN [call[q] EXCEPT !.at = "write"] ELSE NoCall)
  /\ OnlyReads

InsertRecurring(q) ==
  \E r \in RuleIds :
    /\ call[q].at = "write" /\ call[q].id = None
    /\ rrule[r].is = "free" /\ FreshRule(r) /\ Accepts(call[q].rule, None)
    /\ rrule' = [rrule EXCEPT ![r] = call[q].rule]
    /\ Write(q, {r})
    /\ CallGoes(q, [NoCall EXCEPT !.at = "sync", !.left = {r},
                                   !.wants = [Nothing EXCEPT ![r] = Wanted(call[q].rule)]])
    /\ UNCHANGED <<events, templates, sched>>

\* The statement writes what the patch names; the scheduler gets the row it returns.
UpdateRecurring(q) ==
  LET r == call[q].id
      new == Merge(rrule[r], call[q].patch) IN
  /\ call[q].at = "write" /\ r \in RecurringRows /\ Accepts(new, r)
  /\ rrule' = [rrule EXCEPT ![r] = new]
  /\ Write(q, {r})
  /\ CallGoes(q, [NoCall EXCEPT !.at = "sync", !.left = {r},
                                 !.wants = [Nothing EXCEPT ![r] = Wanted(new)]])
  /\ UNCHANGED <<events, templates, sched>>

\* The row is gone, or the index or a foreign key refuses it.
RefusedByDatabase(q) ==
  LET c == call[q] IN
  /\ c.at = "write"
  /\ IF c.id = None THEN ~Accepts(c.rule, None)
     ELSE c.id \notin RecurringRows \/ ~Accepts(Merge(rrule[c.id], c.patch), c.id)
  /\ CallGoes(q, NoCall) /\ OnlyReads

-----------------------------------------------------------------------------
(* delete, and what goes with an event or a template. *)

ReceiveDelete(q) ==
  \E r \in RecurringRows :
    Accept(q, [NoCall EXCEPT !.at = "erase", !.id = r, !.rule = rrule[r]])

Gone(W) == rrule' = [r \in RuleIds |-> IF r \in W THEN [NoRecurring EXCEPT !.is = "gone"] ELSE rrule[r]]

\* Only a rule that was recurring when it was read is taken off the schedule.
EraseRule(q) ==
  LET r == call[q].id IN
  /\ call[q].at = "erase"
  /\ \/ /\ r \in RecurringRows /\ Gone({r})
        /\ CallGoes(q, IF call[q].rule.trigger = "recurring"
                   THEN [NoCall EXCEPT !.at = "sync", !.left = {r}] ELSE NoCall)
     \/ r \notin RecurringRows /\ CallGoes(q, NoCall) /\ UNCHANGED rrule
  /\ UNCHANGED <<events, templates, sched, boot, disturbed>>

\* MessageTemplateService.delete: an active rule holds it; the others go with it, and
\* nobody tells the scheduler.
ReceiveTemplateDelete(q) ==
  \E t \in templates :
    /\ ~\E r \in RecurringRows : rrule[r].active /\ <<rrule[r].event, rrule[r].template>> = t
    /\ Accept(q, [NoCall EXCEPT !.at = "template", !.rule.event = t[1], !.rule.template = t[2]])

EraseTemplate(q) ==
  LET t == <<call[q].rule.event, call[q].rule.template>> IN
  /\ call[q].at = "template"
  /\ templates' = templates \ {t}
  /\ Gone({r \in RecurringRows : <<rrule[r].event, rrule[r].template>> = t})
  /\ CallGoes(q, NoCall) /\ UNCHANGED <<events, sched, boot, disturbed>>

\* Its templates stay, as global ones that no rule may use.
EraseEvent ==
  \E e \in events :
    /\ callsTaken < MaxCalls /\ callsTaken' = callsTaken + 1
    /\ events' = events \ {e} /\ templates' = {t \in templates : t[1] # e}
    /\ Gone({r \in RecurringRows : rrule[r].event = e})
    /\ UNCHANGED <<sched, call, boot, outages, disturbed>>

-----------------------------------------------------------------------------
(* EventLifecycleService.duplicate: rows in one transaction, then the schedulers. *)

\* The source is read once: its rules, and its templates with those that its rules use.
SourceRules(e) == {r \in RecurringRows : rrule[r].event = e}
SourceTemplates(e) == {t \in Templates : <<e, t>> \in templates}
                      \cup {rrule[r].template : r \in SourceRules(e)}

\* from[r]: the rule that the new rule r is a copy of.
Copies(e) ==
  {from \in [RuleIds -> SourceRules(e) \cup {None}] :
    /\ \A r \in RuleIds : from[r] # None => rrule[r].is = "free"
    /\ \A o \in SourceRules(e) : \E r \in RuleIds : from[r] = o
    /\ \A r, s \in RuleIds : r # s /\ from[r] # None => from[r] # from[s]}

\* The copy of a rule that goes by a date, some of the "other" ones, is born inactive.
CopyOf(x, copy, dated) == [x EXCEPT !.event = copy, !.active = @ /\ ~(dated /\ x.trigger = "other")]

createDuplicateGraph(e, copy, new) ==
  /\ events' = events \cup {copy}
  /\ templates' = templates \cup ({copy} \X SourceTemplates(e))
  /\ rrule' = new

NoneDue(new, made) == {r \in made : new[r].is # "row"}
DueCopies(new, made) == {r \in made : Wanted(new[r]) # None}

\* What changes in the source between the read and the transaction is left out.
DuplicateEvent(q) ==
  \E e \in events, copy \in EventIds \ events, dated \in SUBSET RuleIds : \E from \in Copies(e) :
    LET made == {r \in RuleIds : from[r] # None}
        new == [r \in RuleIds |-> IF r \in made THEN CopyOf(rrule[from[r]], copy, r \in dated)
                                  ELSE rrule[r]]
        due == DueCopies(new, made) IN
    /\ call[q].at = "idle" /\ callsTaken < MaxCalls /\ callsTaken' = callsTaken + 1
    /\ createDuplicateGraph(e, copy, new) /\ Write(q, made)
    /\ call' = [call EXCEPT ![q] =
         IF due = {} THEN NoCall
         ELSE [NoCall EXCEPT !.at = "sync", !.left = due,
                 !.wants = [r \in RuleIds |-> IF r \in due THEN new[r].cron ELSE None]]]
    /\ UNCHANGED <<sched, outages>>

-----------------------------------------------------------------------------
(* The scheduler. *)

SyncScheduler(q) ==
  \E r \in call[q].left :
    /\ call[q].at = "sync"
    /\ sched' = [sched EXCEPT ![r] = call[q].wants[r]]
    /\ CallGoes(q, IF call[q].left = {r} THEN NoCall ELSE [call[q] EXCEPT !.left = @ \ {r}])
    /\ UNCHANGED <<tables, boot, disturbed>>

\* Redis refuses, or the process dies: the rows stay written.
SyncLost(q) ==
  /\ call[q].at # "idle" /\ outages < MaxOutages /\ outages' = outages + 1
  /\ disturbed' = disturbed \cup call[q].left
  /\ call' = [call EXCEPT ![q] = NoCall]
  /\ UNCHANGED <<tables, sched, boot, callsTaken>>

\* onModuleInit reads the active recurring rules; one that lost its cron is neither put on
\* the schedule nor taken off it ...
BootReads ==
  LET active == {r \in RecurringRows : rrule[r].active /\ rrule[r].trigger = "recurring"} IN
  /\ boot.at = "idle" /\ callsTaken < MaxCalls /\ callsTaken' = callsTaken + 1
  /\ boot' = [at |-> "upsert", found |-> active, left |-> {r \in active : rrule[r].cron # None},
              wants |-> [r \in RuleIds |-> Wanted(rrule[r])],
              clean |-> {r \in RuleIds : /\ ~\E q \in Sessions : Owes(q, r)
                                         /\ r \in active => rrule[r].cron # None}]
  /\ UNCHANGED <<tables, sched, call, outages, disturbed>>

\* ... and syncAll puts each on the schedule, in any order ...
BootUpserts ==
  \E r \in boot.left :
    /\ boot.at = "upsert"
    /\ sched' = [sched EXCEPT ![r] = boot.wants[r]]
    /\ boot' = [boot EXCEPT !.left = @ \ {r}]
    /\ UNCHANGED <<tables, call, callsTaken, outages, disturbed>>

\* ... lists the schedulers, and takes off those of rules it had not read.
BootLists ==
  /\ boot.at = "upsert" /\ boot.left = {}
  /\ boot' = [boot EXCEPT !.at = "prune",
                          !.left = {r \in RuleIds : sched[r] # None} \ boot.found]
  /\ UNCHANGED <<tables, sched, call, callsTaken, outages, disturbed>>

BootPrunes ==
  \E r \in boot.left :
    /\ boot.at = "prune"
    /\ sched' = [sched EXCEPT ![r] = None]
    /\ boot' = [boot EXCEPT !.left = @ \ {r}]
    /\ UNCHANGED <<tables, call, callsTaken, outages, disturbed>>

BootEnds ==
  /\ boot.at = "prune" /\ boot.left = {}
  /\ boot' = NoBoot /\ disturbed' = disturbed \ boot.clean
  /\ UNCHANGED <<tables, sched, call, callsTaken, outages>>

BootDies ==
  /\ boot.at # "idle" /\ outages < MaxOutages /\ outages' = outages + 1
  /\ boot' = NoBoot
  /\ UNCHANGED <<tables, sched, call, callsTaken, disturbed>>

NextRecurring ==
  \/ \E q \in Sessions :
       \/ ReceiveCreate(q) \/ ReceiveUpdate(q) \/ ReceiveDelete(q) \/ ReceiveTemplateDelete(q)
       \/ CheckRule(q) \/ InsertRecurring(q) \/ UpdateRecurring(q) \/ RefusedByDatabase(q)
       \/ EraseRule(q) \/ EraseTemplate(q) \/ DuplicateEvent(q)
       \/ SyncScheduler(q) \/ SyncLost(q)
  \/ EraseEvent
  \/ BootReads \/ BootUpserts \/ BootLists \/ BootPrunes \/ BootEnds \/ BootDies

SpecRecurring == InitRecurring /\ [][NextRecurring]_recurVars
=============================================================================
