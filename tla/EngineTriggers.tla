---------------------------- MODULE EngineTriggers ----------------------------
(***************************************************************************)
(* What makes the automation engine write to a registration: a change of   *)
(* its status, and an occurrence of a recurring rule                       *)
(* (automation-engine.service.ts, recurring-automations.worker.ts).        *)
(*                                                                         *)
(* The engine listens to a status change in the process that made it, with *)
(* nothing stored: it looks for the rules, asks which of them the person   *)
(* falls under, reads everything again and fills the outbox one message at *)
(* a time.  An occurrence is a job, which is run again after a crash.      *)
(***************************************************************************)
EXTENDS Naturals, FiniteSets, Nulls

CONSTANTS
  People,        \* ids of registrations
  Sheets,        \* the forms of the event
  Notices,       \* ids of rules, whose trigger, forms and template are ...
  NoticeOf,      \* ... NoticeOf[n]
  Hands,         \* status changes in flight
  MaxTurns,      \* bound: requests of the staff and answers
  MaxTicks,      \* bound: occurrences
  MaxMishaps     \* bound: failures and crashes

StatusTriggers == {"on_registration", "on_approval", "on_rejection"}

ASSUME EngineAssumption ==
  /\ \A n \in Notices : /\ NoticeOf[n].trigger \in StatusTriggers \cup {"recurring"}
                        /\ NoticeOf[n].forms \subseteq Sheets
  /\ {MaxTurns, MaxTicks, MaxMishaps} \subseteq Nat

VARIABLES
  person,       \* rows of registrations, with the forms they have answered
  live,         \* the active rules
  opening,      \* events.status
  hand,         \* hand[h]: the locals of a status change and of handleStatusChanged
  job,          \* the job of the recurring queue
  keys,         \* outbox_messages.dedupKey
  turns, ticks, mishaps,
  heard,        \* history: what each person was written, and on which occasion
  twice,        \* history: of that, what was written twice
  unsent        \* history: what was owed and not written: see Owed

engineVars == <<person, live, opening, hand, job, keys, turns, ticks, mishaps, heard, twice, unsent>>

NoPerson == [is |-> "free", status |-> "pending", origin |-> None, answered |-> {}]
NoHand == [at |-> "idle", person |-> None, status |-> "pending", rules |-> {},
           owed |-> {}]                              \* history: the rules it must answer to
NoJob == [at |-> "idle", rule |-> None, left |-> {}, run |-> 0,
          owed |-> {}]                               \* history: the people it must reach

Registered == {p \in People : person[p].is = "row"}

\* Any registrations and rules that requests one at a time could have left.
InitEngine ==
  /\ person \in [People -> {NoPerson} \cup
       [is : {"row"}, status : {"pending", "approved"}, origin : Sheets, answered : SUBSET Sheets]]
  /\ \A p \in Registered : person[p].origin \in person[p].answered
  /\ live \in SUBSET Notices /\ opening \in {"draft", "published"}
  /\ hand = [h \in Hands |-> NoHand] /\ job = NoJob /\ keys = {}
  /\ turns = 0 /\ ticks = 0 /\ mishaps = 0 /\ heard = {} /\ twice = {} /\ unsent = {}

Sendable == opening \notin {"draft", "cancelled"}

Turn == turns < MaxTurns /\ turns' = turns + 1 /\ UNCHANGED <<ticks, mishaps>>
Mishap == mishaps < MaxMishaps /\ mishaps' = mishaps + 1 /\ UNCHANGED <<turns, ticks>>
Goes == UNCHANGED <<turns, ticks, mishaps>>
Told == UNCHANGED <<keys, heard, twice, unsent>>

TRIGGER_MAP == [pending |-> "on_registration", approved |-> "on_approval", rejected |-> "on_rejection"]

\* What the docs promise: participation counts, but for the submission that registers.
Owed(p, status, origin) ==
  {n \in live : /\ Sendable /\ NoticeOf[n].trigger = TRIGGER_MAP[status]
                /\ \/ NoticeOf[n].forms = {}
                   \/ IF status = "pending" THEN origin \in NoticeOf[n].forms
                      ELSE person[p].answered \cap NoticeOf[n].forms # {}}
OwedRecurring(n) ==
  {p \in Registered : /\ Sendable /\ n \in live /\ person[p].status = "approved"
                      /\ NoticeOf[n].forms = {} \/ person[p].answered \cap NoticeOf[n].forms # {}}

-----------------------------------------------------------------------------
(* The requests. *)

\* createFromForm: the change is announced before the response is stored.
Register(h) ==
  \E p \in People, f \in Sheets :
    /\ hand[h].at = "idle" /\ Turn
    /\ person[p].is = "free" /\ p = CHOOSE o \in People : person[o].is = "free"
    /\ person' = [person EXCEPT ![p] = [NoPerson EXCEPT !.is = "row", !.origin = f]]
    /\ hand' = [hand EXCEPT ![h] = [NoHand EXCEPT !.at = "find", !.person = p,
                                                  !.owed = Owed(p, "pending", f)]]
    /\ UNCHANGED <<live, opening, job>> /\ Told

\* FormResponseRepository.upsert, of the form it registered by or of another.
AnswerSheet(p) ==
  \E f \in Sheets \ person[p].answered :
    /\ p \in Registered /\ Turn
    /\ person' = [person EXCEPT ![p].answered = @ \cup {f}]
    /\ UNCHANGED <<live, opening, hand, job>> /\ Told

\* updateStatus reads the registration ...
ReadStatus(h) ==
  \E p \in Registered, s \in DOMAIN TRIGGER_MAP :
    /\ hand[h].at = "idle" /\ Turn
    /\ s # person[p].status
    /\ hand' = [hand EXCEPT ![h] = [NoHand EXCEPT !.at = "change", !.person = p, !.status = s]]
    /\ UNCHANGED <<person, live, opening, job>> /\ Told

\* ... and writes it, then announces the change, unless the row is gone.
ChangeStatus(h) ==
  LET p == hand[h].person
      s == hand[h].status IN
  /\ hand[h].at = "change" /\ Goes
  /\ IF p \in Registered
     THEN /\ person' = [person EXCEPT ![p].status = s]
          /\ hand' = [hand EXCEPT ![h].at = "find", ![h].owed = Owed(p, s, person[p].origin)]
          /\ job' = IF s = "approved" THEN job ELSE [job EXCEPT !.owed = @ \ {p}]
     ELSE hand' = [hand EXCEPT ![h] = NoHand] /\ UNCHANGED <<person, job>>
  /\ UNCHANGED <<live, opening>> /\ Told

\* What the staff change meanwhile is owed to nobody.
Forgive(rules, ps) ==
  /\ hand' = [h \in Hands |-> [hand[h] EXCEPT !.owed = IF hand[h].person \in ps THEN {} ELSE @ \ rules]]
  /\ job' = [job EXCEPT !.owed = IF job.rule \in rules THEN {} ELSE @ \ ps]

SwitchRule(n) ==
  /\ Turn /\ live' = IF n \in live THEN live \ {n} ELSE live \cup {n}
  /\ Forgive({n}, {}) /\ UNCHANGED <<person, opening>> /\ Told

SwitchEvent ==
  /\ Turn
  /\ opening' \in (CASE opening = "draft" -> {"published", "cancelled"}
                     [] opening = "published" -> {"cancelled", "ended"}
                     [] OTHER -> {})
  /\ IF Sendable' THEN UNCHANGED <<hand, job>> ELSE Forgive(Notices, People)
  /\ UNCHANGED <<person, live>> /\ Told

DeletePerson(p) ==
  /\ p \in Registered /\ Turn
  /\ person' = [person EXCEPT ![p].is = "gone"]
  /\ keys' = {k \in keys : k[1] # p}
  /\ Forgive({}, {p}) /\ UNCHANGED <<live, opening, heard, twice, unsent>>

-----------------------------------------------------------------------------
(* handleStatusChanged. *)

\* findActiveTriggerRules.
FindRules(h) ==
  /\ hand[h].at = "find" /\ Goes
  /\ hand' = [hand EXCEPT ![h].at = "filter",
       ![h].rules = {n \in live : NoticeOf[n].trigger = TRIGGER_MAP[hand[h].status]}]
  /\ UNCHANGED <<person, live, opening, job>> /\ Told

\* matchesForm, with the form the registration came by.
matchesForm(n, p) == NoticeOf[n].forms = {} \/ person[p].origin \in NoticeOf[n].forms
responded(n, p) == NoticeOf[n].forms = {} \/ NoticeOf[n].forms \cap person[p].answered # {}

filterByOrigin(rules, p, s) == {n \in rules : matchesForm(n, p)}
filterRulesByForm(rules, p, s) ==
  {n \in rules : IF s = "pending" THEN matchesForm(n, p) ELSE responded(n, p)}

FilterRules(h) ==
  /\ hand[h].at = "filter" /\ Goes
  /\ hand' = [hand EXCEPT ![h].at = "fire",
       ![h].rules = filterRulesByForm(hand[h].rules, hand[h].person, hand[h].status)]
  /\ UNCHANGED <<person, live, opening, job>> /\ Told

\* fireAutomations and dispatchTrigger read the registration, the rules and the event again.
FireRules(h) ==
  /\ hand[h].at = "fire" /\ Goes
  /\ hand' = [hand EXCEPT ![h].at = "enqueue",
       ![h].rules = IF hand[h].person \in Registered /\ Sendable THEN @ \cap live ELSE {}]
  /\ UNCHANGED <<person, live, opening, job>> /\ Told

\* The outbox takes a key once; who is gone has no row there (a foreign key).
Enqueued(key, occasion) ==
  IF key \in keys \/ key[1] \notin Registered THEN UNCHANGED <<keys, heard, twice>>
  ELSE /\ keys' = keys \cup {key} /\ heard' = heard \cup {occasion}
       /\ twice' = IF occasion \in heard THEN twice \cup {occasion} ELSE twice

StatusKey(p, n) == <<p, NoticeOf[n].template, NoticeOf[n].trigger, 0>>

EnqueueNotice(h) ==
  \E n \in hand[h].rules :
    /\ hand[h].at = "enqueue" /\ Goes
    /\ Enqueued(StatusKey(hand[h].person, n), StatusKey(hand[h].person, n))
    /\ hand' = [hand EXCEPT ![h].rules = @ \ {n}]
    /\ UNCHANGED <<person, live, opening, job, unsent>>

HandEnds(h) ==
  /\ hand[h].at = "enqueue" /\ hand[h].rules = {} /\ Goes
  /\ unsent' = unsent \cup {<<hand[h].person, n>> : n \in
                 {n \in hand[h].owed : StatusKey(hand[h].person, n) \notin keys}}
  /\ hand' = [hand EXCEPT ![h] = NoHand]
  /\ UNCHANGED <<person, live, opening, job, keys, heard, twice>>

\* A query or the queue fails: it is logged, and what is left is not written.
HandFails(h) ==
  /\ hand[h].at # "idle" /\ Mishap
  /\ hand' = [hand EXCEPT ![h] = NoHand]
  /\ UNCHANGED <<person, live, opening, job>> /\ Told

-----------------------------------------------------------------------------
(* RecurringAutomationsWorker.process. *)

\* The scheduler of a rule may outlive its activity.
Tick(n) ==
  /\ NoticeOf[n].trigger = "recurring" /\ job.at = "idle"
  /\ ticks < MaxTicks /\ ticks' = ticks + 1 /\ UNCHANGED <<turns, mishaps>>
  /\ job' = [NoJob EXCEPT !.at = "start", !.rule = n, !.owed = OwedRecurring(n)]
  /\ UNCHANGED <<person, live, opening, hand>> /\ Told

\* findById and findWithApprovedRegistrationIds; a failure here fails the job for good.
JobReads ==
  /\ job.at = "start"
  /\ \/ /\ Goes
        /\ job' = [job EXCEPT !.at = "run", !.left =
             {p \in Registered : /\ job.rule \in live /\ person[p].status = "approved"
                                 /\ responded(job.rule, p)}]
     \/ Mishap /\ job' = NoJob
  /\ UNCHANGED <<person, live, opening, hand>> /\ Told

\* job.timestamp, the same when the job is run again.
OccurrenceOfRun(j) == 10 * ticks + j.run
occurrenceKey(j) == 10 * ticks

JobFires(p) ==
  LET key(o) == <<p, NoticeOf[job.rule].template, "recurring", o>>
      rest == [job EXCEPT !.left = @ \ {p}] IN
  /\ job.at = "run" /\ p \in job.left
  /\ \/ /\ Goes /\ job' = rest
        /\ IF p \in Registered /\ job.rule \in live /\ Sendable
           THEN Enqueued(key(occurrenceKey(job)), key(ticks)) ELSE UNCHANGED <<keys, heard, twice>>
     \/ /\ Mishap /\ job' = [rest EXCEPT !.owed = @ \ {p}] /\ UNCHANGED <<keys, heard, twice>>
  /\ UNCHANGED <<person, live, opening, hand, unsent>>

JobEnds ==
  /\ job.at = "run" /\ job.left = {} /\ Goes
  /\ unsent' = unsent \cup {<<p, job.rule>> : p \in
       {p \in job.owed : <<p, NoticeOf[job.rule].template, "recurring", ticks>> \notin heard}}
  /\ job' = NoJob
  /\ UNCHANGED <<person, live, opening, hand, keys, heard, twice>>

\* The process dies.  The changes it was answering to are forgotten; the job stalls and is
\* run again, once: the second time it fails.
EngineDies ==
  /\ Mishap
  /\ hand' = [h \in Hands |-> NoHand]
  /\ job' = IF job.at = "idle" \/ job.run = 1 THEN NoJob
            ELSE [job EXCEPT !.at = "start", !.run = 1, !.left = {}]
  /\ UNCHANGED <<person, live, opening>> /\ Told

NextEngine ==
  \/ \E h \in Hands :
       \/ Register(h) \/ ReadStatus(h) \/ ChangeStatus(h)
       \/ FindRules(h) \/ FilterRules(h) \/ FireRules(h) \/ EnqueueNotice(h) \/ HandEnds(h) \/ HandFails(h)
  \/ \E p \in People : AnswerSheet(p) \/ DeletePerson(p) \/ JobFires(p)
  \/ \E n \in Notices : SwitchRule(n) \/ Tick(n)
  \/ SwitchEvent \/ JobReads \/ JobEnds \/ EngineDies

SpecEngine == InitEngine /\ [][NextEngine]_engineVars
=============================================================================
