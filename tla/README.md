# Verification of the SED backend

SED is a NestJS backend (TypeScript, Prisma/PostgreSQL, BullMQ/Redis) with which
organisers run events: public forms take registrations, automations and manual
sends turn them into e-mails and WhatsApp messages, a worker delivers those and a
webhook records their receipts. All paths below are relative to `src/app/`.

The project specifies what in it is concurrent and fallible, in two halves.

The first is the way of a message: what decides that one is due (`AutomationSweeps` for
the triggers with a date, `FormFieldDate` for the monthly one), how it becomes
a durable row and a paced job (`MessageEnqueue`), how it is sent piece by piece
(`MessageDispatch`, implementing `AtLeastOnce`), and how its receipts are booked
(`DeliveryReceipts`, implementing `ReceiptLadder`).

```
   cron, HTTP                        Postgres            Redis/BullMQ          provider
  ------------                      ----------          --------------        ----------
  on_date / on_event_delay sweeps --> automation_rules
  on_date_form_field sweep            (firedAt, firedForAt),
        | fireAutomations             form_responses
        v
  OutboxService.enqueue -----------> outbox_messages --> pacing cursor
        | (row, slot, job)            (dedupKey)         job, delayed
        v                                                   |
  MessageDispatchWorker.process <---- status, counters <----+  --> sendBatch / e-mail
        |                             message_logs                        |
        v                                  ^                              v
  DeliveryStatusService <------------------+------------------------ webhook
```

The second is the back office around it: the requests of the panel and of the public
pages, each of which reads rows, checks them and writes afterwards, to the database, the
queue, the storage or the CRM, with no transaction around it. Eleven modules model one part
each, with what it shares with others:

```
  public pages                               panel
  ------------                               -----
  submitForm  --> Registrations  <---------- status of registrations and of the event
      | answers        | status changed          | forms, fields, scoped rules
      v                v                         v
  FormAnswers     EngineTriggers --> outbox   FormAnswers
  checkIn --> CheckIn     ^                   RecurringRules --> schedulers (Redis)
                          |  occurrence              | occurrence
                          +--------------------------+
                        manual send --> ManualSend --> outbox   FolderTree, DisplayOrder,
                                  files: MessageFiles           EventPanel, TemplateHomes
```

## 1. Inventory

| component | state | operations | what is hard | what makes it correct |
|---|---|---|---|---|
| dispatch worker (`application/workers/message-dispatch.worker.ts`) | row's status and counters, job, locals of each execution | `process`, its gate, its catch block | retries, stalls, two executions of one job, failing writes in the error path, lost answers | *sent* means everything is out; pieces in order; what is repeated has a reason; the outcome is booked; jobs end |
| WhatsApp adapter (`infra/adapters/whatsapp.adapter.ts`) | none | `sendBatch` resumes, reports progress, classifies errors | 20 s timeout on a request the provider accepted | as above |
| outbox and pacing (`application/outbox_module/outbox.service.ts`, `whatsapp-pacing.service.ts`) | row per `dedupKey`, cursor per instance, job | `enqueue`, `nextDelayMs` | three awaits on two stores, several processes, clock read early, key expiry | slots and jobs are a gap apart; a call that returned left a job |
| delivery receipts (`delivery-status.service.ts`, outbox and log repositories) | row and log marks | `handle`: delivered, read, failed | reordered, repeated, lost receipts; two statements per table; a race with the worker's log insert | marks only advance; the log follows the row; a read is a delivery |
| dated sweeps (`date-automations.service.ts`, `event-delay-automations.service.ts`) | `firedAt`, `firedForAt`, locals of a sweep | `sweep`/`doSweep` every five minutes | overlap, crash in mid-loop, edits between read and mark | nobody left out, nobody twice, everything due is dealt with |
| form-field-date sweep (`form-field-date-automations.service.ts`) | none stored | window, clamp, paging | month ends, midnight, paging under change | each answer once a month |
| automation engine (`automation-engine.service.ts`) | none | `handleStatusChanged`, `fireForForm`, `fireAutomations` | answers after the request has ended; re-reads everything at each step; swallowed errors | who is owed a message gets it; one key per occasion |
| automation rules (`automation.service.ts`) | rules, their forms, `firedAt` | create, update, delete | checks on a row read before the write; two stores | a fired date is not re-armed; a rule keeps its scope |
| recurring automations (`recurring-scheduler.service.ts`, worker) | job schedulers in Redis | upsert, remove, reconcile at boot, run | divergence from the database, overlap, Redis errors | active rules and schedulers agree |
| registrations, CRM webhook (`registration.service.ts`) | registrations, responses, `pipedriveStatus` | submit, import, status, answers, attendance | capacity check then insert; fire-and-forget call; read-modify-write of answers | capacity; *sent* means the CRM has it, once |
| check-in (`registration.service.ts`, `shared/handlers/phone.ts`) | `attended` | `checkIn` by phone | phones written in several ways, several events, a choice by date | the event of today, all rows of that person there and no other |
| form responses and documents (`form-documents.service.ts`) | responses, stored files | finalize, prune, backfill | files move before the submission is accepted | - |
| forms, fields and answers (`form.service.ts`, `form-field.service.ts`, `shared/answer-validation.ts`) | forms, fields, answers by field | create, rename, retype, delete; answers by label | the page is older than the form; slugs and labels checked then written | an answer reaches its field; a dated rule keeps its field |
| event lifecycle (`event.service.ts`, `event-lifecycle.service.ts`) | event status | update, updateStatus, cancel, duplicate, delete | notices after the status write; rules without an owner in the copy | notices follow a cancellation; the copy's schedulers |
| manual sends (`manual-send.service.ts`) | none of its own | resolve recipients, enqueue in batches | two delays that start over; partial failure of a batch | everybody once, a gap apart |
| attachments (`message-attachments.service.ts`) | stored files | upload, `deleteIfUnreferenced` | count, then delete, while others come to name the file | a referenced file exists |
| templates (`message-template.service.ts`) | templates with event and folder | create, patch, delete | partial patches checked against three tables before the write | folder and rules are of the template's event |
| folders (`folder.service.ts`) | tree | create, move, delete | walk up, then write | acyclic, bounded depth |
| display order (`shared/resequence.ts`, repositories) | column `order` of five tables | move, reorder, append | partial rewriting of a listing full of ties | an item lands where it was dropped |
| events, collaborators, pictures (`event.service.ts`, `collaborator.service.ts`, `profile.service.ts`) | events, roles, profiles, stored pictures | create, edit, share, upload, remove | one path for ever, swallowed storage errors | what is shown is stored |
| message log, WhatsApp instances, maintenance crons | rows | list, prune, clean | - | - |
| HTTP API, guards, DTOs, CSV, calendar files, rendering | none | - | - | - |

`PROJECT.json` lists the hazards of these components at their lines, and which
property covers each.

## 2. Plan

1. *Done.* The way of a message: `MessageDispatch` (with `AtLeastOnce`),
   `DeliveryReceipts` (with `ReceiptLadder`), `MessageEnqueue`, `AutomationSweeps`,
   `FormFieldDate`, with their proofs.
2. *Done.* The back office: `Registrations`, `FolderTree`, `FormAnswers`,
   `RecurringRules`, `MessageFiles`, `ManualSend`, `DisplayOrder`, `EngineTriggers`,
   `CheckIn`, `EventPanel`, `TemplateHomes`, in one run.
3. *Done.* Proofs of the safety and action properties of every module (section 5).
4. *Done.* That the parts of the back office keep in one specification what each is proved
   to keep alone.
5. Models that are left: the null message id after a resume, which needs
   `MessageDispatch` and `DeliveryReceipts` composed.

Every module is written to be proved about: constants with named assumptions, one
action per await, no recursive operator. A component `X` has `X` (state and steps),
`XProps` (what it must do); `EventPanel` and `TemplateHomes` hold the little they must do
themselves. The five on a message's way have their proofs in `XProofs`; those of the back
office are together by subject, in `DeskProofs` (registrations, forms, check-in, engine,
manual sends) and `PanelProofs` (folders, attachments, templates, events and pictures, order
of display, recurring rules); `BackOfficeProofs` is about the whole. What TLC needs besides
is in `MCX`; the parts of the back office share `MCBackOffice`, and `DeliveryReceipts` and
the run on scopes need nothing and are run from their `Props`. `Nulls` has the two values
that stand for null and for a field a patch leaves out.

## 3. The modules

### MessageDispatch

One row `m` has a `status`, counters `progress[m]` (`sentParts`, `sentAttachments`)
and a job (`job`, `made` = `attemptsMade`, `paced` = `data.pacedForAttempt`,
`stalls`, `owner` = the holder of the lock). A slot `w` (a process times
`WA_DISPATCH_CONCURRENCY`) runs `process()`; `at[w]` is the await it is about to make:

| step | code |
|---|---|
| `Pick` | BullMQ hands over the job; the worker reads `attemptsMade` and `data` |
| `SkipIfSent`, `Load` | `findDispatchById` and the test on `'sent'` |
| `ReserveSlot`, `MoveToDelayed` | the gate: `updateData`, then `moveToDelayed` and `DelayedError` |
| `MarkProcessingAttempt` | `markProcessingAttempt`; no token for the instance is fatal |
| `SendPiece`, `SendRejected`, `SendAckLost`, `SavePiece` | the loops of `sendBatch` with `onPartSent`/`onAttachmentSent`, or `sendEmail` |
| `MarkDispatchSent`, `CreateLog` | `markDispatchSent`, `messageLogs.create` |
| `WriteFails`, `MarkDispatchFailed`, `CreateFailLog`, `CatchFails`, `Throw` | the catch block; a failure inside it replaces the `UnrecoverableError` |
| `FailsOutsideTry` | the reads and the marking precede the `try` |
| `Crash`, `Stalled`, `LockLost`, `DeliveryFailed`, `RowDeleted` | the environment: a dead process, the stalled check, a lock that expired under a live process, the webhook, a cascade or the pruning of old rows |

BullMQ is external: adding a job is a no-op while a job with its id is kept, a
stalled job goes back once (`maxStalledCount`), `attemptsMade` counts failures only.
`accepted` and `resent` are "at least once" and "more than once"; `unrecorded`,
`overlap` and `unbooked` remember why something may be repeated or unbooked.
`AtLeastOnce` is the promise without rows and jobs; the mapping takes `accepted` for
`delivered` and the rows in status *sent* for `done`.

Left out: the rendering of text, HTML and calendar invitations, legacy jobs without an
`outboxId`, the column `attempts` (written, never read).

### DeliveryReceipts

One WhatsApp message. Every part the provider accepts gets an id; row and log keep the
id of the last part an execution sent (none, if it resumed with nothing left to send).
A handler makes up to four updates, each atomic with its WHERE clause: row, row again
for a read without a delivery, log, log again. The worker is a coarser view of
`process()`: mark, parts, `markDispatchSent`, `messageLogs.create`. Log rows with a null
id match no receipt and are not kept. `torn`, `missed`, `lost` and `due` are history.

### MessageEnqueue

A call of `enqueue` inserts the row (or finds it), reads the clock, runs the Lua script
and adds the job; the gate of the worker goes through the same cursor. Time is
discrete; a call takes at most `MaxLag` ticks from its reading of the clock to its add.
`MaxLag <= Slack` (60 s) is the assumption on latency under which the expiry of the
cursor is harmless; that the code cannot force it is listed as a hazard. Clocks of
replicas are taken to agree. Gaps are positive, as the defaults are (40 to 60 s). `Lose`
merges the failure of the reservation (thrown), of the add (swallowed) and a crash; a
failure before the insert is a call not made. Spacing is about the instants jobs are
scheduled for; nothing limits the rate after an outage. `ExtraDelay` moves a job off its
slot, so jobs are compared only at equal offsets.

### AutomationSweeps

Rules of both dated triggers, the event's date and status, the approved registrations,
and the outbox as the set of dedup keys. A sweep reads its candidates once, then for
each rule the audience once (`TakeRule`), then per recipient re-checks rule and event
(`CheckRecipient`) and enqueues (`Enqueue`, `RecipientFails`), then marks (`MarkFired`).
`CheckPatch` and `WritePatch` are the two halves of `AutomationService.update`: what it
validated and what it writes. Users create, patch and delete rules, move the event, change
its status and decide registrations.

Simplifications: one template per rule and no patch of template, trigger or forms (so
no duplicate check); no `endDate` on the event, so *before* and *after* count from
`eventDate`; registrations are not deleted; the lateness test and the read of the
audience are one step; outbox rows are not removed (a history of keys). `firedAt` of
delay rules is written and never read by the sweep, so it is not kept.

### FormFieldDate

The monthly trigger of one form: its rules, the status and answered day of each
registration, the event, the outbox, and one sweep per replica of the process. The
calendar is a function `Start` from months to their first day; a day has `DayTicks`
runs of the cron, of which `Tolerance` keep a window open (288 and 144 in the code).
`Anchors` is `resolveWindow`, `ClampMatches` is `clampMatches`, `Windows` the loop that
pairs rules with anchor and occurrence key. A sweep takes the time (`StartSweep`), reads
the rules, then page after page of approved responses (`ReadPage`, `NextPage`), and for
each match re-checks registration, rule and event (`CheckRecipient`) before it enqueues.
`Fault` is a recipient that throws, a page or query that fails, or a process that dies.
`owed` is history: who was approved with an answer due on a day when its window opened
and has not been edited, nor had its rule or event edited, since.

Simplifications: a rule with several forms is one rule per form here, as it has one
window and one key for each; the form has its date field throughout; one template per
rule; a registration without a response is one whose answer is empty; a rule created or
deleted is one that becomes active or inactive; a deleted registration does not come
back; rules share one time zone and all days have the same length (no daylight saving);
the matches of a page are fired in any order; `parseDay` is the set of answered days,
with 0 for what it rejects; the event's date does not change (`LastDay`).

### The back office

In all these modules a request `q` has its locals in one record, `at` is the query it is
about to make, and between two queries anything else may happen; a request that throws
is one that goes back to *idle*. A step is a query with the code up to the next one.
Numbers of requests and failures are bounded; histories (marked as such where they are
declared) remember what excuses a property, never what a step may do.

**FolderTree** (`folder.service.ts`, its repository). `create` and `update` start
(`StartCreate`, `StartMove`), climb (`ClimbUp`, one query a level, at most `MaxDepth`),
and write (`CreateRow`, `MoveRow`); `delete` reads the parent to lift the children to
(`StartDelete`, `ReadLift`) and deletes (`DeleteRow`). `clash`: a write went ahead though
a move or deletion had changed the tree since its walk began. `carried`: a folder was
moved with folders inside, whose depth the code does not measure. Names and order are
left out (the latter is in `DisplayOrder`).

**Registrations** (`registration.service.ts`, `event.service.ts`,
`event-lifecycle.service.ts`). A submission promotes its documents (`Promote`), looks for
the phone (`Find`), counts (`Count`), inserts (`Create`) or goes on with the row it found,
stores the response (`Respond`) and sends it to the CRM (`Dispatch`), whose call ends when
it will (`CallEnds`), whose answer is stored in a write of its own (`RecordSent`,
`RecordFailed`, or not: `RecordNowhere`). Imports, deletions, decisions, uploads and
their pruning come in between; `ReadEvent` and `WriteEvent` are the status machine,
`ListActive` and `Tell` the notices of a cancellation. `Crash` ends the process with
everything in flight.

**FormAnswers** (`form.service.ts`, `form-field.service.ts`, `answer-validation.ts`,
`automation.service.ts`). A visitor opens a page (`OpenPage`) and sends it later
(`SubmitPage`), by label or by id; `Lookups`, `Resolves` and `Mapped` are how an answer
finds its field and which of two wins. The staff create, rename, retype and delete forms
and fields and scope rules, each with a check (`Start...`) and a write (`Write...`,
`DropField`, `InsertRule`); `WriteAnswers` and `MergeAnswers` are the two writes of
`updateAnswers`. Values are who wrote them.

**RecurringRules** (`automation.service.ts`, `recurring-scheduler.service.ts`,
`recurring-automations.worker.ts`, and the duplication in `prisma-event.repository.ts`).
Rows in `rrule`, schedulers in `sched`. A request reads (`Receive...`), checks
(`CheckRule`), writes (`InsertRecurring`, `UpdateRecurring`, `EraseRule`,
`EraseTemplate`, `DuplicateEvent`) and then syncs the schedulers one by one
(`SyncScheduler`, or `SyncLost`). The boot reads the rules, upserts, lists and prunes.
`disturbed`: rules whose sync was overtaken or lost; the boot clears those it repaired.

**MessageFiles** (`message-template.service.ts`, `message-attachments.service.ts`).
Requests write a template (`InsertTpl`, `PatchTpl`, `EraseTpl`), then count who names the
old file (`CountRefs`) and remove it (`RemoveFile`); the engine (`FireRule`) and a manual
send (`SendTemplate`, `SendFiles`) read a template or an upload and enqueue later
(`EnqueueMsg`). `exposed`: rows that came to name a file already gone or whose removal
was decided.

**ManualSend** (`manual-send.service.ts`). `Accepted` are the checks of a request,
`ServedPlaces` drops repeated recipients, `Queue` enqueues the next one and computes its
delay: within the batch, between batches, or the slot of the cursor. It is assumed that
`BatchSize * WaMaxDelay <= BatchMinDelay`: the defaults satisfy it, and
`env.validation.ts` does not check it; without it the property fails at the boundary of
two batches.

**DisplayOrder** (`resequence.ts`, `order-writes.ts` and five repositories). One listing
per behaviour, of any of the five kinds. `MoveEvent`, `MoveTemplate` and `MoveRule` start
a drag, `MoveLists` reads the listing and works out the rows to write (`Resequence`,
`WritesFor`), `MoveWrites` writes them; `ReorderX` rewrites a page of ids in one
statement; forms and folders are appended after the last (`AppendForm`, `AppendFolder`,
`MoveFolder`). Rows are created, filed elsewhere and deleted meanwhile.

**EngineTriggers** (`automation-engine.service.ts`, `recurring-automations.worker.ts`). A
change of status writes the row (`ChangeStatus`), then, after the response, `FindRules`,
`FilterRules`, `FireRules` and an `EnqueueNotice` for each; an occurrence is a job
(`Tick`, `JobReads`, `JobFires`, `JobEnds`) that a crash (`EngineDies`) makes run again.
`Owed` is who is under an active rule when it begins; `Forgive` drops what the staff
changed afterwards.

**CheckIn** (`registration.service.ts`, `phone.ts`). A phone as typed is a record:
country prefix, area code, ninth digit, line. `normalizePhone` and `phoneMatchKey` are
what they do to it, `pickClosestToToday` the choice of the event, `AtTheDoor` the query,
`MarkPresent` the update.

**EventPanel** (`event.service.ts`, `collaborator.service.ts`, `profile.service.ts`,
`supabase-storage.adapter.ts`). Events with slug, status, owner and roles; pictures in the
storage (`StoresObject`, `RemovesObject`) and their URL in the row (`WritesUrl`), each of
which may fail (`Blip`). `ChecksSlug` and the unique index decide on slugs, with
`MAX_RETRIES` random suffixes. `tangled`: pictures uploaded while another request
removed them, or whose removal was cut short.

**TemplateHomes** (`message-template.service.ts`, its repository, and the checks of
`automation.service.ts`). A patch reads the template and checks folder and event
(`Revise`), looks for rules if it changes events (`hasRuleForTemplate`), works out the
folder (`resolveFolderId`) and writes (`UpdateLetter`). Rules look the template up
(`CreateDuty`, `PatchDuty`) and are written later (`WriteDuty`); folders and events are
deleted meanwhile, with what the foreign keys do to templates and rules. `crossed`:
templates written by a request whose reading was overtaken. A folder's event never
changes, and the subject an e-mail needs is left out.

`MCBackOffice` puts these in one run: `part` is chosen at the start, the part goes on
from its initial states and the others stay as they began. No two parts share a row in
the model, so a product of them would only multiply interleavings. Rows that two parts of
the code share are modelled in each as far as it uses them (a status in `Registrations`
and `EngineTriggers`, say), with the other part's writes as actions of its environment.

## 4. The runs

| run | instance | shows | states |
|---|---|---|---|
| `dispatch` | 1 WhatsApp message (2 parts, 1 attachment), 1 e-mail, 2 slots, 2 attempts, 1 stall, all faults | sent is complete, order, honest counters, repeats explained, giving up booked | 793k |
| `redispatch` | 1 message, 1 slot, 3 attempts, the job added again after it was removed | refinement of `AtLeastOnce`, no reopening, jobs end | 79k |
| `receipts` | 2 parts, 2 handlers, 2 receipts, 2 attempts, all faults | marks advance and agree; refinement of `ReceiptLadder` | 286k |
| `enqueue` | 3 calls, 2 messages, 1 instance, gap 2, lag and slack 1, 1 retry, all faults | jobs with slots spaced; no call returns without a job | 2.7M |
| `sweeps` | 1 rule of each kind, 1 registration, 2 overlapping date sweeps, 1 delay sweep, 1 edit, 1 fault, 4 instants | nobody left out, once per rule; what is due gets dealt with | 342k |
| `form_field_date` | 2 overlapping replicas (symmetric), 1 rule, 2 responses in pages of 1, months of 3 and 1 days, 7 runs a day of which 6 in a window, 1 fault, 1 edit | the month's message once, for the right day, to everybody | 2.3M |
| `back_office` | each of the eleven parts: 2 overlapping requests (symmetric), a fault or a crash where there is one | what each part promises (below) | 729k |
| `email_twice` | an e-mail | *violation*: a failing log insert sends it twice | |
| `stuck_processing` | a message, a crash per stall | *violation*: a row stays in *processing* | |
| `unpaced_contact` | two calls for one key | *violation*: the call that found the row adds its job unpaced | |
| `moved_date_lost` | a patch of `sendAt` in mid-sweep | *violation*: the new date is marked fired by the old one's mark | |
| `scope_widens` | 2 forms, 1 rule | *violation*: a rule outlives its form and fires for another | |

What `back_office` shows, part by part:

| part | bounds | property |
|---|---|---|
| `FolderTree` | 4 folders, 3 of them there, 3 levels, 3 requests | `NoneVanishes`: no cycle, unless a write overtook a walk; `DeepOnlyIfCarried` |
| `Registrations` | 2 submissions and an import, 1 place, 2 forms (one anonymous, one with document and CRM), 1 change by staff, 1 fault | `OverbookedOnlyByRace`, `CrmStatusIsTrue`, `AbsentOnlyIfLate` |
| `FormAnswers` | 2 forms, 2 fields, 2 labels, 1 rule, 1 visit, 2 requests | `AnswersReachTheirField`, `DateRuleHasItsField`, `CopiesAgree` |
| `RecurringRules` | 2 rules, 2 events, 2 crons, 3 requests or boots, 1 Redis error or crash | `RecurringOnTime` |
| `MessageFiles` | 2 templates, 2 files, 1 message, 1 sender, 3 requests, 1 failed removal | `FilesOutliveMessages` |
| `ManualSend` | 2 sends of up to 4 recipients with repetitions, batches of 2, both settings of the gate | `ManualSpacing` |
| `DisplayOrder` | 3 rows, 2 of them there, 2 homes, 2 users, 3 requests | `DropLandsWhereAimed` |
| `EngineTriggers` | 1 person, 2 forms, 3 rules, 1 occurrence, 2 requests, 1 mishap | `NobodyIsPassedOver`, `OncePerOccasion` |
| `CheckIn` | 2 registrations, 2 events, 3 spellings of phones of 2 people, 4 instants in 2 days, 2 requests | `DoorMarksTheRightEvent` |
| `EventPanel` | 2 events, 2 users, 3 slugs, 5 requests, 1 failure | `ShownPicturesExist` |
| `TemplateHomes` | 2 templates, 2 events, 2 folders (one global), 1 rule, 2 requests, from every consistent state | `TemplatesAreAtHome` |

**Why the bounds are enough.** Two executions are the least at which a lock can be lost
and the most that hold one job's row at a time under one stall; two parts and an
attachment are the least at which a resumption can skip, repeat or swap pieces; two
attempts reach the last-attempt path as well as the retry, three the retry of a retry
and the second pass through the gate. Two handlers and two receipts make every pairwise
race of receipts. In `enqueue` two calls share a key and a third competes for the
cursor, and the lag reaches the slack. Two overlapping date sweeps can each be ahead of
the other; one edit per run falls anywhere in a sweep. In `form_field_date` the answers
are the second day, which one month has and the other lacks, and the fourth, which both
lack; one send time opens a window that crosses midnight and the end of the month; the
window holds just enough runs for the fault and the edit (`EnoughRuns` is tight: with
one replica and one run less, what it guards fails). Empty answers are left to the
proofs. In the back office a race is between two requests, so two slots are enough, and
the number of requests is the longest sequence after which a property can first fail
when its excuse is taken away: two moves after a tree is built, an overbooking by two
submissions, a patch and a boot about one rule, an upload and a removal after the event
exists. The invariants that matter most are proved for any value of the constants, so
there the bounds only serve to find the invariant. Deadlock is not checked: every
bounded instance comes to its end.

Symmetry is used in `form_field_date` (replicas) and `back_office` (slots of requests,
and names that are only compared), runs without liveness.

**Type invariants.** `back_office` checks `TypeOKBackOffice`, that of the part at work; it
and that of each part are also proved. Those of the five components on a message's
way, and `SlotsAreSpaced`, are proved and not run again.

**Fairness.** `MessageDispatch`: weak fairness of each slot's next step (Node runs the
continuation of every await), of picking each waiting job and of the stalled check of
each job; none of crashes, faults, webhooks or users. `DeliveryReceipts`: weak fairness
of each handler. `AutomationSweeps`: weak fairness of each sweep's start and steps,
since cron starts it every five minutes and an await returns or throws. `enqueue` and
`form_field_date` need none (in the latter, `Tick` waits for a sweep that has taken more
than `MaxSpan` runs, and the promise is an invariant about windows that closed). The
fault counters are bounded, so liveness says: once failures stop. In the back office no
request waits for another, and what it owes is stated when it ends (`NobodyIsPassedOver`,
`AbsentOnlyIfLate`), so no fairness is assumed there.

## 5. The proofs

| module | theorem | property |
|---|---|---|
| `MessageDispatchProofs` | `TypeCorrect`, `SentMeansDelivered`, `OrderIsKept`, `CountersAreHonest`, `WorkerKeepsPromise` | `TypeOK`, `SentIsComplete`, `PiecesInOrder`, `ProgressIsBacked`, `KeepsPromise` |
| | `RepeatsHaveAReason`, `GivenUpIsMarked`, `SentStaysClosed` | `ResendIsExplained`, `GivingUpIsBooked`, `SentIsNotReopened` |
| `DeliveryReceiptsProofs` | `ReceiptsTyped`, `ReadIsDelivered`, `RowLeadsLog`, `LogIsMonotonic`, `RowIsMonotonic`, `LogMissesNothing` | `TypeOK`, `ReadMeansDelivered`, `LogFollowsRow`, `LogOnlyAdvances`, `RowClimbs`, `LogKeepsUp` |
| `MessageEnqueueProofs` | `EnqueueTyped`, `SlotsKeepTheirGap`, `ReservedJobsKeepTheirGap`, `DoneLeavesAJob` | `TypeOK`, `SlotsAreSpaced`, `ReservedJobsSpread`, `DoneMeansQueued` |
| `AutomationSweepsProofs` | `SweepsTyped`, `NobodyLeftOut`, `DateRuleOnce` | `TypeOK`, `FiredMeansServed`, `OncePerRule` |
| `FormFieldDateProofs` | `MonthlyTyped`, `MessageOncePerMonth`, `MessageOnRightDay`, `EveryMonthIsServed` | `TypeOK`, `OncePerMonth`, `RightDay`, `NobodyMissesAMonth` |
| | `ClampOnce`, `AnchorIsUnique` | about `clampMatches` and `resolveWindow` themselves |
| `PanelProofs` | `TreeTyped`, `NoFolderVanishes`, `DepthIsKept` | `TypeOKTree`, `NoneVanishes`, `DeepOnlyIfCarried` |
| | `FilesTypeCorrect`, `NamedFilesExist` | `TypeOKFiles`, `FilesOutliveMessages` |
| | `HomesTypeCorrect`, `TemplatesBelong` | `TypeOKHomes`, `TemplatesAreAtHome` |
| | `PanelTypeCorrect`, `PicturesAreThere` | `TypeOKPanel`, `ShownPicturesExist` |
| | `OrderTypeCorrect`, `DropsLand` | `TypeOKOrder`, `DropLandsWhereAimed` |
| | `RecurringTyped`, `ScheduleIsTrue` | `TypeOKRecurring`, `RecurringOnTime` |
| `DeskProofs` | `DeskTyped`, `CountedFit`, `CrmSeesEachOnce`, `CancellationTellsAll` | `TypeOKDesk`, `OverbookedOnlyByRace`, `CrmStatusIsTrue`, `AbsentOnlyIfLate` |
| | `FormsTypeCorrect`, `AnswersArrive`, `DateFieldStays`, `CopiesStayEqual` | `TypeOKForms`, `AnswersReachTheirField`, `DateRuleHasItsField`, `CopiesAgree` |
| | `DoorTypeCorrect`, `RightEventIsMarked` | `TypeOKDoor`, `DoorMarksTheRightEvent` |
| | `EngineTyped`, `WrittenOnce`, `NobodyIsForgotten` | `TypeOKEngine`, `OncePerOccasion`, `NobodyIsPassedOver` |
| | `SendTyped`, `SendsAreSpaced` | `TypeOKSend`, `ManualSpacing` |
| `BackOfficeProofs` | `BackOfficeTyped`, `BackOfficeKeepsItsPromises` | `TypeOKBackOffice`; the other properties of `back_office`, of `SpecBackOffice` |

All about a property are theorems of `Spec` (no fairness) for any finite or infinite sets of rows,
workers, requests and registrations, under the assumptions named in each module.

- **Dispatch.** `SafetyInv` is the type invariant (an execution that is not idle has a
  row), `Backed` (what an execution's own cursors, and the row's counters, count as sent
  was accepted), and the two properties. `Backed` is what makes overlap harmless: two
  executions may overwrite each other's counters, but never with a number the provider
  has not seen. The refinement follows: a step that changes `accepted` or the *sent* rows
  is a `Deliver`, `Confirm` or `Reopen`. `AccountInv` is about jobs whose executions did not
  overlap. The lone execution counts exactly what the row counts and has met no row that says
  *sent* (`Honest`); what was accepted is in the counters, on record as not recorded, or in
  the hands of the execution that sent it (`RowRemembers`). So a second sending has a reason,
  a job that was given up left its mark, and *sent* is not reopened.
- **Receipts.** The marks a handler owes (`HandlersLeaveMarks`), how log rows relate to
  them, and that a log row is written once per id. `KeepInv`, for `LogKeepsUp`: the highest
  receipt due is in the log, was given up, or is with a handler that has the log still
  before it.
- **Enqueue.** `PacingInv`: calls read the clock at most `MaxLag` ago, gates run for
  retries, and the cursor either holds the last slot or that slot lies behind every
  caller's clock, which is where `MaxLag <= Slack` enters. `SpreadInv` adds that holders
  of slots are bounded by the counter and as far apart as their numbers. `QueuedInv`: a job
  that came to its end, or is at a retry, belongs to a message that was attempted; so when a
  job is missing and the message has not been attempted, a call that came to its end has
  added it.
- **Sweeps.** `ServedInv`: what a sweep has ticked off is in the outbox or dropped.
  `OnceInv`: what a sweep holds, and what was sent, is for the date the rule still has
  unless the rule raced, and a date served stays put.
- **Form-field dates.** `ClampOnce`: over any calendar, each answered day matches one day
  of each month; `AnchorIsUnique` needs `Tolerance < DayTicks`, the rule the code's
  comment states. `MonthlyInv` carries both through a sweep: a window names its anchor's
  month, a match in hand clamps to its anchor, and no two messages share a key. `ServedInv`
  is an account of the runs in a window: whoever is still owed the month's message is, for
  each replica, either in what its sweep has yet to do, with room for as many struck runs as
  there are faults and edits left, or will be read by a later run that falls into the window
  (`Chance`, `Room`). It needs `EnoughRuns`, that the window holds a run more than these can
  strike, and `EveryRuleIsRead`, that no more rules are active than a tick reads
  (`RULES_PER_TICK`); both are antecedents of `NobodyMissesAMonth`, which says nothing of the
  newest rules when there are more.
- **Desk.** `PlaceKept`: a submission whose count nobody overtook finds fewer rows than
  places when it inserts. `CallsTrue`: of a response that is not muddled one call is under way
  at a time, and its row says *sent* only when it was delivered. `ListsHold`: whoever a
  cancellation nothing disturbed has still to tell is on its list, or late.
- **Forms.** `FormsInv`: a page nothing changed shows the form as it is (`PageTrue`), so what
  is sent under its labels arrives; the field an active date rule needs has nobody about to
  remove it (`DatesKept`), which the check of the deletion makes true and the check of the
  rule keeps; an edit has read what is stored, and between its two writes the copies differ
  by it alone (`CopyKept`).
- **Check-in.** `DoorInv`: what a request nothing disturbed is about to mark is what its query
  would find now. The rest is arithmetic of days and phones: two spellings of one number have
  the same digits behind the country code once the ninth digit is dropped. `DoorAssumption`
  says besides that no phone is null.
- **Engine.** `KeysAreHeard`: the key in the outbox is a function of the occasion, so a second
  message for one occasion meets the constraint, from whichever run of the job or overlapping
  request. `HandOwes`, `JobOwes`: what a change of status or an occurrence owes is in what its
  step has left to do, or in the outbox, and whom it owes is still registered under a rule
  that is still active, or `Forgive` has dropped them.
- **Recurring rules.** `RecurInv` holds of each rule apart (`SoundRule`). Whoever is to bring
  its scheduler in line knows the row as it is, and when there is nobody the scheduler is in
  line, unless the rule is disturbed (`InLine`); a boot knows the rows nobody has written since
  it read them (`BootKnows`), and what it will vouch for has nobody else at it
  (`BootVouches`). The assumption is that there is a template.
- **Manual sends.** `SendInv` (`Loop`): whom a send has yet to serve has no message of it, and
  every WhatsApp message so far is planned no later than the batch and the delay within it
  (`InBatch` times the longest delay) have come. The end of a batch is where
  `BatchSize * WaMaxDelay <= BatchMinDelay` enters.
- **Folders.** `TreeInv` adds to the property what a walk knows that nothing overtook
  (`Walk`): the levels it has seen lead from the new parent to where it stands, and the
  folder it moves is not among them. Suppose the write closed a set of folders under
  parents. It contains the moved folder, or it was closed before; so it contains the new
  parent, and its part within the walk's levels was closed before (`MoveAcyclic`). A
  created folder has nothing inside, and a deleted one lifts what it had to its own
  parent. The trees of `Init` have levels, and a least level is in no closed set
  (`LevelsAcyclic`, by well-foundedness). For the depth, `DeepInv` adds that the folders have
  levels within the limit, and that a walk has counted those it left behind (`Tallied`). A
  deletion takes one level off everything that hangs from the folder, however deep
  (`DeleteMeasured`; what hangs from it is the least set closed under children, which spares
  an induction), and a move that carries nothing measures the moved folder anew. That levels
  make `Shallow` true is induction over the steps up, on a least counterexample
  (`MeasuredShallow`).
- **Files.** What is named by a row that is not exposed is *safe*: in the storage, and no
  request has decided to remove it. Only a request that counted no reference decides, so a
  safe file is not counted away, and a row that comes to name an unsafe one is exposed by
  definition.
- **Templates.** `HomesInv` (`Checked`): a request knows that folder and event of what it will
  write fit, and, as long as no other write overtook it, that the template is still as it
  was read and, if it is about to change events, used by no rule.
- **Display order.** What a listing is, `InOrder` chooses by the condition it meets, so there
  has to be such a sequence and only its order matters. `PrecedesOrders`: column and creation
  are a strict total order of rows of which no two were created at once (`Datable`, kept
  because a new row counts those before it, `RowsCounted`). `SortingExists`: in a finite set
  under such an order, put each element where the number of those that precede it says.
  `ResequenceMoves`: removal and insertion move one element and keep the order of the others,
  as arithmetic of places. `OrderInv` (`Aims`): the rows that a drag nothing overtook is about
  to write, with those it leaves, give each row of its listing its place in the new sequence;
  so the listing, sorted anew (`DropLands`), is that sequence, whatever ties and gaps there
  were. `Knows` says of an append that every row it listed is before it.
- **Pictures.** `PanelInv` (`PictureHolds`): an upload that is about to show a picture has left
  it in the storage, and so has the one that showed it, but while a removal is about to hide
  it; unless the two overlapped.

- **The back office.** `PartsStep`: a step of the whole is a step of one part and leaves the
  others alone, so the whole implies the specification of each part (`PartsGoAlone`), the
  check-in's only when that is the part at work, since otherwise it begins with nobody. What
  a part is proved to keep alone it keeps there.

Invariants found to be too weak, or assumptions found missing, by a proof that failed are in the
models now: that there is a replica and that the tick reads every rule (`FormFieldDate`), that a
boot's list leaves out rules without a cron (`RecurringRules`), that null is no phone
(`CheckIn`), that there is a user and no row is listed twice at first (`DisplayOrder`).

Only model-checked: all liveness (`JobsComeToRest`, `ReadReceiptLands`, `DueRulesSettle`),
which under fairness is out of the prover's reach. The five runs that expect a violation show
one behaviour each.

## 6. Findings

- **An e-mail may leave twice** (`email_twice`): `messageLogs.create` runs inside the
  `try` after `markDispatchSent`; if it fails, the catch block turns the row from *sent*
  to *failed* and the retry sends it again. `docs/PROMPT_BACKEND.md:192` says it never
  duplicates.
- **A row may stay in *processing*** (`stuck_processing`): past its stall limit BullMQ
  fails the job and no code looks at the row. `docs/PROMPT_BACKEND.md:178` speaks of
  a reclaim.
- **A first message may go unpaced** (`unpaced_contact`): of two calls for one key only
  the one that created the row paces; the other may add the job first.
- **A moved date may never fire** (`moved_date_lost`): the sweep's mark does not look at
  the date it marks.
- **A rule may outlive its scope** (`scope_widens`): deleting a form removes it from the
  rules scoped to it, and a rule with no form left is one for every form. The migration
  `infra/prisma/migrations/20260817200000_automation_form_fk_cascade` (lines 8-11)
  calls that wrong and made the rule go with its form; the junction table that came later
  dropped it.

Met while modelling, and left as observations: `BatchMinDelay` is not checked against
`BatchSize * WaMaxDelay` (`ManualSend`); the duplicate of an event does not copy
`anonymous` and `requireImageAuthorization` of its forms
(`prisma-event.repository.ts:308-315, 392-401`); documents promoted for a submission that
is then refused stay in the storage, as no comment or test says they should not; a
recurring rule left active without a cron, as two overlapping patches can leave it, is
neither scheduled nor taken off the schedule by the boot
(`recurring-scheduler.service.ts:38-49`), which the proof of `RecurringOnTime` brought up;
and of more than `RULES_PER_TICK` active monthly rules the newest are never read.

## 7. Not modelled

- **WhatsApp instances**: a proxy to the provider's sessions, whose state is the
  provider's.
- **HTTP API, guards, DTOs**: stateless translation of requests into the services' calls;
  who may do what is left out of every module but for `Sees` in `DisplayOrder` and the
  instances and events of `ManualSend`.
- **CSV, calendar files, rendering**: formatting of text.
- **Validation of a typed value** (`answer-validation.ts`), **listings and their
  filters**, the CSV export: pure functions of one row or one query, which unit tests
  reach.
- **Cleaning of the queues**, the backfill of responses, legacy jobs without an
  `outboxId`, and columns that no other code reads.
- **One model of a rule with all its fields**: each trigger's fields are modelled where
  they matter (`AutomationSweeps`, `FormFieldDate`, `RecurringRules`, `FormAnswers`).
- **Several tables at once**: the database's foreign keys are modelled where a cascade
  touches what a property is about.

`PROJECT.json` gives the reason for each component.
