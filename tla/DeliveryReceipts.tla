-------------------------- MODULE DeliveryReceipts --------------------------
(***************************************************************************)
(* Delivery receipts of one WhatsApp message: the webhook handlers of      *)
(* DeliveryStatusService beside the end of the worker's process().         *)
(*                                                                         *)
(* The provider gives every part it accepts an id of its own and echoes    *)
(* the track id, which is the outbox row's id and shared by all parts.     *)
(* The row keeps the id of the last part sent, and so does the log row the *)
(* worker inserts after it.  A handler updates first the row, then the log *)
(* row, one SQL statement at a time; each UPDATE is atomic and its WHERE   *)
(* clause is evaluated on the row as it then is.                           *)
(***************************************************************************)
EXTENDS Naturals

CONSTANTS
  Handlers,      \* webhook requests handled at a time
  Parts,         \* how many parts the message has
  MaxIds,        \* bound: parts the provider accepts in all, repeated ones included
  MaxAttempts,   \* bound: executions of process()
  MaxReceipts,   \* bound: webhook calls
  Faults         \* {"attemptFails", "crash", "noId", "log", "handlerDies"} or less

ASSUME BoundAssumption ==
  /\ Parts \in Nat /\ MaxIds \in Nat /\ MaxAttempts \in Nat /\ MaxReceipts \in Nat

VARIABLES
  row,        \* outbox_messages: status, pid (0: null), deliveredAt, readAt (set or not)
  log,        \* log[p]: the message_logs row whose provider_message_id is p
  worker,     \* the await of process(), the parts left to send, the id of its last part
  issued,     \* ids the provider has given out
  attempts, receipts,   \* the bounded counters
  req,        \* the webhook request a handler works on: its next statement and input
  \* history
  due,        \* due[p]: the highest level reported for p since it has a log row
  torn,       \* ids (0: the row) whose read mark lost its second statement
  missed,     \* ids whose receipt found no row to update
  lost        \* ids whose receipt was given up half-way

history == <<due, torn, missed, lost>>
vars == <<row, log, worker, issued, attempts, receipts, req, history>>

Ids == 1 .. MaxIds
Kinds == {"delivered", "read", "failed"}
RowStatuses == {"pending", "processing", "sent", "failed"}
LogStatuses == {"none", "sent", "failed", "delivered", "read"}
Statements == {"idle", "row", "row2", "log", "log2"}
Idle == [at |-> "idle", kind |-> "failed", pid |-> 0, tracked |-> FALSE]

\* How far a row of either table says the message got: 1 delivered, 2 read.
Level(r) == IF r.read THEN 2 ELSE IF r.delivered THEN 1 ELSE 0
LevelOf(k) == IF k = "read" THEN 2 ELSE IF k = "delivered" THEN 1 ELSE 0
AtLeast(x, y) == IF x >= y THEN x ELSE y

Init ==
  /\ row = [status |-> "pending", pid |-> 0, delivered |-> FALSE, read |-> FALSE]
  /\ log = [p \in Ids |-> [status |-> "none", delivered |-> FALSE, read |-> FALSE]]
  /\ worker = [at |-> "idle", left |-> Parts, last |-> 0]
  /\ issued = 0 /\ attempts = 0 /\ receipts = 0
  /\ req = [h \in Handlers |-> Idle]
  /\ due = [p \in Ids |-> 0]
  /\ torn = {} /\ missed = {} /\ lost = {}

-----------------------------------------------------------------------------
(* The worker. *)

\* process() finds the row not sent and marks it 'processing'.
MarkProcessingAttempt ==
  /\ worker.at = "idle" /\ row.status # "sent"
  /\ attempts < MaxAttempts
  /\ attempts' = attempts + 1
  /\ row' = [row EXCEPT !.status = "processing"]
  /\ worker' = [worker EXCEPT !.at = "send", !.last = 0]
  /\ UNCHANGED <<log, issued, receipts, req, history>>

\* A part is accepted under a new id and counted; the answer may hold no id.
SendPart ==
  /\ worker.at = "send" /\ worker.left > 0
  /\ issued < MaxIds
  /\ issued' = issued + 1
  /\ \E last \in {issued + 1} \cup (IF "noId" \in Faults THEN {0} ELSE {}) :
       worker' = [worker EXCEPT !.left = @ - 1, !.last = last]
  /\ UNCHANGED <<row, log, attempts, receipts, req, history>>

\* The attempt fails, perhaps after the provider took one more part: the catch
\* block marks the row 'failed' (its log row carries no id, no receipt finds it).
MarkDispatchFailed ==
  /\ "attemptFails" \in Faults
  /\ worker.at = "send"
  /\ issued' \in {issued} \cup (IF worker.left > 0 /\ issued < MaxIds THEN {issued + 1} ELSE {})
  /\ row' = [row EXCEPT !.status = "failed"]
  /\ worker' = [worker EXCEPT !.at = "idle"]
  /\ UNCHANGED <<log, attempts, receipts, req, history>>

\* Everything is out: status 'sent' and the id of the last part this execution
\* sent, null if it had none left to send.
MarkSentAfresh ==
  /\ worker.at = "send" /\ worker.left = 0
  /\ row' = [row EXCEPT !.status = "sent", !.pid = worker.last,
                        !.delivered = FALSE, !.read = FALSE]
  /\ worker' = [worker EXCEPT !.at = "log"]
  /\ UNCHANGED <<log, issued, attempts, receipts, req, history>>
MarkDispatchSent ==
  /\ worker.at = "send" /\ worker.left = 0
  /\ row' = [row EXCEPT !.status = "sent", !.pid = worker.last]
  /\ worker' = [worker EXCEPT !.at = "log"]
  /\ UNCHANGED <<log, issued, attempts, receipts, req, history>>

\* messageLogs.create; a log row without an id is one no receipt will ever find.
CreateLog ==
  /\ worker.at = "log"
  /\ IF worker.last = 0
     THEN UNCHANGED log
     ELSE log' = [log EXCEPT ![worker.last].status = "sent"]
  /\ worker' = [worker EXCEPT !.at = "idle"]
  /\ UNCHANGED <<row, issued, attempts, receipts, req, history>>

\* The insert fails inside the try: the row that was sent is marked 'failed'.
CreateLogFails ==
  /\ "log" \in Faults
  /\ worker.at = "log"
  /\ row' = [row EXCEPT !.status = "failed"]
  /\ worker' = [worker EXCEPT !.at = "idle"]
  /\ UNCHANGED <<log, issued, attempts, receipts, req, history>>

\* The worker dies; a row left in 'processing' is taken up again by the retry.
Crash ==
  /\ "crash" \in Faults
  /\ worker.at # "idle"
  /\ worker' = [worker EXCEPT !.at = "idle"]
  /\ UNCHANGED <<row, log, issued, attempts, receipts, req, history>>

-----------------------------------------------------------------------------
(* The webhook. *)

\* A report on a part the provider accepted, in any order, perhaps repeated; it
\* carries the part's id, the track id, or both.
Receive(h) ==
  /\ req[h] = Idle /\ receipts < MaxReceipts
  /\ receipts' = receipts + 1
  /\ \E k \in Kinds, p \in 0 .. issued, t \in BOOLEAN :
       /\ p = 0 => t
       /\ req' = [req EXCEPT ![h] = [at |-> "row", kind |-> k, pid |-> p, tracked |-> t]]
       /\ due' = [q \in Ids |-> IF q = p /\ log[q].status # "none"
                                THEN AtLeast(due[q], LevelOf(k)) ELSE due[q]]
  /\ UNCHANGED <<row, log, worker, issued, attempts, torn, missed, lost>>

\* deliveryWhere: by the track id, else by the id of the row's last part.
Matches(h) == req[h].tracked \/ row.pid = req[h].pid

\* The UPDATEs of markDeliveredIfUnset, markReadIfUnset and markFailedIfUndelivered
\* on a row of either table; in the log a mark also becomes the status.
FailAnyway(r, k) ==
  CASE k = "delivered" /\ Level(r) = 0 -> [r EXCEPT !.delivered = TRUE]
    [] k = "read" /\ ~r.read           -> [r EXCEPT !.read = TRUE]
    [] k = "failed"                    -> [r EXCEPT !.status = "failed"]
    [] OTHER -> r
FirstUpdate(r, k) ==
  CASE k = "delivered" /\ Level(r) = 0 -> [r EXCEPT !.delivered = TRUE]
    [] k = "read" /\ ~r.read           -> [r EXCEPT !.read = TRUE]
    [] k = "failed" /\ Level(r) = 0    -> [r EXCEPT !.status = "failed"]
    [] OTHER -> r
FirstLogUpdate(r, k) ==
  IF FirstUpdate(r, k) = r THEN r ELSE [FirstUpdate(r, k) EXCEPT !.status = k]

\* The log row is looked up by the part's id: without one the handler is done.
ThenLog(h) == IF req[h].pid = 0 THEN Idle ELSE [req[h] EXCEPT !.at = "log"]

\* The first statement on the row.
UpdateSentRow(h) ==
  /\ req[h].at = "row"
  /\ row' = IF Matches(h) /\ row.status = "sent" THEN FirstUpdate(row, req[h].kind) ELSE row
  /\ missed' = IF Matches(h) THEN missed ELSE missed \cup {req[h].pid}
  /\ req' = [req EXCEPT ![h] =
       IF req[h].kind = "read" THEN [req[h] EXCEPT !.at = "row2"] ELSE ThenLog(h)]
  /\ UNCHANGED <<log, worker, issued, attempts, receipts, due, torn, lost>>
UpdateRow(h) ==
  /\ req[h].at = "row"
  /\ row' = IF Matches(h) THEN FirstUpdate(row, req[h].kind) ELSE row
  /\ missed' = IF Matches(h) THEN missed ELSE missed \cup {req[h].pid}
  /\ req' = [req EXCEPT ![h] =
       IF req[h].kind = "read" THEN [req[h] EXCEPT !.at = "row2"] ELSE ThenLog(h)]
  /\ UNCHANGED <<log, worker, issued, attempts, receipts, due, torn, lost>>

\* The second statement of a read receipt, for read implies delivered.  The row may
\* have taken the id of a later part since the first one.
SkipDelivered(h) ==
  /\ req[h].at = "row2"
  /\ req' = [req EXCEPT ![h] = ThenLog(h)]
  /\ UNCHANGED <<row, log, worker, issued, attempts, receipts, history>>
UpdateRowDelivered(h) ==
  /\ req[h].at = "row2"
  /\ row' = IF Matches(h) THEN [row EXCEPT !.delivered = TRUE] ELSE row
  /\ torn' = IF Matches(h) THEN torn ELSE torn \cup {0}
  /\ req' = [req EXCEPT ![h] = ThenLog(h)]
  /\ UNCHANGED <<log, worker, issued, attempts, receipts, due, missed, lost>>

\* The first statement on the log row, if there is one by now.
UpdateLogIfSent(h) ==
  /\ req[h].at = "log"
  /\ log' = IF log[req[h].pid].status # "sent" THEN log
            ELSE [log EXCEPT ![req[h].pid] = FirstLogUpdate(@, req[h].kind)]
  /\ req' = [req EXCEPT ![h] =
       IF req[h].kind = "read" THEN [req[h] EXCEPT !.at = "log2"] ELSE Idle]
  /\ UNCHANGED <<row, worker, issued, attempts, receipts, history>>
UpdateLog(h) ==
  /\ req[h].at = "log"
  /\ log' = IF log[req[h].pid].status = "none" THEN log
            ELSE [log EXCEPT ![req[h].pid] = FirstLogUpdate(@, req[h].kind)]
  /\ req' = [req EXCEPT ![h] =
       IF req[h].kind = "read" THEN [req[h] EXCEPT !.at = "log2"] ELSE Idle]
  /\ UNCHANGED <<row, worker, issued, attempts, receipts, history>>

\* ... and the second; a log row inserted in between is found by this one only.
UpdateLogDelivered(h) ==
  /\ req[h].at = "log2"
  /\ log' = IF log[req[h].pid].status = "none" THEN log
            ELSE [log EXCEPT ![req[h].pid].delivered = TRUE]
  /\ req' = [req EXCEPT ![h] = Idle]
  /\ UNCHANGED <<row, worker, issued, attempts, receipts, history>>

\* A statement fails or the process dies: the statements made so far stand.
HandlerDies(h) ==
  /\ "handlerDies" \in Faults
  /\ req[h] # Idle
  /\ req' = [req EXCEPT ![h] = Idle]
  /\ torn' = torn \cup (CASE req[h].at = "row2" -> {0}
                          [] req[h].at = "log2" -> {req[h].pid}
                          [] OTHER -> {})
  /\ lost' = lost \cup {req[h].pid}
  /\ UNCHANGED <<row, log, worker, issued, attempts, receipts, due, missed>>

-----------------------------------------------------------------------------
Handle(h) ==
  UpdateRow(h) \/ UpdateRowDelivered(h) \/ UpdateLog(h) \/ UpdateLogDelivered(h)

Next ==
  \/ MarkProcessingAttempt \/ SendPart \/ MarkDispatchSent \/ MarkDispatchFailed
  \/ CreateLog \/ CreateLogFails \/ Crash
  \/ \E h \in Handlers : Receive(h) \/ Handle(h) \/ HandlerDies(h)

Spec == Init /\ [][Next]_vars

\* A request that is being handled goes on to its next statement.
FairSpec == Spec /\ \A h \in Handlers : WF_vars(Handle(h))
=============================================================================
