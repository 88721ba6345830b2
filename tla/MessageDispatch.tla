-------------------------- MODULE MessageDispatch --------------------------
(***************************************************************************)
(* The message-dispatch worker (application/workers/                       *)
(* message-dispatch.worker.ts): BullMQ jobs that carry an outbox row to    *)
(* the e-mail or WhatsApp provider, piece by piece.                        *)
(*                                                                         *)
(* A row of outbox_messages is durable.  A job of the queue points at one  *)
(* row; a worker that picks the job runs process() step by step, and every *)
(* await of process() is a step here, so executions, webhooks, deletions   *)
(* and failures interleave between any two of them.  What BullMQ and the   *)
(* providers do is external and modelled from how the code uses them.      *)
(***************************************************************************)
EXTENDS Naturals

CONSTANTS
  Msgs,          \* outbox rows
  Workers,       \* execution slots: (worker processes) x WA_DISPATCH_CONCURRENCY
  NoMsg, NoWorker,
  Email,         \* the rows whose channel is 'email' (the others are 'whatsapp')
  TextParts,     \* TextParts[m]: how many paragraphs splitParts(renderedBody) yields
  Media,         \* Media[m]: how many attachments follow the text
  GateEnabled,   \* DISPATCH_GATE_ENABLED
  MaxAttempts,   \* defaultJobOptions.attempts (5 in production)
  MaxStalls,     \* BullMQ's maxStalledCount (1)
  MaxAdds,       \* bound: how many jobs are added in all
  Faults         \* the faults the environment may inject

FaultKinds == {"db", "log", "rejected", "ackLost", "restricted", "noToken",
               "crash", "lockLost", "deliveryFailed", "deleted"}

ASSUME WorkerAssumption == NoWorker \notin Workers /\ NoMsg \notin Msgs
ASSUME SizeAssumption ==
  /\ Email \subseteq Msgs
  /\ TextParts \in [Msgs -> Nat]
  /\ Media \in [Msgs -> Nat]
ASSUME LimitAssumption ==
  /\ MaxAttempts \in Nat \ {0}
  /\ MaxStalls \in Nat
  /\ MaxAdds \in Nat
  /\ GateEnabled \in BOOLEAN
ASSUME FaultAssumption == Faults \subseteq FaultKinds

VARIABLES
  \* the row
  status,      \* outbox_messages.status, or "gone" once a cascade deleted the row
  progress,    \* sentParts ("text") and sentAttachments ("media")
  \* the BullMQ job of the row
  job,         \* where the job is
  made,        \* attemptsMade
  paced,       \* data.pacedForAttempt (0: unset)
  stalls,      \* how often the job was found stalled
  owner,       \* the execution that holds the job's lock
  adds,        \* how many jobs were added
  \* the executions of process()
  at,          \* the await it is about to make
  msg,         \* the row it works on
  cur,         \* its own copy of the progress: the next piece of each kind
  fatal,       \* the pending error is an UnrecoverableError
  paceFor,     \* the attempt it has to re-pace for (0: none)
  \* history
  accepted,    \* the pieces the provider accepted, <<message, piece>>
  resent,      \* those it accepted more than once
  unrecorded,  \* those an execution could not record after the provider accepted them
  overlap,     \* the lock was lost while the execution went on
  unbooked     \* the latest attempt ended without its outcome written on the row

rowVars  == <<status, progress>>
jobVars  == <<job, made, paced, stalls, owner, adds>>
execVars == <<at, msg, cur, fatal, paceFor>>
vars == <<rowVars, jobVars, execVars, accepted, resent, unrecorded, overlap, unbooked>>

-----------------------------------------------------------------------------
(* An e-mail is one piece; a WhatsApp message is its text parts, then its   *)
(* attachments.  Only text and media have a counter in the row.             *)

Kinds == {"mail", "text", "media"}

Size(m, k) ==
  CASE k = "mail"  -> IF m \in Email THEN 1 ELSE 0
    [] k = "text"  -> IF m \in Email THEN 0 ELSE TextParts[m]
    [] k = "media" -> IF m \in Email THEN 0 ELSE Media[m]

PiecesOf(m) == UNION {{k} \X (1 .. Size(m, k)) : k \in Kinds}

PiecesBefore(m, p) ==
  {q \in PiecesOf(m) : \/ q[1] = p[1] /\ q[2] < p[2]
                       \/ q[1] = "text" /\ p[1] = "media"}

NothingSent == [k \in Kinds |-> 0]

Statuses  == {"pending", "processing", "sent", "failed", "gone"}
JobStates == {"none", "waiting", "active", "completed", "failed"}
Steps     == {"idle", "load", "mark", "delay", "send", "save", "log", "catch", "failLog", "throw"}

\* The piece the execution sends next: the loop over the attachments starts
\* where the loop over the text parts ends.
MediaFirst(w, k) == cur[w][k] < Size(msg[w], k)
IsNext(w, k) == /\ cur[w][k] < Size(msg[w], k)
                /\ k = "media" => cur[w]["text"] >= Size(msg[w], "text")

NextPiece(w, k) == <<msg[w], <<k, cur[w][k] + 1>>>>

TextOut(w) == \A k \in Kinds \ {"media"} : cur[w][k] >= Size(msg[w], k)
AllOut(w) == \A k \in Kinds : cur[w][k] >= Size(msg[w], k)

Alive(w, m) == at[w] # "idle" /\ msg[w] = m

\* What the provider has accepted from the execution and the row does not know of.
Mailed(w) == IF cur[w]["mail"] = 1 THEN {<<msg[w], <<"mail", 1>>>>} ELSE {}
InFlight(w) ==
  CASE at[w] = "save" -> {NextPiece(w, k) : k \in {j \in {"text", "media"} : IsNext(w, j)}}
    [] at[w] = "send" -> Mailed(w)
    [] OTHER -> {}

-----------------------------------------------------------------------------
Init ==
  /\ status = [m \in Msgs |-> "pending"]
  /\ progress = [m \in Msgs |-> NothingSent]
  /\ job = [m \in Msgs |-> "none"]
  /\ made = [m \in Msgs |-> 0]
  /\ paced = [m \in Msgs |-> 0]
  /\ stalls = [m \in Msgs |-> 0]
  /\ owner = [m \in Msgs |-> NoWorker]
  /\ adds = 0
  /\ at = [w \in Workers |-> "idle"]
  /\ msg = [w \in Workers |-> NoMsg]
  /\ cur = [w \in Workers |-> NothingSent]
  /\ fatal = [w \in Workers |-> FALSE]
  /\ paceFor = [w \in Workers |-> 0]
  /\ accepted = {} /\ resent = {} /\ unrecorded = {}
  /\ overlap = [m \in Msgs |-> FALSE]
  /\ unbooked = [m \in Msgs |-> FALSE]

\* OutboxService.enqueue for a row that exists: the add is a no-op while a job
\* with the same id is kept, and starts a fresh job once the old one was removed.
Add(m) ==
  /\ job[m] \in {"none", "completed", "failed"}
  /\ status[m] # "gone"
  /\ adds < MaxAdds
  /\ job' = [job EXCEPT ![m] = "waiting"]
  /\ made' = [made EXCEPT ![m] = 0]
  /\ paced' = [paced EXCEPT ![m] = 0]
  /\ stalls' = [stalls EXCEPT ![m] = 0]
  /\ adds' = adds + 1
  /\ UNCHANGED <<rowVars, owner, execVars, accepted, resent, unrecorded, overlap, unbooked>>

\* A slot takes a job whose delay is over.  job.attemptsMade and job.data are
\* the copies read now.
Pick(w, m) ==
  /\ at[w] = "idle"
  /\ job[m] = "waiting"
  /\ job' = [job EXCEPT ![m] = "active"]
  /\ owner' = [owner EXCEPT ![m] = w]
  /\ at' = [at EXCEPT ![w] = "load"]
  /\ msg' = [msg EXCEPT ![w] = m]
  /\ paceFor' = [paceFor EXCEPT ![w] =
       IF GateEnabled /\ m \notin Email /\ made[m] >= 1 /\ paced[m] # made[m]
       THEN made[m] ELSE 0]
  /\ unbooked' = [unbooked EXCEPT ![m] = FALSE]
  /\ UNCHANGED <<rowVars, made, paced, stalls, adds, cur, fatal,
                 accepted, resent, unrecorded, overlap>>

\* The slot is free again, its locals are dropped.
Leave(w) ==
  /\ at' = [at EXCEPT ![w] = "idle"]
  /\ msg' = [msg EXCEPT ![w] = NoMsg]
  /\ cur' = [cur EXCEPT ![w] = NothingSent]
  /\ fatal' = [fatal EXCEPT ![w] = FALSE]
  /\ paceFor' = [paceFor EXCEPT ![w] = 0]

\* process() returned: the job completes, if this execution still holds its lock.
Complete(w) ==
  /\ Leave(w)
  /\ IF owner[msg[w]] = w
     THEN /\ job' = [job EXCEPT ![msg[w]] = "completed"]
          /\ owner' = [owner EXCEPT ![msg[w]] = NoWorker]
     ELSE UNCHANGED <<job, owner>>
  /\ UNCHANGED <<made, paced, stalls, adds>>

\* findDispatchById finds no row, or a row that was sent: nothing to do.
SkipIfSent(w) ==
  /\ at[w] = "load"
  /\ status[msg[w]] \in {"sent", "gone"}
  /\ Complete(w)
  /\ UNCHANGED <<rowVars, accepted, resent, unrecorded, overlap, unbooked>>

\* The row is read; its counters become the indices the loops start at.
LoadAnyStatus(w) ==
  /\ at[w] = "load"
  /\ status[msg[w]] # "gone"
  /\ cur' = [cur EXCEPT ![w] = progress[msg[w]]]
  /\ at' = [at EXCEPT ![w] = "mark"]
  /\ UNCHANGED <<rowVars, jobVars, msg, fatal, paceFor,
                 accepted, resent, unrecorded, overlap, unbooked>>
Load(w) ==
  /\ at[w] = "load"
  /\ status[msg[w]] \notin {"sent", "gone"}
  /\ cur' = [cur EXCEPT ![w] = progress[msg[w]]]
  /\ at' = [at EXCEPT ![w] = "mark"]
  /\ UNCHANGED <<rowVars, jobVars, msg, fatal, paceFor,
                 accepted, resent, unrecorded, overlap, unbooked>>

\* The gate: a retry reserves a pacing slot and notes the attempt it did so for ...
ReserveUnmarked(w) ==
  /\ at[w] = "mark" /\ paceFor[w] > 0
  /\ at' = [at EXCEPT ![w] = "delay"]
  /\ UNCHANGED <<rowVars, jobVars, msg, cur, fatal, paceFor,
                 accepted, resent, unrecorded, overlap, unbooked>>
ReserveSlot(w) ==
  /\ at[w] = "mark" /\ paceFor[w] > 0
  /\ paced' = [paced EXCEPT ![msg[w]] = paceFor[w]]
  /\ at' = [at EXCEPT ![w] = "delay"]
  /\ UNCHANGED <<rowVars, job, made, stalls, owner, adds, msg, cur, fatal, paceFor,
                 accepted, resent, unrecorded, overlap, unbooked>>

\* ... and goes back to the delayed set: a DelayedError does not spend an attempt.
MoveToDelayed(w) ==
  /\ at[w] = "delay"
  /\ Leave(w)
  /\ IF owner[msg[w]] = w
     THEN /\ job' = [job EXCEPT ![msg[w]] = "waiting"]
          /\ owner' = [owner EXCEPT ![msg[w]] = NoWorker]
     ELSE UNCHANGED <<job, owner>>
  /\ UNCHANGED <<rowVars, made, paced, stalls, adds,
                 accepted, resent, unrecorded, overlap, unbooked>>

\* status = 'processing'; then the WhatsApp token is resolved.  There may be none:
\* the gate had nothing to pace then, and the attempt fails for good.
MarkProcessingAttempt(w) ==
  /\ at[w] = "mark"
  /\ status[msg[w]] # "gone"
  /\ status' = [status EXCEPT ![msg[w]] = "processing"]
  /\ \/ /\ paceFor[w] = 0
        /\ at' = [at EXCEPT ![w] = "send"]
        /\ UNCHANGED fatal
     \/ /\ "noToken" \in Faults /\ msg[w] \notin Email
        /\ at' = [at EXCEPT ![w] = "catch"]
        /\ fatal' = [fatal EXCEPT ![w] = TRUE]
  /\ UNCHANGED <<progress, jobVars, msg, cur, paceFor,
                 accepted, resent, unrecorded, overlap, unbooked>>

-----------------------------------------------------------------------------
\* The provider takes a piece, perhaps not for the first time.
ProviderTakes(p) ==
  /\ accepted' = accepted \cup {p}
  /\ resent' = IF p \in accepted THEN resent \cup {p} ELSE resent

\* sendPart, sendMedia or sendEmail answered with success.  Text and media are
\* then saved; an e-mail has no counter to save.
SendPiece(w, k) ==
  /\ at[w] = "send" /\ IsNext(w, k)
  /\ ProviderTakes(NextPiece(w, k))
  /\ IF k = "mail"
     THEN /\ cur' = [cur EXCEPT ![w]["mail"] = 1]
          /\ UNCHANGED at
     ELSE /\ at' = [at EXCEPT ![w] = "save"]
          /\ UNCHANGED cur
  /\ UNCHANGED <<rowVars, jobVars, msg, fatal, paceFor, unrecorded, overlap, unbooked>>

\* The piece did not get through: an error answer (retried), or the
\* restriction 463, which is thrown as unrecoverable.
SwallowError(w, k) ==
  /\ at[w] = "send" /\ IsNext(w, k)
  /\ "rejected" \in Faults
  /\ at' = [at EXCEPT ![w] = IF k = "mail" THEN "log" ELSE "save"]
  /\ UNCHANGED <<rowVars, jobVars, msg, cur, fatal, paceFor,
                 accepted, resent, unrecorded, overlap, unbooked>>
SendRejected(w, k) ==
  /\ at[w] = "send" /\ IsNext(w, k)
  /\ \/ "rejected" \in Faults /\ UNCHANGED fatal
     \/ /\ "restricted" \in Faults /\ k # "mail"
        /\ fatal' = [fatal EXCEPT ![w] = TRUE]
  /\ at' = [at EXCEPT ![w] = "catch"]
  /\ UNCHANGED <<rowVars, jobVars, msg, cur, paceFor,
                 accepted, resent, unrecorded, overlap, unbooked>>

\* The provider took the piece and the answer was lost (the 20s timeout).
SendAckLost(w, k) ==
  /\ at[w] = "send" /\ IsNext(w, k)
  /\ "ackLost" \in Faults
  /\ ProviderTakes(NextPiece(w, k))
  /\ unrecorded' = unrecorded \cup {NextPiece(w, k)}
  /\ at' = [at EXCEPT ![w] = "catch"]
  /\ UNCHANGED <<rowVars, jobVars, msg, cur, fatal, paceFor, overlap, unbooked>>

\* updateSentParts / updateSentAttachments with the index just sent, plus one.
ForgetPiece(w, k) ==
  /\ at[w] = "save" /\ IsNext(w, k)
  /\ status[msg[w]] # "gone"
  /\ cur' = [cur EXCEPT ![w][k] = @ + 1]
  /\ at' = [at EXCEPT ![w] = "send"]
  /\ UNCHANGED <<rowVars, jobVars, msg, fatal, paceFor,
                 accepted, resent, unrecorded, overlap, unbooked>>
SavePiece(w, k) ==
  /\ at[w] = "save" /\ IsNext(w, k)
  /\ status[msg[w]] # "gone"
  /\ progress' = [progress EXCEPT ![msg[w]][k] = cur[w][k] + 1]
  /\ cur' = [cur EXCEPT ![w][k] = @ + 1]
  /\ at' = [at EXCEPT ![w] = "send"]
  /\ UNCHANGED <<status, jobVars, msg, fatal, paceFor,
                 accepted, resent, unrecorded, overlap, unbooked>>

\* markDispatchSent, after the last piece.
MarkSentAfterText(w) ==
  /\ at[w] = "send" /\ TextOut(w)
  /\ status[msg[w]] # "gone"
  /\ status' = [status EXCEPT ![msg[w]] = "sent"]
  /\ at' = [at EXCEPT ![w] = "log"]
  /\ UNCHANGED <<progress, jobVars, msg, cur, fatal, paceFor,
                 accepted, resent, unrecorded, overlap, unbooked>>
MarkDispatchSent(w) ==
  /\ at[w] = "send" /\ AllOut(w)
  /\ status[msg[w]] # "gone"
  /\ status' = [status EXCEPT ![msg[w]] = "sent"]
  /\ at' = [at EXCEPT ![w] = "log"]
  /\ UNCHANGED <<progress, jobVars, msg, cur, fatal, paceFor,
                 accepted, resent, unrecorded, overlap, unbooked>>

\* messageLogs.create with status 'sent'; process() returns.
CreateLog(w) ==
  /\ at[w] = "log"
  /\ Complete(w)
  /\ UNCHANGED <<rowVars, accepted, resent, unrecorded, overlap, unbooked>>

-----------------------------------------------------------------------------
(* The error paths. *)

\* A write inside the try fails: the database, a row that is gone, or the
\* insert of the log row.  A piece already with the provider stays unrecorded;
\* an e-mail too when the log fails, for the catch block marks its row 'failed'.
WriteFails(w) ==
  /\ \/ at[w] = "save" /\ ("db" \in Faults \/ status[msg[w]] = "gone")
     \/ at[w] = "send" /\ AllOut(w) /\ ("db" \in Faults \/ status[msg[w]] = "gone")
     \/ at[w] = "log" /\ ("log" \in Faults \/ status[msg[w]] = "gone")
  /\ unrecorded' = unrecorded \cup InFlight(w) \cup IF at[w] = "log" THEN Mailed(w) ELSE {}
  /\ at' = [at EXCEPT ![w] = "catch"]
  /\ UNCHANGED <<rowVars, jobVars, msg, cur, fatal, paceFor,
                 accepted, resent, overlap, unbooked>>

\* The catch block: markDispatchFailed, then a 'failed' row in the log.
RethrowFatal(w) ==
  /\ at[w] = "catch"
  /\ IF fatal[w]
     THEN /\ at' = [at EXCEPT ![w] = "throw"]
          /\ UNCHANGED status
     ELSE /\ status[msg[w]] # "gone"
          /\ status' = [status EXCEPT ![msg[w]] = "failed"]
          /\ at' = [at EXCEPT ![w] = "failLog"]
  /\ UNCHANGED <<progress, jobVars, msg, cur, fatal, paceFor,
                 accepted, resent, unrecorded, overlap, unbooked>>
MarkDispatchFailed(w) ==
  /\ at[w] = "catch"
  /\ status[msg[w]] # "gone"
  /\ status' = [status EXCEPT ![msg[w]] = "failed"]
  /\ at' = [at EXCEPT ![w] = "failLog"]
  /\ UNCHANGED <<progress, jobVars, msg, cur, fatal, paceFor,
                 accepted, resent, unrecorded, overlap, unbooked>>

CreateFailLog(w) ==
  /\ at[w] = "failLog"
  /\ at' = [at EXCEPT ![w] = "throw"]
  /\ UNCHANGED <<rowVars, jobVars, msg, cur, fatal, paceFor,
                 accepted, resent, unrecorded, overlap, unbooked>>

\* A write of the catch block fails: that error replaces the pending one, so an
\* unrecoverable failure becomes one that BullMQ retries.
CatchFails(w) ==
  /\ \/ at[w] = "catch" /\ ("db" \in Faults \/ status[msg[w]] = "gone")
     \/ at[w] = "failLog" /\ ("log" \in Faults \/ status[msg[w]] = "gone")
  /\ at' = [at EXCEPT ![w] = "throw"]
  /\ fatal' = [fatal EXCEPT ![w] = FALSE]
  /\ unbooked' = [unbooked EXCEPT ![msg[w]] = @ \/ at[w] = "catch"]
  /\ UNCHANGED <<rowVars, jobVars, msg, cur, paceFor,
                 accepted, resent, unrecorded, overlap>>

\* The reads, the gate and markProcessingAttempt are outside the try: their
\* failure costs an attempt and leaves the row as it was.
FailsOutsideTry(w) ==
  /\ \/ at[w] \in {"load", "mark", "delay"} /\ "db" \in Faults
     \/ at[w] = "mark" /\ paceFor[w] = 0 /\ status[msg[w]] = "gone"
  /\ at' = [at EXCEPT ![w] = "throw"]
  /\ unbooked' = [unbooked EXCEPT ![msg[w]] = TRUE]
  /\ UNCHANGED <<rowVars, jobVars, msg, cur, fatal, paceFor,
                 accepted, resent, unrecorded, overlap>>

\* process() threw: BullMQ counts the attempt and retries, or gives up.
Throw(w) ==
  /\ at[w] = "throw"
  /\ Leave(w)
  /\ IF owner[msg[w]] = w
     THEN LET m == msg[w]
              giveUp == fatal[w] \/ made[m] + 1 >= MaxAttempts
          IN  /\ made' = [made EXCEPT ![m] = @ + 1]
              /\ job' = [job EXCEPT ![m] = IF giveUp THEN "failed" ELSE "waiting"]
              /\ owner' = [owner EXCEPT ![m] = NoWorker]
     ELSE UNCHANGED <<made, job, owner>>
  /\ UNCHANGED <<rowVars, paced, stalls, adds,
                 accepted, resent, unrecorded, overlap, unbooked>>

-----------------------------------------------------------------------------
(* The environment. *)

\* The worker process dies: its execution ends where it is, its lock expires later.
Crash(w) ==
  /\ "crash" \in Faults
  /\ at[w] # "idle"
  /\ unrecorded' = unrecorded \cup InFlight(w)
  /\ Leave(w)
  /\ UNCHANGED <<rowVars, jobVars, accepted, resent, overlap, unbooked>>

\* BullMQ finds the job active without a lock: back to waiting once, then failed.
Reclaim(m) ==
  /\ job[m] = "active"
  /\ owner' = [owner EXCEPT ![m] = NoWorker]
  /\ IF stalls[m] < MaxStalls
     THEN /\ job' = [job EXCEPT ![m] = "waiting"]
          /\ stalls' = [stalls EXCEPT ![m] = @ + 1]
          /\ UNCHANGED unbooked
     ELSE /\ job' = [job EXCEPT ![m] = "failed"]
          /\ unbooked' = [unbooked EXCEPT ![m] = TRUE]
          /\ UNCHANGED stalls
  /\ UNCHANGED <<rowVars, made, paced, adds, execVars, accepted, resent, unrecorded>>

\* ... because the process that held the lock is dead.
Stalled(m) ==
  /\ job[m] = "active" /\ ~ Alive(owner[m], m)
  /\ Reclaim(m)
  /\ UNCHANGED overlap

\* ... because a live process could not renew its lock (lockDuration 60s): the
\* old execution goes on beside the one that takes the job next.
LockLost(m) ==
  /\ "lockLost" \in Faults
  /\ job[m] = "active" /\ Alive(owner[m], m)
  /\ Reclaim(m)
  /\ overlap' = [overlap EXCEPT ![m] = TRUE]

\* The webhook reports 'failed' for a message that was not delivered yet.
DeliveryFailed(m) ==
  /\ "deliveryFailed" \in Faults
  /\ m \notin Email
  /\ \E p \in PiecesOf(m) : <<m, p>> \in accepted
  /\ status[m] \notin {"failed", "gone"}
  /\ status' = [status EXCEPT ![m] = "failed"]
  /\ UNCHANGED <<progress, jobVars, execVars, accepted, resent, unrecorded, overlap, unbooked>>

\* The registration or the event is deleted; the row goes with it (onDelete: Cascade).
RowDeleted(m) ==
  /\ "deleted" \in Faults
  /\ status[m] # "gone"
  /\ status' = [status EXCEPT ![m] = "gone"]
  /\ UNCHANGED <<progress, jobVars, execVars, accepted, resent, unrecorded, overlap, unbooked>>

-----------------------------------------------------------------------------
Proceed(w) ==
  \/ SkipIfSent(w) \/ Load(w) \/ ReserveSlot(w) \/ MoveToDelayed(w)
  \/ MarkProcessingAttempt(w)
  \/ \E k \in Kinds : SendPiece(w, k) \/ SendRejected(w, k) \/ SendAckLost(w, k)
  \/ \E k \in {"text", "media"} : SavePiece(w, k)
  \/ MarkDispatchSent(w) \/ CreateLog(w)
  \/ WriteFails(w) \/ MarkDispatchFailed(w) \/ CreateFailLog(w) \/ CatchFails(w)
  \/ FailsOutsideTry(w) \/ Throw(w)

Next ==
  \/ \E w \in Workers : Proceed(w) \/ Crash(w) \/ \E m \in Msgs : Pick(w, m)
  \/ \E m \in Msgs : \/ Add(m) \/ Stalled(m) \/ LockLost(m)
                     \/ DeliveryFailed(m) \/ RowDeleted(m)

Spec == Init /\ [][Next]_vars

\* An execution that can proceed does (Node runs the continuation of every
\* await), a free slot takes a waiting job, and the stalled check runs.
Fairness ==
  /\ \A w \in Workers : WF_vars(Proceed(w))
  /\ \A m \in Msgs : /\ WF_vars(\E w \in Workers : Pick(w, m))
                     /\ WF_vars(Stalled(m))

FairSpec == Spec /\ Fairness
=============================================================================
