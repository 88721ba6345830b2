------------------------ MODULE MessageDispatchProps ------------------------
(***************************************************************************)
(* What dispatching a message must and must not do.                        *)
(***************************************************************************)
EXTENDS MessageDispatch

\* The range of every variable.
TypeOK ==
  /\ status \in [Msgs -> Statuses]
  /\ progress \in [Msgs -> [Kinds -> Nat]]
  /\ job \in [Msgs -> JobStates]
  /\ made \in [Msgs -> Nat]
  /\ paced \in [Msgs -> Nat]
  /\ stalls \in [Msgs -> Nat]
  /\ owner \in [Msgs -> Workers \cup {NoWorker}]
  /\ adds \in Nat
  /\ at \in [Workers -> Steps]
  /\ msg \in [Workers -> Msgs \cup {NoMsg}]
  /\ cur \in [Workers -> [Kinds -> Nat]]
  /\ fatal \in [Workers -> BOOLEAN]
  /\ paceFor \in [Workers -> Nat]
  /\ accepted \subseteq Msgs \X (Kinds \X Nat)
  /\ resent \subseteq Msgs \X (Kinds \X Nat)
  /\ unrecorded \subseteq Msgs \X (Kinds \X Nat)
  /\ overlap \in [Msgs -> BOOLEAN]
  /\ unbooked \in [Msgs -> BOOLEAN]

\* A row that says 'sent' has had every text part, attachment or e-mail accepted
\* by the provider, across resumed attempts, crashes and executions that overlap.
SentIsComplete ==
  \A m \in Msgs : status[m] = "sent" => \A p \in PiecesOf(m) : <<m, p>> \in accepted

\* Nobody receives an attachment or a part before the ones that precede it.
PiecesInOrder ==
  \A m \in Msgs : \A p \in PiecesOf(m) :
    <<m, p>> \in accepted => \A q \in PiecesBefore(m, p) : <<m, q>> \in accepted

\* outbox-message.entity.ts:10, "so avancam depois de cada parte sair": the counters
\* of a row never run ahead of the provider, whatever is retried or overlaps.
ProgressIsBacked ==
  \A m \in Msgs, k \in Kinds : \A i \in 1 .. progress[m][k] : <<m, <<k, i>>>> \in accepted

\* A piece goes out twice only if an execution that had sent it could not record
\* that (lost answer, failed write, crash), or lost its lock and ran on.
ResendIsExplained ==
  \A p \in resent : p \in unrecorded \/ overlap[p[1]]

\* When BullMQ gives up on a job, the row tells: unless the last attempt could
\* not write its outcome, or overlapped another, it is marked 'failed'.
GivingUpIsBooked ==
  \A m \in Msgs : (job[m] = "failed" /\ ~unbooked[m] /\ ~overlap[m])
                     => status[m] \in {"failed", "gone"}

\* A row that says 'sent' is not taken into processing again: the check at the
\* start of process() suffices as long as executions of a job do not overlap.
SentIsNotReopened ==
  [][\A m \in Msgs : (status[m] = "sent" /\ status'[m] = "processing") => overlap[m]]_vars

\* A waiting job comes to rest: attempts, re-pacing and stalls never cycle for ever.
JobsComeToRest ==
  \A m \in Msgs : job[m] = "waiting" ~> job[m] \in {"completed", "failed"}

\* Every behaviour of the worker is one of the at-least-once promise.
SentRows == {m \in Msgs : status[m] = "sent"}

Promise == INSTANCE AtLeastOnce WITH
  Messages <- Msgs, Pieces <- PiecesOf, Before <- PiecesBefore,
  delivered <- accepted, done <- SentRows

KeepsPromise == Promise!Spec

-----------------------------------------------------------------------------
(* What docs/PROMPT_BACKEND.md says of dispatching, and the code does not do. *)

\* :192, "nunca duplica": no piece is accepted twice.  When messageLogs.create fails
\* after markDispatchSent, the shared catch block marks the row failed and the retry
\* sends the e-mail again.
NeverDuplicates == resent = {}

\* :178, "Reclaim de mensagens presas em processing (volta para pending)": a row does
\* not stay in processing for good.  Once BullMQ has failed the job on its stall
\* limit, nothing looks at the row again.
ProcessingIsReclaimed ==
  \A m \in Msgs : status[m] = "processing" ~> status[m] # "processing"
=============================================================================
