------------------------ MODULE DeliveryReceiptsProps ------------------------
(***************************************************************************)
(* What delivery receipts must and must not do.                            *)
(***************************************************************************)
EXTENDS DeliveryReceipts

\* The range of every variable.
TypeOK ==
  /\ row \in [status : RowStatuses, pid : 0 .. MaxIds, delivered : BOOLEAN, read : BOOLEAN]
  /\ log \in [Ids -> [status : LogStatuses, delivered : BOOLEAN, read : BOOLEAN]]
  /\ worker \in [at : {"idle", "send", "log"}, left : 0 .. Parts, last : 0 .. MaxIds]
  /\ issued \in 0 .. MaxIds
  /\ attempts \in 0 .. MaxAttempts /\ receipts \in 0 .. MaxReceipts
  /\ req \in [Handlers -> [at : Statements, kind : Kinds, pid : 0 .. MaxIds, tracked : BOOLEAN]]
  /\ due \in [Ids -> 0 .. 2]
  /\ torn \subseteq 0 .. MaxIds /\ missed \subseteq 0 .. MaxIds /\ lost \subseteq 0 .. MaxIds

\* message-log.entity.ts:35, "Lido implica entregue": what is marked read is marked
\* delivered too, or a read receipt is between its two statements, or it lost the
\* second: its handler died, or the row took another id in between.
ReadMeansDelivered ==
  /\ (row.read /\ ~row.delivered) => 0 \in torn \/ \E h \in Handlers : req[h].at = "row2"
  /\ \A p \in Ids : (log[p].read /\ ~log[p].delivered)
       => p \in torn \/ \E h \in Handlers : req[h].at = "log2" /\ req[h].pid = p

\* The log never claims a delivery the row does not know of, unless a receipt
\* without the track id found the row under the id of another part.
LogFollowsRow ==
  \A p \in Ids : Level(log[p]) > 0 => Level(row) > 0 \/ p \in missed

\* A receipt that arrives once the log row exists is not lost to the log, whatever
\* other receipts it races with, unless its own handler died.  (One that arrives
\* before messageLogs.create is: nothing applies it again.)
LogKeepsUp ==
  \A p \in Ids : (\A h \in Handlers : req[h].pid # p) => Level(log[p]) >= due[p] \/ p \in lost

\* message-log.entity.ts:36, "o avanco de estado e monotonico": what the log shows
\* never goes back, in particular not from delivered or read to failed.
Rank(s) == CASE s = "none" -> 0 [] s = "sent" -> 1 [] s = "failed" -> 2
             [] s = "delivered" -> 3 [] s = "read" -> 4
LogOnlyAdvances == [][\A p \in Ids : Rank(log[p].status) <= Rank(log'[p].status)]_vars

\* A read receipt with the track id leaves the row read and delivered, however it
\* interleaves with other receipts and with the worker, unless its handler died.
ReadReceiptLands ==
  \A h \in Handlers :
    (req[h].at = "row" /\ req[h].kind = "read" /\ req[h].tracked)
      ~> ((row.read /\ row.delivered) \/ lost # {})

\* What the row shows climbs and never falls, through retries and re-sends.
Ladder == INSTANCE ReceiptLadder WITH level <- Level(row)
RowClimbs == Ladder!Spec
=============================================================================
