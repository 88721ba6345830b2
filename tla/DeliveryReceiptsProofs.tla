----------------------- MODULE DeliveryReceiptsProofs -----------------------
(***************************************************************************)
(* Proofs, for any number of webhook handlers, parts and receipts.         *)
(***************************************************************************)
EXTENDS DeliveryReceiptsProps, TLAPS

RowType == [status : RowStatuses, pid : 0 .. MaxIds, delivered : BOOLEAN, read : BOOLEAN]
LogType == [status : LogStatuses, delivered : BOOLEAN, read : BOOLEAN]
Request == [at : Statements, kind : Kinds, pid : 0 .. MaxIds, tracked : BOOLEAN]

\* A handler only comes to the log with the id of a part.
AtLogHasId == \A h \in Handlers : req[h].at \in {"log", "log2"} => req[h].pid \in Ids

TypeInv == TypeOK /\ AtLogHasId

\* The updates keep the types of both tables.
LEMMA UpdatesTyped ==
  ASSUME NEW k \in Kinds
  PROVE  /\ \A r \in RowType : FirstUpdate(r, k) \in RowType
         /\ \A r \in LogType : FirstLogUpdate(r, k) \in LogType
<1>1. ASSUME NEW r \in RowType PROVE FirstUpdate(r, k) \in RowType
  BY DEF FirstUpdate, Kinds, RowType, RowStatuses
<1>2. ASSUME NEW r \in LogType PROVE FirstLogUpdate(r, k) \in LogType
  <2>1. FirstUpdate(r, k) \in LogType
    BY DEF FirstUpdate, Kinds, LogType, LogStatuses
  <2>2. k \in LogStatuses
    BY DEF Kinds, LogStatuses
  <2> QED
    BY <2>1, <2>2 DEF FirstLogUpdate, LogType
<1> QED
  BY <1>1, <1>2

LEMMA InitTyped == Init => TypeInv
  BY BoundAssumption DEF Init, TypeInv, TypeOK, AtLogHasId, Idle, RowStatuses, LogStatuses,
     Statements, Kinds, Ids

LEMMA StepTyped == TypeInv /\ [Next]_vars => TypeInv'
<1> SUFFICES ASSUME TypeInv, [Next]_vars PROVE TypeInv'
  OBVIOUS
<1> USE BoundAssumption DEF TypeInv
<1>1. /\ row \in RowType /\ log \in [Ids -> LogType] /\ req \in [Handlers -> Request]
      /\ worker \in [at : {"idle", "send", "log"}, left : 0 .. Parts, last : 0 .. MaxIds]
      /\ issued \in 0 .. MaxIds
      /\ attempts \in 0 .. MaxAttempts /\ receipts \in 0 .. MaxReceipts
      /\ due \in [Ids -> 0 .. 2]
      /\ torn \subseteq 0 .. MaxIds /\ missed \subseteq 0 .. MaxIds /\ lost \subseteq 0 .. MaxIds
  BY DEF TypeOK, RowType, LogType, Request
<1>2. CASE UNCHANGED vars
  BY <1>2 DEF vars, history, TypeOK, AtLogHasId
<1> DEFINE Typed == row' \in RowType /\ log' \in [Ids -> LogType] /\ req' \in [Handlers -> Request]
           Counted == /\ worker' \in [at : {"idle", "send", "log"}, left : 0 .. Parts, last : 0 .. MaxIds]
                      /\ issued' \in 0 .. MaxIds
                      /\ attempts' \in 0 .. MaxAttempts /\ receipts' \in 0 .. MaxReceipts
           Noted == /\ due' \in [Ids -> 0 .. 2]
                    /\ torn' \subseteq 0 .. MaxIds /\ missed' \subseteq 0 .. MaxIds /\ lost' \subseteq 0 .. MaxIds
<1>3. ASSUME Typed, Counted, Noted PROVE TypeOK'
  BY <1>3 DEF TypeOK, RowType, LogType, Request
<1> HIDE DEF Typed, Counted, Noted
<1>4. ASSUME UNCHANGED history PROVE Noted
  BY <1>1, <1>4 DEF history, Noted
<1>5. ASSUME UNCHANGED <<worker, issued, attempts, receipts>> PROVE Counted
  BY <1>1, <1>5 DEF Counted
<1>6. CASE MarkProcessingAttempt
  <2>1. Typed
    BY <1>1, <1>6 DEF MarkProcessingAttempt, Typed, RowType, RowStatuses
  <2>2. attempts' \in 0 .. MaxAttempts
    BY <1>1, <1>6 DEF MarkProcessingAttempt
  <2>3. Counted
    <3>1. worker' = [worker EXCEPT !.at = "send", !.last = 0]
      BY <1>6 DEF MarkProcessingAttempt
    <3>2. worker' \in [at : {"idle", "send", "log"}, left : 0 .. Parts, last : 0 .. MaxIds]
      <4>1. 0 \in 0 .. MaxIds /\ "send" \in {"idle", "send", "log"}
        OBVIOUS
      <4>2. worker.left \in 0 .. Parts
        BY <1>1
      <4> HIDE DEF TypeInv
      <4> QED
        BY <1>1, <3>1, <4>1, <4>2
    <3> QED
      BY <1>1, <1>6, <2>2, <3>2 DEF MarkProcessingAttempt, Counted
  <2>4. Noted /\ AtLogHasId'
    BY <1>4, <1>6 DEF MarkProcessingAttempt, AtLogHasId
  <2> QED
    BY <1>3, <2>1, <2>3, <2>4
<1>7. CASE SendPart
  <2>1. Typed
    BY <1>1, <1>7 DEF SendPart, Typed
  <2>2. /\ worker.left - 1 \in 0 .. Parts /\ issued + 1 \in 0 .. MaxIds
    BY <1>1, <1>7 DEF SendPart
  <2>3. \E l \in 0 .. MaxIds : worker' = [worker EXCEPT !.left = worker.left - 1, !.last = l]
    <3>1. PICK l \in {issued + 1} \cup (IF "noId" \in Faults THEN {0} ELSE {}) :
            worker' = [worker EXCEPT !.left = @ - 1, !.last = l]
      BY <1>7 DEF SendPart
    <3>2. l \in 0 .. MaxIds
      BY <2>2
    <3> QED
      BY <3>1, <3>2
  <2>4. worker' \in [at : {"idle", "send", "log"}, left : 0 .. Parts, last : 0 .. MaxIds]
    BY <1>1, <2>2, <2>3
  <2>5. Counted
    BY <1>1, <1>7, <2>2, <2>4 DEF SendPart, Counted
  <2>6. Noted /\ AtLogHasId'
    BY <1>4, <1>7 DEF SendPart, AtLogHasId
  <2> QED
    BY <1>3, <2>1, <2>5, <2>6
<1>8. CASE MarkDispatchSent \/ CreateLogFails \/ Crash
  <2>1. row' \in RowType
    BY <1>1, <1>8 DEF MarkDispatchSent, CreateLogFails, Crash, RowType, RowStatuses
  <2>2. Typed
    BY <1>1, <1>8, <2>1 DEF MarkDispatchSent, CreateLogFails, Crash, Typed
  <2>3. Counted
    BY <1>1, <1>8 DEF MarkDispatchSent, CreateLogFails, Crash, Counted
  <2>4. Noted /\ AtLogHasId'
    BY <1>4, <1>8 DEF MarkDispatchSent, CreateLogFails, Crash, AtLogHasId
  <2> QED
    BY <1>3, <2>2, <2>3, <2>4
<1>9. CASE MarkDispatchFailed
  <2>1. row' \in RowType
    BY <1>1, <1>9 DEF MarkDispatchFailed, RowType, RowStatuses
  <2>2. Typed
    BY <1>1, <1>9, <2>1 DEF MarkDispatchFailed, Typed
  <2>3. issued' \in 0 .. MaxIds
    BY <1>1, <1>9 DEF MarkDispatchFailed
  <2>4. worker' \in [at : {"idle", "send", "log"}, left : 0 .. Parts, last : 0 .. MaxIds]
    BY <1>1, <1>9 DEF MarkDispatchFailed
  <2>5. Counted
    BY <1>1, <1>9, <2>3, <2>4 DEF MarkDispatchFailed, Counted
  <2>6. Noted /\ AtLogHasId'
    BY <1>4, <1>9 DEF MarkDispatchFailed, AtLogHasId
  <2> QED
    BY <1>3, <2>2, <2>5, <2>6
<1>10. CASE CreateLog
  <2>1. log' \in [Ids -> LogType]
    BY <1>1, <1>10 DEF CreateLog, LogType, LogStatuses
  <2>2. Typed
    BY <1>1, <1>10, <2>1 DEF CreateLog, Typed
  <2>3. Counted
    BY <1>1, <1>10 DEF CreateLog, Counted
  <2>4. Noted /\ AtLogHasId'
    BY <1>4, <1>10 DEF CreateLog, AtLogHasId
  <2> QED
    BY <1>3, <2>2, <2>3, <2>4
<1>11. ASSUME NEW h \in Handlers, Receive(h) PROVE TypeInv'
  <2>1. PICK k \in Kinds, p \in 0 .. issued, t \in BOOLEAN :
          /\ req' = [req EXCEPT ![h] = [at |-> "row", kind |-> k, pid |-> p, tracked |-> t]]
          /\ due' = [q \in Ids |-> IF q = p /\ log[q].status # "none"
                                   THEN AtLeast(due[q], LevelOf(k)) ELSE due[q]]
    BY <1>11 DEF Receive
  <2>2. [at |-> "row", kind |-> k, pid |-> p, tracked |-> t] \in Request
    BY <1>1 DEF Request, Statements
  <2>3. Typed
    BY <1>1, <1>11, <2>1, <2>2 DEF Receive, Typed
  <2>4. receipts' \in 0 .. MaxReceipts
    BY <1>1, <1>11 DEF Receive
  <2>5. Counted
    BY <1>1, <1>11, <2>4 DEF Receive, Counted
  <2>6. due' \in [Ids -> 0 .. 2]
    BY <1>1, <2>1 DEF AtLeast, LevelOf
  <2>7. Noted
    BY <1>1, <1>11, <2>6 DEF Receive, Noted
  <2>8. AtLogHasId'
    BY <1>1, <2>1, <2>2 DEF AtLogHasId
  <2> QED
    BY <1>3, <2>3, <2>5, <2>7, <2>8
\* A handler's step replaces its own request by Idle or by one at its next statement.
<1>12. ASSUME NEW h \in Handlers, NEW r \in Request, req' = [req EXCEPT ![h] = r],
              r.at \in {"log", "log2"} => r.pid \in Ids
       PROVE  req' \in [Handlers -> Request] /\ AtLogHasId'
  BY <1>1, <1>12 DEF AtLogHasId
<1>13. Idle \in Request /\ Idle.at = "idle"
  BY DEF Idle, Request, Statements, Kinds
<1>14. ASSUME NEW h \in Handlers
       PROVE  /\ ThenLog(h) \in Request
              /\ ThenLog(h).at \in {"log", "log2"} => ThenLog(h).pid \in Ids
  <2>1. req[h] \in Request
    BY <1>1
  <2>2. CASE req[h].pid = 0
    BY <1>13, <2>2 DEF ThenLog
  <2>3. CASE req[h].pid # 0
    <3>1. ThenLog(h) = [req[h] EXCEPT !.at = "log"] /\ req[h].pid \in Ids
      BY <2>1, <2>3 DEF ThenLog, Request, Ids
    <3> QED
      BY <2>1, <3>1 DEF Request, Statements
  <2> QED
    BY <2>2, <2>3
<1>15. ASSUME NEW h \in Handlers, UpdateRow(h) PROVE TypeInv'
  <2>1. req[h] \in Request
    BY <1>1
  <2>2. row' \in RowType
    BY <1>1, <1>15, <2>1, UpdatesTyped DEF UpdateRow, Request
  <2>3. req' \in [Handlers -> Request] /\ AtLogHasId'
    <3>1. CASE req[h].kind = "read"
      <4>1. [req[h] EXCEPT !.at = "row2"] \in Request
        BY <2>1 DEF Request, Statements
      <4>2. req' = [req EXCEPT ![h] = [req[h] EXCEPT !.at = "row2"]]
        BY <1>15, <3>1 DEF UpdateRow
      <4>3. [req[h] EXCEPT !.at = "row2"].at = "row2"
        BY <2>1 DEF Request
      <4> QED
        BY <1>12, <4>1, <4>2, <4>3
    <3>2. CASE req[h].kind # "read"
      <4>1. req' = [req EXCEPT ![h] = ThenLog(h)]
        BY <1>15, <3>2 DEF UpdateRow
      <4> QED
        BY <1>12, <1>14, <4>1
    <3> QED
      BY <3>1, <3>2
  <2>4. missed' \subseteq 0 .. MaxIds
    BY <1>1, <1>15, <2>1 DEF UpdateRow, Request
  <2> QED
    BY <1>1, <1>3, <1>5, <1>15, <2>2, <2>3, <2>4 DEF UpdateRow, Typed, Noted
<1>16. ASSUME NEW h \in Handlers, UpdateRowDelivered(h) PROVE TypeInv'
  <2>1. row' \in RowType
    BY <1>1, <1>16 DEF UpdateRowDelivered, RowType
  <2>2. req' \in [Handlers -> Request] /\ AtLogHasId'
    BY <1>12, <1>14, <1>16 DEF UpdateRowDelivered
  <2>3. torn' \subseteq 0 .. MaxIds
    BY <1>1, <1>16 DEF UpdateRowDelivered
  <2> QED
    BY <1>1, <1>3, <1>5, <1>16, <2>1, <2>2, <2>3 DEF UpdateRowDelivered, Typed, Noted
<1>17. ASSUME NEW h \in Handlers, UpdateLog(h) PROVE TypeInv'
  <2>1. req[h] \in Request /\ req[h].pid \in Ids /\ log[req[h].pid] \in LogType
    BY <1>1, <1>17 DEF UpdateLog, AtLogHasId
  <2>2. FirstLogUpdate(log[req[h].pid], req[h].kind) \in LogType
    BY <2>1, UpdatesTyped DEF Request
  <2>3. log' \in [Ids -> LogType]
    BY <1>1, <1>17, <2>1, <2>2 DEF UpdateLog
  <2>4. [req[h] EXCEPT !.at = "log2"] \in Request /\ [req[h] EXCEPT !.at = "log2"].pid \in Ids
    BY <2>1 DEF Request, Statements
  <2>5. req' \in [Handlers -> Request] /\ AtLogHasId'
    <3>1. CASE req[h].kind = "read"
      BY <1>12, <1>17, <2>4, <3>1 DEF UpdateLog
    <3>2. CASE req[h].kind # "read"
      BY <1>12, <1>13, <1>17, <3>2 DEF UpdateLog
    <3> QED
      BY <3>1, <3>2
  <2> QED
    BY <1>1, <1>3, <1>4, <1>5, <1>17, <2>3, <2>5 DEF UpdateLog, Typed
<1>18. ASSUME NEW h \in Handlers, UpdateLogDelivered(h) PROVE TypeInv'
  <2>1. req[h].pid \in Ids
    BY <1>1, <1>18 DEF UpdateLogDelivered, AtLogHasId
  <2>2. log' \in [Ids -> LogType]
    BY <1>1, <1>18, <2>1 DEF UpdateLogDelivered, LogType
  <2>3. req' \in [Handlers -> Request] /\ AtLogHasId'
    BY <1>12, <1>13, <1>18 DEF UpdateLogDelivered
  <2> QED
    BY <1>1, <1>3, <1>4, <1>5, <1>18, <2>2, <2>3 DEF UpdateLogDelivered, Typed
<1>19. ASSUME NEW h \in Handlers, HandlerDies(h) PROVE TypeInv'
  <2>1. req[h] \in Request
    BY <1>1
  <2>2. req' \in [Handlers -> Request] /\ AtLogHasId'
    BY <1>12, <1>13, <1>19 DEF HandlerDies
  <2>3. torn' \subseteq 0 .. MaxIds /\ lost' \subseteq 0 .. MaxIds
    BY <1>1, <1>19, <2>1 DEF HandlerDies, Request
  <2> QED
    BY <1>1, <1>3, <1>5, <1>19, <2>2, <2>3 DEF HandlerDies, Typed, Noted
<1> QED
  BY <1>2, <1>6, <1>7, <1>8, <1>9, <1>10, <1>11, <1>15, <1>16, <1>17, <1>18, <1>19
     DEF Next, Handle

\* Types: no receipt, retry or crash takes a counter or a status out of its range.
THEOREM ReceiptsTyped == Spec => []TypeOK
<1>1. TypeInv => TypeOK
  BY DEF TypeInv
<1> QED
  BY InitTyped, StepTyped, <1>1, PTL DEF Spec

-----------------------------------------------------------------------------
(* The invariant behind the rest: which marks a handler has left behind it,  *)
(* and that the statuses of the log go with its marks.                       *)

\* Past its first statement a handler has left its mark on the row, or missed it.
HandlersLeaveMarks ==
  \A h \in Handlers :
    /\ req[h].at \in {"row2", "log2"} => req[h].kind = "read"
    /\ (req[h].at \in {"row2", "log", "log2"} /\ req[h].kind # "failed")
         => Level(row) > 0 \/ req[h].pid \in missed

\* A status of the log says what its marks say.
StatusFitsMarks(r) ==
  /\ r.status = "none" => Level(r) = 0
  /\ r.status = "delivered" => r.delivered
  /\ r.status = "read" => r.read
LogFitsMarks == \A p \in Ids : StatusFitsMarks(log[p])

\* The id the worker is about to log is a new one.
LoggedOnce ==
  /\ \A p \in Ids : p > issued => log[p].status = "none"
  /\ (worker.at # "idle" /\ worker.last # 0)
       => worker.last <= issued /\ log[worker.last].status = "none"

SafetyInv == /\ TypeInv /\ HandlersLeaveMarks /\ LogFitsMarks /\ LoggedOnce
             /\ ReadMeansDelivered /\ LogFollowsRow

LEMMA InitSafe == Init => SafetyInv
<1> SUFFICES ASSUME Init PROVE SafetyInv
  OBVIOUS
<1>1. TypeInv
  BY InitTyped
<1>2. HandlersLeaveMarks /\ LogFitsMarks /\ LoggedOnce /\ ReadMeansDelivered /\ LogFollowsRow
  BY DEF Init, Idle, HandlersLeaveMarks, LogFitsMarks, StatusFitsMarks, LoggedOnce,
         ReadMeansDelivered, LogFollowsRow, Level
<1> QED
  BY <1>1, <1>2 DEF SafetyInv

\* A statement on either table never lowers a level, marks what it reports, and
\* moves the status of a log row forward.
LEMMA UpdateClimbs ==
  ASSUME NEW k \in Kinds, NEW r \in RowType
  PROVE  /\ Level(FirstUpdate(r, k)) >= Level(r)
         /\ k # "failed" => Level(FirstUpdate(r, k)) > 0
         /\ (FirstUpdate(r, k).read /\ ~FirstUpdate(r, k).delivered)
              => (r.read /\ ~r.delivered) \/ k = "read"
  BY DEF FirstUpdate, Level, Kinds, RowType

LEMMA LogUpdateClimbs ==
  ASSUME NEW k \in Kinds, NEW r \in LogType, r.status # "none", StatusFitsMarks(r)
  PROVE  /\ StatusFitsMarks(FirstLogUpdate(r, k))
         /\ FirstLogUpdate(r, k).status # "none"
         /\ Rank(r.status) <= Rank(FirstLogUpdate(r, k).status)
         /\ Level(FirstLogUpdate(r, k)) > 0 => Level(r) > 0 \/ k # "failed"
         /\ (FirstLogUpdate(r, k).read /\ ~FirstLogUpdate(r, k).delivered)
              => (r.read /\ ~r.delivered) \/ k = "read"
<1> USE DEF LogType, LogStatuses
<1>1. CASE k = "delivered" /\ Level(r) = 0
  BY <1>1 DEF FirstLogUpdate, FirstUpdate, StatusFitsMarks, Level, Rank
<1>2. CASE k = "read" /\ ~r.read
  BY <1>2 DEF FirstLogUpdate, FirstUpdate, StatusFitsMarks, Level, Rank
<1>3. CASE k = "failed" /\ Level(r) = 0
  BY <1>3 DEF FirstLogUpdate, FirstUpdate, StatusFitsMarks, Level, Rank
<1>4. CASE FirstUpdate(r, k) = r
  BY <1>4 DEF FirstLogUpdate, StatusFitsMarks, Level, Rank
<1> QED
  BY <1>1, <1>2, <1>3, <1>4 DEF FirstUpdate

\* What a step does to the tables, for every table row at once.
Forward ==
  /\ Level(row') >= Level(row)
  /\ \A p \in Ids : Rank(log[p].status) <= Rank(log'[p].status)

LEMMA StepSafe == SafetyInv /\ [Next]_vars => SafetyInv' /\ Forward
<1> SUFFICES ASSUME SafetyInv, [Next]_vars PROVE SafetyInv' /\ Forward
  OBVIOUS
<1>1. TypeInv /\ TypeInv'
  BY StepTyped DEF SafetyInv
<1>2. /\ row \in RowType /\ log \in [Ids -> LogType] /\ req \in [Handlers -> Request]
      /\ worker \in [at : {"idle", "send", "log"}, left : 0 .. Parts, last : 0 .. MaxIds]
      /\ issued \in Nat /\ Level(row) \in Nat /\ \A p \in Ids : Rank(log[p].status) \in Nat
  BY <1>1 DEF TypeInv, TypeOK, RowType, LogType, Request, Level, Rank, LogStatuses
<1>3. /\ HandlersLeaveMarks /\ LogFitsMarks /\ LoggedOnce /\ ReadMeansDelivered /\ LogFollowsRow
  BY DEF SafetyInv
<1> DEFINE Safe == /\ HandlersLeaveMarks' /\ LogFitsMarks' /\ LoggedOnce'
                   /\ ReadMeansDelivered' /\ LogFollowsRow' /\ Forward
<1>4. ASSUME Safe PROVE SafetyInv' /\ Forward
  BY <1>1, <1>4 DEF SafetyInv
<1> USE DEF history
\* The worker's steps leave the marks of the row alone.
<1>5. ASSUME Level(row') = Level(row), row'.read = row.read, row'.delivered = row.delivered,
             UNCHANGED <<req, torn, missed>>, log' = log
      PROVE  HandlersLeaveMarks' /\ LogFitsMarks' /\ ReadMeansDelivered' /\ LogFollowsRow' /\ Forward
  <2>1. HandlersLeaveMarks' /\ LogFitsMarks'
    BY <1>3, <1>5 DEF HandlersLeaveMarks, LogFitsMarks
  <2>2. ReadMeansDelivered' /\ LogFollowsRow'
    BY <1>3, <1>5 DEF ReadMeansDelivered, LogFollowsRow
  <2>3. Forward
    BY <1>2, <1>5 DEF Forward
  <2> QED
    BY <2>1, <2>2, <2>3
<1>6. CASE UNCHANGED vars
  <2>1. LoggedOnce'
    BY <1>3, <1>6 DEF vars, LoggedOnce
  <2> QED
    BY <1>4, <1>5, <1>6, <2>1 DEF vars
<1>7. CASE MarkProcessingAttempt \/ MarkDispatchSent \/ MarkDispatchFailed \/ CreateLogFails
           \/ Crash \/ SendPart
  <2>1. /\ row'.read = row.read /\ row'.delivered = row.delivered
        /\ UNCHANGED <<req, torn, missed>> /\ log' = log
    BY <1>2, <1>7 DEF MarkProcessingAttempt, MarkDispatchSent, MarkDispatchFailed,
                      CreateLogFails, Crash, SendPart, RowType
  <2>2. Level(row') = Level(row)
    BY <2>1 DEF Level
  <2>3. LoggedOnce'
    <3>0. issued' \in Nat /\ issued <= issued' /\ \A p \in Ids : p \in Nat
      <4>1. issued' = issued \/ issued' = issued + 1
        BY <1>7 DEF MarkProcessingAttempt, MarkDispatchSent, MarkDispatchFailed,
                    CreateLogFails, Crash, SendPart
      <4>2. \A p \in Ids : p \in Nat
        BY BoundAssumption DEF Ids
      <4> QED
        BY <1>2, <4>1, <4>2
    <3>00. \A p \in Ids : p > issued' => log'[p].status = "none"
      BY <1>2, <1>3, <2>1, <3>0 DEF LoggedOnce
    <3>1. CASE SendPart
      <4>1. PICK l \in {issued + 1} \cup (IF "noId" \in Faults THEN {0} ELSE {}) :
              worker' = [worker EXCEPT !.left = @ - 1, !.last = l]
        BY <3>1 DEF SendPart
      <4>2. worker'.last = l
        BY <1>2, <4>1
      <4>3. issued < MaxIds /\ issued' = issued + 1
        BY <3>1 DEF SendPart
      <4>4. l # 0 => l \in Ids /\ l > issued /\ l <= issued'
        BY <1>2, <4>3, BoundAssumption DEF Ids
      <4> QED
        BY <1>3, <2>1, <3>00, <4>2, <4>4 DEF LoggedOnce
    <3>2. CASE MarkProcessingAttempt \/ MarkDispatchFailed
      <4>1. worker'.last = 0 \/ worker'.at = "idle"
        BY <1>2, <3>2 DEF MarkProcessingAttempt, MarkDispatchFailed
      <4> QED
        BY <3>00, <4>1 DEF LoggedOnce
    <3>3. CASE MarkDispatchSent \/ CreateLogFails \/ Crash
      <4>1. worker' = [worker EXCEPT !.at = "log"] \/ worker'.at = "idle"
        BY <1>2, <3>3 DEF MarkDispatchSent, CreateLogFails, Crash
      <4>2. issued' = issued /\ (worker.at = "send" \/ worker'.at = "idle")
        BY <3>3, <1>2, <4>1 DEF MarkDispatchSent, CreateLogFails, Crash
      <4> QED
        BY <1>2, <1>3, <2>1, <3>00, <4>1, <4>2 DEF LoggedOnce
    <3> QED
      BY <1>7, <3>1, <3>2, <3>3
  <2> QED
    BY <1>4, <1>5, <2>1, <2>2, <2>3
<1>8. CASE CreateLog
  <2>1. row' = row /\ issued' = issued /\ UNCHANGED <<req, torn, missed>> /\ worker'.at = "idle"
    BY <1>2, <1>8 DEF CreateLog
  <2>2. CASE worker.last = 0
    <3>1. log' = log
      BY <1>8, <2>2 DEF CreateLog
    <3>2. LoggedOnce'
      BY <1>3, <2>1, <3>1 DEF LoggedOnce
    <3> QED
      BY <1>4, <1>5, <2>1, <3>1, <3>2
  <2>3. CASE worker.last # 0
    <3>1. worker.last \in Ids /\ worker.last <= issued /\ log[worker.last].status = "none"
      BY <1>2, <1>3, <1>8, <2>3 DEF CreateLog, LoggedOnce, Ids
    <3>2. /\ \A p \in Ids : p # worker.last => log'[p] = log[p]
          /\ log'[worker.last] = [log[worker.last] EXCEPT !.status = "sent"]
      BY <1>2, <1>8, <2>3, <3>1 DEF CreateLog
    <3>3. /\ log'[worker.last].status = "sent" /\ Level(log'[worker.last]) = 0
          /\ ~log'[worker.last].read
      BY <1>2, <1>3, <3>1, <3>2 DEF LogFitsMarks, StatusFitsMarks, Level, LogType
    <3>4. HandlersLeaveMarks'
      BY <1>3, <2>1 DEF HandlersLeaveMarks
    <3>5. LogFitsMarks'
      <4>1. StatusFitsMarks(log'[worker.last])
        BY <3>3 DEF StatusFitsMarks
      <4> QED
        BY <1>3, <3>2, <4>1 DEF LogFitsMarks
    <3>6. LoggedOnce'
      BY <1>2, <1>3, <2>1, <3>1, <3>2 DEF LoggedOnce, Ids
    <3>7. ReadMeansDelivered'
      BY <1>3, <2>1, <3>2, <3>3 DEF ReadMeansDelivered
    <3>8. LogFollowsRow'
      BY <1>3, <2>1, <3>2, <3>3 DEF LogFollowsRow
    <3>9. Forward
      <4>1. Rank(log[worker.last].status) = 0 /\ Rank(log'[worker.last].status) = 1
        BY <3>1, <3>3 DEF Rank
      <4>2. ASSUME NEW p \in Ids PROVE Rank(log[p].status) <= Rank(log'[p].status)
        <5>1. CASE p = worker.last
          BY <4>1, <5>1
        <5>2. CASE p # worker.last
          BY <1>2, <3>2, <5>2
        <5> QED
          BY <5>1, <5>2
      <4> QED
        BY <1>2, <2>1, <4>2 DEF Forward
    <3> QED
      BY <1>4, <3>4, <3>5, <3>6, <3>7, <3>8, <3>9
  <2> QED
    BY <2>2, <2>3
<1>9. ASSUME NEW h \in Handlers, Receive(h) PROVE Safe
  <2>1. /\ row' = row /\ log' = log /\ worker' = worker /\ issued' = issued
        /\ torn' = torn /\ missed' = missed /\ req[h] = Idle
        /\ \A g \in Handlers : g # h => req'[g] = req[g]
        /\ req'[h].at = "row"
    BY <1>2, <1>9 DEF Receive
  <2>2. HandlersLeaveMarks' /\ LogFitsMarks' /\ LoggedOnce'
    BY <1>3, <2>1 DEF HandlersLeaveMarks, LogFitsMarks, LoggedOnce
  <2>3. ReadMeansDelivered' /\ LogFollowsRow'
    BY <1>3, <2>1 DEF ReadMeansDelivered, LogFollowsRow, Idle
  <2> QED
    BY <1>2, <2>1, <2>2, <2>3 DEF Forward
<1>10. ASSUME NEW h \in Handlers, UpdateRow(h) PROVE Safe
  <2>1. /\ log' = log /\ worker' = worker /\ issued' = issued /\ torn' = torn
        /\ req[h].at = "row" /\ req[h].kind \in Kinds /\ missed \subseteq missed'
        /\ \A g \in Handlers : g # h => req'[g] = req[g]
    BY <1>2, <1>10 DEF UpdateRow, Request
  <2>2. /\ req'[h].kind # "failed" => req[h].kind # "failed" /\ req'[h].pid = req[h].pid
        /\ req'[h].at = "row2" => req[h].kind = "read" /\ req'[h].kind = "read"
        /\ req'[h].at # "log2"
        /\ req[h].kind = "read" => req'[h].at = "row2"
    BY <1>2, <1>10 DEF UpdateRow, ThenLog, Idle, Request
  <2>3. /\ Level(row') >= Level(row) /\ Level(row') \in Nat
        /\ (row'.read /\ ~row'.delivered) => (row.read /\ ~row.delivered) \/ req[h].kind = "read"
    BY <1>2, <1>10, <2>1, UpdateClimbs DEF UpdateRow, Level
  <2>4. req[h].kind # "failed" => Level(row') > 0 \/ req[h].pid \in missed'
    BY <1>2, <1>10, <2>1, UpdateClimbs DEF UpdateRow
  <2>5. HandlersLeaveMarks'
    <3> SUFFICES ASSUME NEW g \in Handlers
                 PROVE  /\ req'[g].at \in {"row2", "log2"} => req'[g].kind = "read"
                        /\ (req'[g].at \in {"row2", "log", "log2"} /\ req'[g].kind # "failed")
                             => Level(row') > 0 \/ req'[g].pid \in missed'
      BY DEF HandlersLeaveMarks
    <3>1. CASE g = h
      BY <2>2, <2>4, <3>1
    <3>2. CASE g # h
      BY <1>2, <1>3, <2>1, <2>3, <3>2 DEF HandlersLeaveMarks
    <3> QED
      BY <3>1, <3>2
  <2>6. LogFitsMarks' /\ LoggedOnce'
    BY <1>3, <2>1 DEF LogFitsMarks, LoggedOnce
  <2>7. ReadMeansDelivered'
    BY <1>3, <2>1, <2>2, <2>3 DEF ReadMeansDelivered
  <2>8. LogFollowsRow'
    BY <1>2, <1>3, <2>1, <2>3 DEF LogFollowsRow
  <2> QED
    BY <1>2, <2>1, <2>3, <2>5, <2>6, <2>7, <2>8 DEF Forward
<1>11. ASSUME NEW h \in Handlers, UpdateRowDelivered(h) PROVE Safe
  <2>1. /\ log' = log /\ worker' = worker /\ issued' = issued /\ missed' = missed
        /\ req[h].at = "row2" /\ torn \subseteq torn'
        /\ row' \in RowType /\ row'.read = row.read
        /\ row.delivered => row'.delivered
        /\ row'.delivered \/ 0 \in torn'
        /\ \A g \in Handlers : g # h => req'[g] = req[g]
    BY <1>2, <1>11 DEF UpdateRowDelivered, RowType
  <2>2. /\ req'[h].at \in {"log", "idle"}
        /\ req'[h].kind # "failed" => req'[h].kind = req[h].kind /\ req'[h].pid = req[h].pid
    BY <1>2, <1>11 DEF UpdateRowDelivered, ThenLog, Idle, Request
  <2>3. Level(row') >= Level(row) /\ Level(row') \in Nat
    <3>1. CASE row.read
      BY <2>1, <3>1 DEF Level
    <3>2. CASE ~row.read
      BY <2>1, <3>2 DEF Level
    <3> QED
      BY <3>1, <3>2
  <2>4. HandlersLeaveMarks'
    BY <1>2, <1>3, <2>1, <2>2, <2>3 DEF HandlersLeaveMarks
  <2>5. LogFitsMarks' /\ LoggedOnce'
    BY <1>3, <2>1 DEF LogFitsMarks, LoggedOnce
  <2>6. ReadMeansDelivered'
    BY <1>3, <2>1, <2>2 DEF ReadMeansDelivered
  <2>7. LogFollowsRow'
    BY <1>2, <1>3, <2>1, <2>3 DEF LogFollowsRow
  <2> QED
    BY <1>2, <2>1, <2>3, <2>4, <2>5, <2>6, <2>7 DEF Forward
<1>12. ASSUME NEW h \in Handlers, UpdateLog(h) PROVE Safe
  <2> DEFINE p == req[h].pid
             k == req[h].kind
  <2>1. /\ row' = row /\ worker' = worker /\ issued' = issued
        /\ torn' = torn /\ missed' = missed /\ req[h].at = "log"
        /\ k \in Kinds /\ p \in Ids /\ log[p] \in LogType
        /\ \A g \in Handlers : g # h => req'[g] = req[g]
        /\ \A q \in Ids : q # p => log'[q] = log[q]
    BY <1>1, <1>2, <1>12 DEF UpdateLog, Request, TypeInv, AtLogHasId
  <2>2. /\ req'[h].at = "log2" => k = "read"
        /\ req'[h].at \in {"log2", "idle"}
        /\ req'[h].kind # "failed" => req'[h].kind = k
        /\ req'[h].at = "log2" => req'[h].pid = p /\ req'[h].kind = "read"
        /\ k = "read" => req'[h].at = "log2"
    BY <1>2, <1>12 DEF UpdateLog, Idle, Request
  <2>3. \/ log'[p] = log[p]
        \/ log[p].status # "none" /\ log'[p] = FirstLogUpdate(log[p], k)
    BY <1>2, <1>12, <2>1 DEF UpdateLog
  <2>4. /\ StatusFitsMarks(log'[p])
        /\ log[p].status = "none" => log'[p].status = "none"
        /\ Rank(log[p].status) <= Rank(log'[p].status)
        /\ Level(log'[p]) > 0 => Level(log[p]) > 0 \/ k # "failed"
        /\ (log'[p].read /\ ~log'[p].delivered) => (log[p].read /\ ~log[p].delivered) \/ k = "read"
    <3>1. StatusFitsMarks(log[p])
      BY <1>3, <2>1 DEF LogFitsMarks
    <3>2. CASE log'[p] = log[p]
      BY <1>2, <2>1, <3>1, <3>2
    <3>3. CASE log[p].status # "none" /\ log'[p] = FirstLogUpdate(log[p], k)
      BY <2>1, <3>1, <3>3, LogUpdateClimbs
    <3> QED
      BY <2>3, <3>2, <3>3
  <2>5. HandlersLeaveMarks'
    BY <1>2, <1>3, <2>1, <2>2 DEF HandlersLeaveMarks
  <2>6. LogFitsMarks'
    BY <1>3, <2>1, <2>4 DEF LogFitsMarks
  <2>7. LoggedOnce'
    BY <1>2, <1>3, <2>1, <2>4 DEF LoggedOnce, Ids
  <2>8. ReadMeansDelivered'
    BY <1>3, <2>1, <2>2, <2>4 DEF ReadMeansDelivered
  <2>9. LogFollowsRow'
    <3>1. k # "failed" => Level(row) > 0 \/ p \in missed
      BY <1>3, <2>1 DEF HandlersLeaveMarks
    <3> QED
      BY <1>3, <2>1, <2>4, <3>1 DEF LogFollowsRow
  <2> QED
    BY <1>2, <2>1, <2>4, <2>5, <2>6, <2>7, <2>8, <2>9 DEF Forward
<1>13. ASSUME NEW h \in Handlers, UpdateLogDelivered(h) PROVE Safe
  <2> DEFINE p == req[h].pid
  <2>1. /\ row' = row /\ worker' = worker /\ issued' = issued
        /\ torn' = torn /\ missed' = missed /\ req[h].at = "log2" /\ req'[h] = Idle
        /\ p \in Ids /\ log[p] \in LogType
        /\ \A g \in Handlers : g # h => req'[g] = req[g]
        /\ \A q \in Ids : q # p => log'[q] = log[q]
    BY <1>1, <1>2, <1>13 DEF UpdateLogDelivered, TypeInv, AtLogHasId
  <2>2. \/ log[p].status = "none" /\ log'[p] = log[p]
        \/ log[p].status # "none" /\ log'[p] = [log[p] EXCEPT !.delivered = TRUE]
    BY <1>2, <1>13, <2>1 DEF UpdateLogDelivered
  <2>3. /\ StatusFitsMarks(log'[p]) /\ log'[p].status = log[p].status
        /\ ~(log'[p].read /\ ~log'[p].delivered)
    BY <1>3, <2>1, <2>2 DEF LogFitsMarks, StatusFitsMarks, Level, LogType
  <2>4. HandlersLeaveMarks'
    BY <1>3, <2>1 DEF HandlersLeaveMarks, Idle
  <2>51. LogFitsMarks'
    BY <1>2, <1>3, <2>1, <2>3 DEF LogFitsMarks
  <2>52. \A q \in Ids : log'[q].status = log[q].status
    BY <2>1, <2>3
  <2>53. LoggedOnce'
    <3>1. issued' = issued /\ worker' = worker
      BY <1>13 DEF UpdateLogDelivered
    <3>2. (worker.at # "idle" /\ worker.last # 0) => worker.last \in Ids
      BY <1>2, BoundAssumption DEF Ids
    <3> QED
      BY <1>3, <2>52, <3>1, <3>2 DEF LoggedOnce
  <2>5. LogFitsMarks' /\ LoggedOnce'
    BY <2>51, <2>53
  <2>6. ReadMeansDelivered'
    BY <1>3, <2>1, <2>3 DEF ReadMeansDelivered
  <2>7. LogFollowsRow'
    <3>1. Level(row) > 0 \/ p \in missed
      BY <1>3, <2>1 DEF HandlersLeaveMarks
    <3> QED
      BY <1>3, <2>1, <3>1 DEF LogFollowsRow
  <2> QED
    BY <1>2, <2>1, <2>3, <2>4, <2>5, <2>6, <2>7 DEF Forward
<1>14. ASSUME NEW h \in Handlers, HandlerDies(h) PROVE Safe
  <2>1. /\ row' = row /\ log' = log /\ worker' = worker /\ issued' = issued
        /\ missed' = missed /\ torn \subseteq torn' /\ req'[h] = Idle
        /\ req[h].at = "row2" => 0 \in torn'
        /\ req[h].at = "log2" => req[h].pid \in torn'
        /\ \A g \in Handlers : g # h => req'[g] = req[g]
    BY <1>2, <1>14 DEF HandlerDies
  <2>2. HandlersLeaveMarks' /\ LogFitsMarks' /\ LoggedOnce'
    BY <1>3, <2>1 DEF HandlersLeaveMarks, LogFitsMarks, LoggedOnce, Idle
  <2>3. ReadMeansDelivered' /\ LogFollowsRow'
    BY <1>3, <2>1 DEF ReadMeansDelivered, LogFollowsRow
  <2> QED
    BY <1>2, <2>1, <2>2, <2>3 DEF Forward
<1> QED
  BY <1>4, <1>6, <1>7, <1>8, <1>9, <1>10, <1>11, <1>12, <1>13, <1>14 DEF Next, Handle

\* Read means delivered, on the row and in the log, but for a receipt under way or torn.
THEOREM ReadIsDelivered == Spec => []ReadMeansDelivered
<1>1. SafetyInv => ReadMeansDelivered
  BY DEF SafetyInv
<1> QED
  BY InitSafe, StepSafe, <1>1, PTL DEF Spec

\* The log never claims a delivery the row does not know of, but for a missed row.
THEOREM RowLeadsLog == Spec => []LogFollowsRow
<1>1. SafetyInv => LogFollowsRow
  BY DEF SafetyInv
<1> QED
  BY InitSafe, StepSafe, <1>1, PTL DEF Spec

\* The status the log shows never goes back.
THEOREM LogIsMonotonic == Spec => LogOnlyAdvances
<1>1. SafetyInv /\ [Next]_vars => [\A p \in Ids : Rank(log[p].status) <= Rank(log'[p].status)]_vars
  BY StepSafe DEF Forward
<1> QED
  BY InitSafe, StepSafe, <1>1, PTL DEF Spec, LogOnlyAdvances

\* What the row shows climbs the ladder delivered, read and never falls.
THEOREM RowIsMonotonic == Spec => RowClimbs
<1>1. Init => Ladder!Init
  BY DEF Init, Ladder!Init, Level
<1>2. SafetyInv /\ [Next]_vars => [Ladder!Climb]_(Level(row))
  <2> SUFFICES ASSUME SafetyInv, [Next]_vars PROVE [Ladder!Climb]_(Level(row))
    OBVIOUS
  <2>1. Level(row') >= Level(row) /\ Level(row) \in 0 .. 2 /\ Level(row') \in 0 .. 2
    BY StepSafe DEF Forward, Level
  <2> QED
    BY <2>1 DEF Ladder!Climb, Level
<1> QED
  BY <1>1, <1>2, InitSafe, StepSafe, PTL DEF Spec, RowClimbs, Ladder!Spec

-----------------------------------------------------------------------------
(* That the log keeps up with what was reported is about all receipts for a  *)
(* part at once: the highest one is in the log, was given up, or is with a   *)
(* handler that has the log still before it.                                 *)

OnItsWay(h, p) == /\ req[h].pid = p /\ req[h].at \in {"row", "row2", "log"}
                  /\ LevelOf(req[h].kind) >= due[p]

Applied == \A p \in Ids :
  Level(log[p]) >= due[p] \/ p \in lost \/ \E h \in Handlers : OnItsWay(h, p)

\* What is due is due to a log row.
DueToRow == \A p \in Ids : due[p] > 0 => log[p].status # "none"

KeepInv == SafetyInv /\ DueToRow /\ Applied

\* A step that lowers no level, and after which each handler is still on its way or
\* has arrived, or is given up.
LEMMA KeepFrame ==
  ASSUME KeepInv, SafetyInv', Forward, due' = due, lost \subseteq lost',
         \A p \in Ids : Level(log'[p]) >= Level(log[p]),
         \A p \in Ids, h \in Handlers : OnItsWay(h, p) =>
           OnItsWay(h, p)' \/ Level(log'[p]) >= due[p] \/ p \in lost'
  PROVE  DueToRow' /\ Applied'
<1>1. /\ log \in [Ids -> LogType] /\ log' \in [Ids -> LogType] /\ due \in [Ids -> 0 .. 2]
  BY DEF KeepInv, SafetyInv, TypeInv, TypeOK, LogType
<1>2. ASSUME NEW p \in Ids, due[p] > 0 PROVE log'[p].status # "none"
  <2>1. log[p].status # "none"
    BY <1>2 DEF KeepInv, DueToRow
  <2>2. Rank(log[p].status) <= Rank(log'[p].status)
    BY DEF Forward
  <2>3. log[p].status \in LogStatuses /\ log'[p].status \in LogStatuses
    BY <1>1 DEF LogType
  <2> QED
    BY <2>1, <2>2, <2>3 DEF Rank, LogStatuses
<1>3. ASSUME NEW p \in Ids
      PROVE  Level(log'[p]) >= due[p] \/ p \in lost' \/ \E h \in Handlers : OnItsWay(h, p)'
  <2>1. CASE Level(log[p]) >= due[p]
    <3>1. Level(log'[p]) \in Nat /\ Level(log[p]) \in Nat /\ due[p] \in Nat
      BY <1>1 DEF Level
    <3> QED
      BY <2>1, <3>1
  <2>2. CASE p \in lost \/ \E h \in Handlers : OnItsWay(h, p)
    BY <2>2
  <2> QED
    BY <2>1, <2>2 DEF KeepInv, Applied
<1> QED
  BY <1>2, <1>3 DEF DueToRow, Applied

\* A statement on the log leaves it at the level it reports, at least.
LEMMA LogUpdateReaches ==
  ASSUME NEW k \in Kinds, NEW r \in LogType
  PROVE  /\ Level(FirstLogUpdate(r, k)) >= Level(r)
         /\ Level(FirstLogUpdate(r, k)) >= LevelOf(k)
<1> USE DEF LogType, LogStatuses
<1>1. CASE k = "delivered" /\ Level(r) = 0
  BY <1>1 DEF FirstLogUpdate, FirstUpdate, Level, LevelOf
<1>2. CASE k = "read" /\ ~r.read
  BY <1>2 DEF FirstLogUpdate, FirstUpdate, Level, LevelOf
<1>3. CASE k = "failed" /\ Level(r) = 0
  BY <1>3 DEF FirstLogUpdate, FirstUpdate, Level, LevelOf
<1>4. CASE ~ (k = "delivered" /\ Level(r) = 0) /\ ~ (k = "read" /\ ~r.read) /\ ~ (k = "failed" /\ Level(r) = 0)
  BY <1>4 DEF FirstLogUpdate, FirstUpdate, Level, LevelOf, Kinds
<1> QED
  BY <1>1, <1>2, <1>3, <1>4

LEMMA StepKeeps == KeepInv /\ [Next]_vars => KeepInv'
<1> SUFFICES ASSUME KeepInv, [Next]_vars PROVE KeepInv'
  OBVIOUS
<1>1. SafetyInv' /\ Forward
  BY StepSafe DEF KeepInv
<1> SUFFICES DueToRow' /\ Applied'
  BY <1>1 DEF KeepInv
<1>2. /\ log \in [Ids -> LogType] /\ log' \in [Ids -> LogType] /\ req \in [Handlers -> Request]
      /\ due \in [Ids -> 0 .. 2]
      /\ worker \in [at : {"idle", "send", "log"}, left : 0 .. Parts, last : 0 .. MaxIds]
  BY <1>1 DEF KeepInv, SafetyInv, TypeInv, TypeOK, LogType, Request
<1>3. \A p \in Ids : Level(log[p]) \in Nat /\ Level(log'[p]) \in Nat /\ due[p] \in Nat
  BY <1>2 DEF Level
<1> USE DEF history
<1>4. CASE UNCHANGED <<log, req, due, lost>>
  <2>1. \A p \in Ids : Level(log'[p]) >= Level(log[p])
    BY <1>3, <1>4
  <2>2. \A p \in Ids, h \in Handlers : OnItsWay(h, p) => OnItsWay(h, p)'
    BY <1>4 DEF OnItsWay
  <2> QED
    BY <1>1, <1>4, <2>1, <2>2, KeepFrame
<1>5. CASE CreateLog
  <2>1. req' = req /\ due' = due /\ lost' = lost
    BY <1>5 DEF CreateLog
  <2>2. ASSUME NEW p \in Ids PROVE Level(log'[p]) >= Level(log[p])
    <3>1. log'[p].read = log[p].read /\ log'[p].delivered = log[p].delivered
      BY <1>2, <1>5 DEF CreateLog, LogType
    <3> QED
      BY <1>3, <3>1 DEF Level
  <2>3. \A p \in Ids, h \in Handlers : OnItsWay(h, p) => OnItsWay(h, p)'
    BY <2>1 DEF OnItsWay
  <2> QED
    BY <1>1, <2>1, <2>2, <2>3, KeepFrame
<1>6. ASSUME NEW h \in Handlers, Receive(h) PROVE DueToRow' /\ Applied'
  <2>1. PICK k \in Kinds, p \in 0 .. issued, t \in BOOLEAN :
          /\ req' = [req EXCEPT ![h] = [at |-> "row", kind |-> k, pid |-> p, tracked |-> t]]
          /\ due' = [q \in Ids |-> IF q = p /\ log[q].status # "none"
                                   THEN AtLeast(due[q], LevelOf(k)) ELSE due[q]]
    BY <1>6 DEF Receive
  <2>2. /\ log' = log /\ lost' = lost /\ req[h].at = "idle"
        /\ \A g \in Handlers \ {h} : req'[g] = req[g]
        /\ req'[h] = [at |-> "row", kind |-> k, pid |-> p, tracked |-> t]
    BY <1>2, <1>6, <2>1 DEF Receive, Idle
  <2>3. DueToRow'
    BY <2>1, <2>2 DEF KeepInv, DueToRow
  <2>4. ASSUME NEW q \in Ids
        PROVE  Level(log'[q]) >= due'[q] \/ q \in lost' \/ \E g \in Handlers : OnItsWay(g, q)'
    <3>1. CASE due'[q] = due[q]
      <4>1. \A g \in Handlers : OnItsWay(g, q) => OnItsWay(g, q)'
        BY <2>2, <3>1 DEF OnItsWay
      <4> QED
        BY <2>2, <3>1, <4>1 DEF KeepInv, Applied
    <3>2. CASE due'[q] # due[q]
      <4>1. q = p /\ due'[q] = LevelOf(k) /\ LevelOf(k) \in Nat
        BY <2>1, <3>2 DEF AtLeast, LevelOf
      <4> QED
        BY <2>2, <4>1 DEF OnItsWay
    <3> QED
      BY <3>1, <3>2
  <2> QED
    BY <2>3, <2>4 DEF Applied
<1>7. ASSUME NEW h \in Handlers, UpdateRow(h) \/ UpdateRowDelivered(h) PROVE DueToRow' /\ Applied'
  <2>1. /\ log' = log /\ due' = due /\ lost' = lost /\ req[h].at \in {"row", "row2"}
        /\ \A g \in Handlers \ {h} : req'[g] = req[g]
    BY <1>2, <1>7 DEF UpdateRow, UpdateRowDelivered
  <2>2. req[h].pid # 0 => /\ req'[h].pid = req[h].pid /\ req'[h].kind = req[h].kind
                          /\ req'[h].at \in {"row2", "log"}
    BY <1>2, <1>7 DEF UpdateRow, UpdateRowDelivered, ThenLog, Request
  <2>3. 0 \notin Ids
    BY BoundAssumption DEF Ids
  <2>4. \A p \in Ids, g \in Handlers : OnItsWay(g, p) => OnItsWay(g, p)'
    BY <2>1, <2>2, <2>3 DEF OnItsWay
  <2>5. \A p \in Ids : Level(log'[p]) >= Level(log[p])
    BY <1>3, <2>1
  <2> QED
    BY <1>1, <2>1, <2>4, <2>5, KeepFrame
<1>8. ASSUME NEW h \in Handlers, UpdateLog(h) PROVE DueToRow' /\ Applied'
  <2> DEFINE p == req[h].pid
             k == req[h].kind
  <2>1. /\ due' = due /\ lost' = lost /\ req[h].at = "log"
        /\ k \in Kinds /\ p \in Ids /\ log[p] \in LogType
        /\ \A g \in Handlers \ {h} : req'[g] = req[g]
        /\ \A q \in Ids \ {p} : log'[q] = log[q]
    BY <1>2, <1>8 DEF UpdateLog, Request, KeepInv, SafetyInv, TypeInv, AtLogHasId
  <2>2. \/ log[p].status = "none" /\ log'[p] = log[p]
        \/ log[p].status # "none" /\ log'[p] = FirstLogUpdate(log[p], k)
    BY <1>2, <1>8, <2>1 DEF UpdateLog
  <2>3. Level(log'[p]) >= Level(log[p])
    BY <1>3, <2>1, <2>2, LogUpdateReaches
  <2>4. \A q \in Ids : Level(log'[q]) >= Level(log[q])
    BY <1>3, <2>1, <2>3
  <2>5. LevelOf(k) >= due[p] => Level(log'[p]) >= due[p]
    <3>1. CASE log[p].status = "none"
      <4>1. due[p] = 0
        BY <1>3, <2>1, <3>1 DEF KeepInv, DueToRow
      <4> QED
        BY <1>3, <2>1, <4>1
    <3>2. CASE log[p].status # "none"
      <4>1. Level(log'[p]) >= LevelOf(k) /\ LevelOf(k) \in Nat
        BY <2>1, <2>2, <3>2, LogUpdateReaches DEF LevelOf
      <4> QED
        BY <1>3, <2>1, <4>1
    <3> QED
      BY <3>1, <3>2
  <2>6. \A q \in Ids, g \in Handlers : OnItsWay(g, q) => OnItsWay(g, q)' \/ Level(log'[q]) >= due[q]
    BY <2>1, <2>5 DEF OnItsWay
  <2> QED
    BY <1>1, <2>1, <2>4, <2>6, KeepFrame
<1>9. ASSUME NEW h \in Handlers, UpdateLogDelivered(h) PROVE DueToRow' /\ Applied'
  <2>1. /\ due' = due /\ lost' = lost /\ req[h].at = "log2"
        /\ \A g \in Handlers \ {h} : req'[g] = req[g]
    BY <1>2, <1>9 DEF UpdateLogDelivered
  <2>2. ASSUME NEW q \in Ids PROVE Level(log'[q]) >= Level(log[q])
    <3>1. log'[q].read = log[q].read /\ (log[q].delivered => log'[q].delivered)
      BY <1>2, <1>9 DEF UpdateLogDelivered, LogType
    <3> QED
      BY <3>1 DEF Level
  <2>3. \A q \in Ids, g \in Handlers : OnItsWay(g, q) => OnItsWay(g, q)'
    BY <2>1 DEF OnItsWay
  <2> QED
    BY <1>1, <2>1, <2>2, <2>3, KeepFrame
<1>10. ASSUME NEW h \in Handlers, HandlerDies(h) PROVE DueToRow' /\ Applied'
  <2>1. /\ log' = log /\ due' = due /\ lost' = lost \cup {req[h].pid}
        /\ \A g \in Handlers \ {h} : req'[g] = req[g]
    BY <1>2, <1>10 DEF HandlerDies
  <2>2. \A q \in Ids, g \in Handlers : OnItsWay(g, q) => OnItsWay(g, q)' \/ q \in lost'
    BY <2>1 DEF OnItsWay
  <2>3. \A p \in Ids : Level(log'[p]) >= Level(log[p])
    BY <1>3, <2>1
  <2> QED
    BY <1>1, <2>1, <2>2, <2>3, KeepFrame
<1>11. ASSUME \/ MarkProcessingAttempt \/ SendPart \/ MarkDispatchSent \/ MarkDispatchFailed
              \/ CreateLogFails \/ Crash \/ UNCHANGED vars
       PROVE  UNCHANGED <<log, req, due, lost>>
  BY <1>11 DEF MarkProcessingAttempt, SendPart, MarkDispatchSent, MarkDispatchFailed,
               CreateLogFails, Crash, vars
<1> QED
  BY <1>4, <1>5, <1>6, <1>7, <1>8, <1>9, <1>10, <1>11 DEF Next, Handle

\* No receipt that comes once the log row exists is lost to the log, whatever other
\* receipts and the worker do meanwhile, unless its handler died.
THEOREM LogMissesNothing == Spec => []LogKeepsUp
<1>1. Init => KeepInv
  <2> SUFFICES ASSUME Init PROVE KeepInv
    OBVIOUS
  <2>1. DueToRow /\ Applied
    BY DEF Init, DueToRow, Applied, Level
  <2> QED
    BY <2>1, InitSafe DEF KeepInv
<1>2. KeepInv => LogKeepsUp
  BY DEF KeepInv, Applied, LogKeepsUp, OnItsWay
<1> QED
  BY <1>1, <1>2, StepKeeps, PTL DEF Spec
=============================================================================
