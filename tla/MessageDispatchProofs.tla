------------------------ MODULE MessageDispatchProofs ------------------------
(***************************************************************************)
(* Proofs, for any set of rows, workers, sizes and faults, of the safety   *)
(* of MessageDispatch.                                                     *)
(***************************************************************************)
EXTENDS MessageDispatchProps, TLAPS

\* The sizes of a message are natural numbers.
LEMMA SizeIsNat == \A m \in Msgs, k \in Kinds : Size(m, k) \in Nat
  BY SizeAssumption DEF Size, Kinds

\* An execution that is not idle works on a row.
Busy == \A w \in Workers : at[w] # "idle" => msg[w] \in Msgs

TypeInv == TypeOK /\ Busy

\* Type correctness holds at first and is kept by every step.
LEMMA InitTyped == Init => TypeInv
  BY WorkerAssumption DEF Init, TypeInv, TypeOK, Busy, NothingSent, Kinds, Statuses, JobStates, Steps

LEMMA InFlightTyped ==
  TypeInv => \A w \in Workers : at[w] # "idle" => InFlight(w) \subseteq Msgs \X (Kinds \X Nat)
  BY DEF TypeInv, TypeOK, Busy, InFlight, Mailed, NextPiece, IsNext, Kinds

\* A slot that is left keeps the types of the locals.
LEMMA LeaveTyped ==
  ASSUME TypeInv, NEW w \in Workers, Leave(w)
  PROVE  /\ at' \in [Workers -> Steps] /\ msg' \in [Workers -> Msgs \cup {NoMsg}]
         /\ cur' \in [Workers -> [Kinds -> Nat]]
         /\ fatal' \in [Workers -> BOOLEAN] /\ paceFor' \in [Workers -> Nat]
         /\ Busy'
<1>1. NothingSent \in [Kinds -> Nat]
  BY DEF NothingSent
<1>2. cur' \in [Workers -> [Kinds -> Nat]]
  BY <1>1 DEF TypeInv, TypeOK, Leave
<1>3. at' \in [Workers -> Steps] /\ msg' \in [Workers -> Msgs \cup {NoMsg}] /\ Busy'
  BY DEF TypeInv, TypeOK, Leave, Busy, Steps
<1>4. fatal' \in [Workers -> BOOLEAN] /\ paceFor' \in [Workers -> Nat]
  BY DEF TypeInv, TypeOK, Leave
<1> QED
  BY <1>2, <1>3, <1>4

LEMMA StepTyped == TypeInv /\ [Next]_vars => TypeInv'
<1> SUFFICES ASSUME TypeInv, [Next]_vars PROVE TypeInv'
  OBVIOUS
<1> USE DEF TypeInv, TypeOK, Busy, Statuses, JobStates, Steps, rowVars, jobVars, execVars, vars
<1>1. CASE UNCHANGED vars
  BY <1>1
<1>2. ASSUME NEW m \in Msgs, Add(m) PROVE TypeInv'
  BY <1>2 DEF Add
<1>3. ASSUME NEW w \in Workers, NEW m \in Msgs, Pick(w, m) PROVE TypeInv'
  BY <1>3 DEF Pick
<1>4. ASSUME NEW w \in Workers, SkipIfSent(w) PROVE TypeInv'
  <2>1. job' \in [Msgs -> JobStates] /\ owner' \in [Msgs -> Workers \cup {NoWorker}]
    <3>1. /\ job' = job \/ job' = [job EXCEPT ![msg[w]] = "completed"]
          /\ owner' = owner \/ owner' = [owner EXCEPT ![msg[w]] = NoWorker]
      BY <1>4 DEF SkipIfSent, Complete
    <3>2. job' \in [Msgs -> JobStates]
      BY <3>1
    <3> QED
      BY <3>1, <3>2
  <2> QED
    BY <1>4, <2>1, LeaveTyped DEF SkipIfSent, Complete
<1>5. ASSUME NEW w \in Workers, Load(w) PROVE TypeInv'
  BY <1>5 DEF Load
<1>6. ASSUME NEW w \in Workers, ReserveSlot(w) \/ MoveToDelayed(w) PROVE TypeInv'
  <2>1. CASE ReserveSlot(w)
    BY <2>1 DEF ReserveSlot
  <2>2. CASE MoveToDelayed(w)
    <3>1. job' \in [Msgs -> JobStates] /\ owner' \in [Msgs -> Workers \cup {NoWorker}]
      <4>1. /\ job' = job \/ job' = [job EXCEPT ![msg[w]] = "waiting"]
            /\ owner' = owner \/ owner' = [owner EXCEPT ![msg[w]] = NoWorker]
        BY <2>2 DEF MoveToDelayed
      <4>2. job' \in [Msgs -> JobStates]
        BY <4>1
      <4> QED
        BY <4>1, <4>2
    <3> QED
      BY <2>2, <3>1, LeaveTyped DEF MoveToDelayed
  <2> QED
    BY <1>6, <2>1, <2>2
<1>7. ASSUME NEW w \in Workers, MarkProcessingAttempt(w) PROVE TypeInv'
  BY <1>7 DEF MarkProcessingAttempt
<1>8. ASSUME NEW w \in Workers, NEW k \in Kinds, SendPiece(w, k) PROVE TypeInv'
  <2>1. msg[w] \in Msgs /\ NextPiece(w, k) \in Msgs \X (Kinds \X Nat)
    BY <1>8 DEF SendPiece, NextPiece
  <2>2. accepted' \subseteq Msgs \X (Kinds \X Nat) /\ resent' \subseteq Msgs \X (Kinds \X Nat)
    BY <1>8, <2>1 DEF SendPiece, ProviderTakes
  <2>3. cur' \in [Workers -> [Kinds -> Nat]] /\ at' \in [Workers -> Steps]
    <3>1. CASE k = "mail"
      <4>1. [cur[w] EXCEPT !["mail"] = 1] \in [Kinds -> Nat]
        OBVIOUS
      <4>2. cur' = [cur EXCEPT ![w] = [cur[w] EXCEPT !["mail"] = 1]] /\ at' = at
        BY <1>8, <3>1 DEF SendPiece
      <4> QED
        BY <4>1, <4>2
    <3>2. CASE k # "mail"
      BY <1>8, <3>2 DEF SendPiece
    <3> QED
      BY <3>1, <3>2
  <2> QED
    BY <1>8, <2>1, <2>2, <2>3 DEF SendPiece
<1>9. ASSUME NEW w \in Workers, NEW k \in Kinds, SendRejected(w, k) PROVE TypeInv'
  BY <1>9 DEF SendRejected
<1>10. ASSUME NEW w \in Workers, NEW k \in Kinds, SendAckLost(w, k) PROVE TypeInv'
  <2>1. msg[w] \in Msgs /\ NextPiece(w, k) \in Msgs \X (Kinds \X Nat)
    BY <1>10 DEF SendAckLost, NextPiece
  <2> QED
    BY <1>10, <2>1 DEF SendAckLost, ProviderTakes
<1>11. ASSUME NEW w \in Workers, NEW k \in {"text", "media"}, SavePiece(w, k) PROVE TypeInv'
  <2>1. k \in Kinds /\ msg[w] \in Msgs
    BY <1>11 DEF SavePiece, Kinds
  <2>2. cur[w] \in [Kinds -> Nat] /\ progress[msg[w]] \in [Kinds -> Nat] /\ cur[w][k] + 1 \in Nat
    BY <2>1
  <2>3. cur' \in [Workers -> [Kinds -> Nat]]
    <3>1. [cur[w] EXCEPT ![k] = cur[w][k] + 1] \in [Kinds -> Nat]
      BY <2>2
    <3>2. cur' = [cur EXCEPT ![w] = [cur[w] EXCEPT ![k] = cur[w][k] + 1]]
      BY <1>11 DEF SavePiece
    <3> QED
      BY <3>1, <3>2
  <2>4. progress' \in [Msgs -> [Kinds -> Nat]]
    <3>1. [progress[msg[w]] EXCEPT ![k] = cur[w][k] + 1] \in [Kinds -> Nat]
      BY <2>2
    <3>2. progress' = [progress EXCEPT ![msg[w]] = [progress[msg[w]] EXCEPT ![k] = cur[w][k] + 1]]
      BY <1>11 DEF SavePiece
    <3> QED
      BY <3>1, <3>2
  <2> QED
    BY <1>11, <2>3, <2>4 DEF SavePiece
<1>12. ASSUME NEW w \in Workers, MarkDispatchSent(w) PROVE TypeInv'
  BY <1>12 DEF MarkDispatchSent
<1>13. ASSUME NEW w \in Workers, CreateLog(w) PROVE TypeInv'
  <2>1. job' \in [Msgs -> JobStates] /\ owner' \in [Msgs -> Workers \cup {NoWorker}]
    <3>1. /\ job' = job \/ job' = [job EXCEPT ![msg[w]] = "completed"]
          /\ owner' = owner \/ owner' = [owner EXCEPT ![msg[w]] = NoWorker]
      BY <1>13 DEF CreateLog, Complete
    <3>2. job' \in [Msgs -> JobStates]
      BY <3>1
    <3> QED
      BY <3>1, <3>2
  <2> QED
    BY <1>13, <2>1, LeaveTyped DEF CreateLog, Complete
<1>14. ASSUME NEW w \in Workers, WriteFails(w) PROVE TypeInv'
  <2>1. /\ InFlight(w) \subseteq Msgs \X (Kinds \X Nat)
        /\ Mailed(w) \subseteq Msgs \X (Kinds \X Nat)
    BY <1>14, InFlightTyped DEF WriteFails, Mailed, Kinds
  <2>2. unrecorded' \subseteq Msgs \X (Kinds \X Nat)
    BY <1>14, <2>1 DEF WriteFails
  <2>3. at' \in [Workers -> Steps]
    BY <1>14 DEF WriteFails
  <2> QED
    BY <1>14, <2>2, <2>3 DEF WriteFails
<1>15. ASSUME NEW w \in Workers, MarkDispatchFailed(w) PROVE TypeInv'
  BY <1>15 DEF MarkDispatchFailed
<1>16. ASSUME NEW w \in Workers, CreateFailLog(w) PROVE TypeInv'
  BY <1>16 DEF CreateFailLog
<1>17. ASSUME NEW w \in Workers, CatchFails(w) PROVE TypeInv'
  BY <1>17 DEF CatchFails
<1>18. ASSUME NEW w \in Workers, FailsOutsideTry(w) PROVE TypeInv'
  BY <1>18 DEF FailsOutsideTry
<1>19. ASSUME NEW w \in Workers, Throw(w) PROVE TypeInv'
  <2>1. msg[w] \in Msgs
    BY <1>19 DEF Throw
  <2>2. /\ made' \in [Msgs -> Nat]
        /\ job' \in [Msgs -> JobStates]
        /\ owner' \in [Msgs -> Workers \cup {NoWorker}]
    <3>1. CASE owner[msg[w]] = w
      <4>1. made' = [made EXCEPT ![msg[w]] = made[msg[w]] + 1] /\ made[msg[w]] \in Nat
        BY <1>19, <2>1, <3>1 DEF Throw
      <4>2. made' \in [Msgs -> Nat]
        <5>1. made[msg[w]] + 1 \in Nat
          BY <4>1
        <5> QED
          BY <4>1, <5>1
      <4>3. \E s \in JobStates : job' = [job EXCEPT ![msg[w]] = s]
        BY <1>19, <3>1 DEF Throw
      <4>4. job' \in [Msgs -> JobStates]
        BY <4>3
      <4>5. owner' \in [Msgs -> Workers \cup {NoWorker}]
        BY <1>19, <2>1, <3>1 DEF Throw
      <4> QED
        BY <4>2, <4>4, <4>5
    <3>2. CASE owner[msg[w]] # w
      BY <1>19, <3>2 DEF Throw
    <3> QED
      BY <3>1, <3>2
  <2> QED
    BY <1>19, <2>2, LeaveTyped DEF Throw
<1>20. ASSUME NEW w \in Workers, Crash(w) PROVE TypeInv'
  <2>1. unrecorded' \subseteq Msgs \X (Kinds \X Nat)
    BY <1>20, InFlightTyped DEF Crash
  <2> QED
    BY <1>20, <2>1, LeaveTyped DEF Crash
<1>21. ASSUME NEW m \in Msgs, Stalled(m) \/ LockLost(m) PROVE TypeInv'
  <2>1. Reclaim(m) /\ overlap' \in [Msgs -> BOOLEAN]
    BY <1>21 DEF Stalled, LockLost
  <2>2. owner' \in [Msgs -> Workers \cup {NoWorker}]
    BY <2>1 DEF Reclaim
  <2>3. job' \in [Msgs -> JobStates]
    <3>1. job' = [job EXCEPT ![m] = "waiting"] \/ job' = [job EXCEPT ![m] = "failed"]
      BY <2>1 DEF Reclaim
    <3> QED
      BY <3>1
  <2>5. unbooked' \in [Msgs -> BOOLEAN]
    BY <2>1 DEF Reclaim
  <2>4. stalls' \in [Msgs -> Nat]
    <3>1. stalls' = stalls \/ stalls' = [stalls EXCEPT ![m] = stalls[m] + 1]
      BY <2>1 DEF Reclaim
    <3>2. stalls[m] + 1 \in Nat
      OBVIOUS
    <3> QED
      BY <3>1, <3>2
  <2> QED
    BY <2>1, <2>2, <2>3, <2>4, <2>5 DEF Reclaim
<1>22. ASSUME NEW m \in Msgs, DeliveryFailed(m) \/ RowDeleted(m) PROVE TypeInv'
  <2>1. status' \in [Msgs -> Statuses]
    BY <1>22 DEF DeliveryFailed, RowDeleted
  <2> QED
    BY <1>22, <2>1 DEF DeliveryFailed, RowDeleted
<1> HIDE DEF TypeInv, TypeOK, Busy, Statuses, JobStates, Steps, rowVars, jobVars, execVars, vars
<1> QED
  BY <1>1, <1>2, <1>3, <1>4, <1>5, <1>6, <1>7, <1>8, <1>9, <1>10, <1>11, <1>12, <1>13,
     <1>14, <1>15, <1>16, <1>17, <1>18, <1>19, <1>20, <1>21, <1>22 DEF Next, Proceed

\* The variables keep their types: no counter, job state or step goes astray.
THEOREM TypeCorrect == Spec => []TypeOK
<1>1. TypeInv => TypeOK
  BY DEF TypeInv
<1> QED
  BY InitTyped, StepTyped, <1>1, PTL DEF Spec

-----------------------------------------------------------------------------
(* SentIsComplete and PiecesInOrder are not inductive: that the last piece   *)
(* went out says something of the earlier ones only because the counters,    *)
(* the row's and each execution's copy, never run ahead of the provider.     *)

\* Everything an execution counts as sent was accepted.
CopyIsBacked ==
  \A w \in Workers, k \in Kinds : \A i \in 1 .. cur[w][k] : <<msg[w], <<k, i>>>> \in accepted

\* So was the piece it is about to save.
PendingIsBacked ==
  \A w \in Workers, k \in {"text", "media"} :
    (at[w] = "save" /\ IsNext(w, k)) => NextPiece(w, k) \in accepted

\* A free slot counts nothing as sent.
IdleIsClean == \A w \in Workers : at[w] = "idle" => cur[w] = NothingSent

Backed == ProgressIsBacked /\ CopyIsBacked /\ PendingIsBacked /\ IdleIsClean

SafetyInv == TypeInv /\ Backed /\ SentIsComplete /\ PiecesInOrder

LEMMA InitSafe == Init => SafetyInv
<1> SUFFICES ASSUME Init PROVE SafetyInv
  OBVIOUS
<1>1. TypeInv
  BY InitTyped
<1>2. Backed
  BY DEF Init, Backed, ProgressIsBacked, CopyIsBacked, PendingIsBacked, IdleIsClean, NothingSent
<1>3. SentIsComplete /\ PiecesInOrder
  BY DEF Init, SentIsComplete, PiecesInOrder
<1> QED
  BY <1>1, <1>2, <1>3 DEF SafetyInv

\* An execution stays backed when it counts nothing as sent, and when it keeps its
\* row and its count and does not come to a save it was not at.
Settled(w) ==
  \/ cur'[w] = NothingSent /\ at'[w] # "save"
  \/ /\ msg'[w] = msg[w] /\ cur'[w] = cur[w]
     /\ at'[w] \in {"save", "idle"} => at'[w] = at[w]

\* The steps that neither send, save nor mark a row as sent.
LEMMA QuietStep ==
  ASSUME SafetyInv, TypeInv', accepted' = accepted, progress' = progress,
         \A w \in Workers : Settled(w),
         \A m \in Msgs : status'[m] = "sent" => status[m] = "sent"
  PROVE  SafetyInv'
<1>1. ProgressIsBacked'
  BY DEF SafetyInv, Backed, ProgressIsBacked
<1>2. CopyIsBacked'
  <2> SUFFICES ASSUME NEW w \in Workers, NEW k \in Kinds, NEW i \in 1 .. cur'[w][k]
               PROVE <<msg'[w], <<k, i>>>> \in accepted'
    BY DEF CopyIsBacked
  <2>1. CASE cur'[w] = NothingSent
    BY <2>1 DEF NothingSent
  <2>2. CASE msg'[w] = msg[w] /\ cur'[w] = cur[w]
    BY <2>2 DEF SafetyInv, Backed, CopyIsBacked
  <2> QED
    BY <2>1, <2>2 DEF Settled
<1>3. PendingIsBacked'
  <2> SUFFICES ASSUME NEW w \in Workers, NEW k \in {"text", "media"}, at'[w] = "save", IsNext(w, k)'
               PROVE NextPiece(w, k)' \in accepted'
    BY DEF PendingIsBacked
  <2>1. at[w] = "save" /\ msg'[w] = msg[w] /\ cur'[w] = cur[w]
    BY DEF Settled
  <2>2. IsNext(w, k) /\ NextPiece(w, k)' = NextPiece(w, k)
    BY <2>1 DEF IsNext, NextPiece, Size
  <2> QED
    BY <2>1, <2>2 DEF SafetyInv, Backed, PendingIsBacked
<1>4. IdleIsClean'
  BY DEF SafetyInv, Backed, IdleIsClean, Settled
<1>5. SentIsComplete'
  BY DEF SafetyInv, SentIsComplete, PiecesOf, Size
<1>6. PiecesInOrder'
  BY DEF SafetyInv, PiecesInOrder, PiecesOf, PiecesBefore, Size
<1> QED
  BY <1>1, <1>2, <1>3, <1>4, <1>5, <1>6 DEF SafetyInv, Backed

\* A piece that is next may go out: all that precede it went out before.
LEMMA SendInOrder ==
  ASSUME SafetyInv, NEW w \in Workers, NEW k \in Kinds, at[w] = "send", IsNext(w, k),
         ProviderTakes(NextPiece(w, k))
  PROVE  PiecesInOrder'
<1> SUFFICES ASSUME NEW m \in Msgs, NEW p \in PiecesOf(m), <<m, p>> \in accepted',
                    NEW q \in PiecesBefore(m, p)
             PROVE <<m, q>> \in accepted'
  BY DEF PiecesInOrder, PiecesOf, PiecesBefore, Size
<1>1. accepted \subseteq accepted'
  BY DEF ProviderTakes
<1>2. CASE <<m, p>> \in accepted
  BY <1>1, <1>2 DEF SafetyInv, PiecesInOrder
<1>3. CASE <<m, p>> = NextPiece(w, k)
  <2>1. m = msg[w] /\ p[1] = k /\ p[2] = cur[w][k] + 1
    BY <1>3 DEF NextPiece
  <2>2. PICK j \in Kinds, i \in Nat : i \in 1 .. Size(m, j) /\ q = <<j, i>>
    BY SizeIsNat DEF PiecesBefore, PiecesOf
  <2>3. i \in Nat /\ i >= 1 /\ i <= Size(m, j)
    BY <2>2, SizeIsNat
  <2>4. cur[w] \in [Kinds -> Nat]
    BY DEF SafetyInv, TypeInv, TypeOK
  <2>5. i <= cur[w][j]
    <3>1. CASE j = k /\ i < cur[w][k] + 1
      BY <2>3, <2>4, <3>1
    <3>2. CASE j = "text" /\ k = "media"
      BY <2>1, <2>3, <2>4, <3>2, SizeIsNat DEF IsNext
    <3> QED
      BY <2>1, <2>2, <3>1, <3>2 DEF PiecesBefore
  <2>6. i \in 1 .. cur[w][j]
    BY <2>3, <2>4, <2>5
  <2> QED
    BY <1>1, <2>1, <2>2, <2>6 DEF SafetyInv, Backed, CopyIsBacked
<1> QED
  BY <1>2, <1>3 DEF ProviderTakes

\* Of the two loops only one has a next piece.
LEMMA OneLoop ==
  ASSUME TypeInv, NEW w \in Workers, at[w] # "idle", IsNext(w, "text"), IsNext(w, "media")
  PROVE  FALSE
<1>1. cur[w]["text"] \in Nat /\ Size(msg[w], "text") \in Nat
  BY SizeIsNat DEF TypeInv, TypeOK, Busy, Kinds
<1> QED
  BY <1>1 DEF IsNext

LEMMA SendPieceSafe ==
  ASSUME SafetyInv, TypeInv', NEW w \in Workers, NEW k \in Kinds, SendPiece(w, k)
  PROVE  SafetyInv'
<1> USE DEF SafetyInv, Backed
<1>1. at[w] = "send" /\ IsNext(w, k) /\ ProviderTakes(NextPiece(w, k))
  BY DEF SendPiece
<1>2. accepted \subseteq accepted' /\ NextPiece(w, k) \in accepted'
  BY <1>1 DEF ProviderTakes
<1>3. progress' = progress /\ status' = status /\ msg' = msg
  BY DEF SendPiece, rowVars
<1>4. PiecesInOrder'
  BY <1>1, SendInOrder
<1>5. SentIsComplete' /\ ProgressIsBacked'
  BY <1>2, <1>3 DEF SentIsComplete, ProgressIsBacked
<1>6. CASE k = "mail"
  <2>1. cur' = [cur EXCEPT ![w]["mail"] = 1] /\ at' = at
    BY <1>6 DEF SendPiece
  <2>2. cur \in [Workers -> [Kinds -> Nat]] /\ msg[w] \in Msgs
    BY <1>1 DEF TypeInv, TypeOK, Busy
  <2>3. cur[w]["mail"] = 0 /\ NextPiece(w, "mail") = <<msg[w], <<"mail", 1>>>>
    BY <1>1, <1>6, <2>2 DEF IsNext, Size, NextPiece, Kinds
  <2>4. CopyIsBacked'
    <3> SUFFICES ASSUME NEW v \in Workers, NEW j \in Kinds, NEW i \in 1 .. cur'[v][j]
                 PROVE <<msg[v], <<j, i>>>> \in accepted'
      BY <1>3 DEF CopyIsBacked
    <3>1. CASE v = w /\ j = "mail"
      BY <1>2, <1>6, <2>1, <2>2, <2>3, <3>1
    <3>2. CASE ~ (v = w /\ j = "mail")
      <4>1. cur'[v][j] = cur[v][j]
        BY <2>1, <2>2, <3>2
      <4> QED
        BY <1>2, <4>1 DEF CopyIsBacked
    <3> QED
      BY <3>1, <3>2
  <2>5. PendingIsBacked'
    <3> SUFFICES ASSUME NEW v \in Workers, NEW j \in {"text", "media"}, at[v] = "save", IsNext(v, j)'
                 PROVE NextPiece(v, j)' \in accepted'
      BY <2>1 DEF PendingIsBacked
    <3>1. v # w /\ cur'[v] = cur[v]
      BY <1>1, <2>1, <2>2
    <3>2. IsNext(v, j) /\ NextPiece(v, j)' = NextPiece(v, j)
      BY <1>3, <3>1 DEF IsNext, NextPiece, Size
    <3> QED
      BY <1>2, <3>2 DEF PendingIsBacked
  <2>6. IdleIsClean'
    BY <1>1, <2>1, <2>2 DEF IdleIsClean
  <2> QED
    BY <1>4, <1>5, <2>4, <2>5, <2>6
<1>7. CASE k # "mail"
  <2>1. cur' = cur /\ at' = [at EXCEPT ![w] = "save"] /\ at \in [Workers -> Steps]
    BY <1>7 DEF SendPiece, TypeInv, TypeOK
  <2>2. CopyIsBacked'
    BY <1>2, <1>3, <2>1 DEF CopyIsBacked
  <2>3. PendingIsBacked'
    <3> SUFFICES ASSUME NEW v \in Workers, NEW j \in {"text", "media"}, at'[v] = "save", IsNext(v, j)'
                 PROVE NextPiece(v, j)' \in accepted'
      BY DEF PendingIsBacked
    <3>1. IsNext(v, j) /\ NextPiece(v, j)' = NextPiece(v, j)
      BY <1>3, <2>1 DEF IsNext, NextPiece, Size
    <3>2. CASE v = w
      <4>1. j = k
        BY <1>1, <1>7, <3>1, <3>2, OneLoop DEF Kinds
      <4> QED
        BY <1>2, <3>1, <3>2, <4>1
    <3>3. CASE v # w
      BY <1>2, <2>1, <3>1, <3>3 DEF PendingIsBacked
    <3> QED
      BY <3>2, <3>3
  <2>4. IdleIsClean'
    BY <2>1 DEF IdleIsClean
  <2> QED
    BY <1>4, <1>5, <2>2, <2>3, <2>4
<1> QED
  BY <1>6, <1>7

LEMMA SavePieceSafe ==
  ASSUME SafetyInv, TypeInv', NEW w \in Workers, NEW k \in {"text", "media"}, SavePiece(w, k)
  PROVE  SafetyInv'
<1> USE DEF SafetyInv, Backed
<1>1. /\ at[w] = "save" /\ IsNext(w, k) /\ k \in Kinds /\ msg[w] \in Msgs
      /\ NextPiece(w, k) \in accepted
  BY DEF SavePiece, PendingIsBacked, TypeInv, Busy, Kinds
<1>2. accepted' = accepted /\ status' = status /\ msg' = msg
  BY DEF SavePiece
<1>3. /\ progress' = [progress EXCEPT ![msg[w]][k] = cur[w][k] + 1]
      /\ cur' = [cur EXCEPT ![w][k] = cur[w][k] + 1]
      /\ at' = [at EXCEPT ![w] = "send"]
  BY DEF SavePiece
<1>4. /\ cur \in [Workers -> [Kinds -> Nat]] /\ progress \in [Msgs -> [Kinds -> Nat]]
      /\ at \in [Workers -> Steps]
  BY DEF TypeInv, TypeOK
<1>5. \A i \in 1 .. cur[w][k] + 1 : <<msg[w], <<k, i>>>> \in accepted
  <2> SUFFICES ASSUME NEW i \in 1 .. cur[w][k] + 1 PROVE <<msg[w], <<k, i>>>> \in accepted
    OBVIOUS
  <2>1. cur[w][k] \in Nat
    BY <1>1, <1>4
  <2>2. i = cur[w][k] + 1 \/ i \in 1 .. cur[w][k]
    BY <2>1
  <2> QED
    BY <1>1, <2>2 DEF NextPiece, CopyIsBacked
<1>6. ProgressIsBacked'
  <2> SUFFICES ASSUME NEW m \in Msgs, NEW j \in Kinds, NEW i \in 1 .. progress'[m][j]
               PROVE <<m, <<j, i>>>> \in accepted
    BY <1>2 DEF ProgressIsBacked
  <2>1. CASE m = msg[w] /\ j = k
    <3>1. progress'[m][j] = cur[w][k] + 1
      BY <1>3, <1>4, <2>1
    <3> QED
      BY <1>5, <2>1, <3>1
  <2>2. CASE ~ (m = msg[w] /\ j = k)
    <3>1. progress'[m][j] = progress[m][j]
      BY <1>3, <1>4, <2>2
    <3> QED
      BY <3>1 DEF ProgressIsBacked
  <2> QED
    BY <2>1, <2>2
<1>7. CopyIsBacked'
  <2> SUFFICES ASSUME NEW v \in Workers, NEW j \in Kinds, NEW i \in 1 .. cur'[v][j]
               PROVE <<msg[v], <<j, i>>>> \in accepted
    BY <1>2 DEF CopyIsBacked
  <2>1. CASE v = w /\ j = k
    <3>1. cur'[v][j] = cur[w][k] + 1
      BY <1>3, <1>4, <2>1
    <3> QED
      BY <1>5, <2>1, <3>1
  <2>2. CASE ~ (v = w /\ j = k)
    <3>1. cur'[v][j] = cur[v][j]
      BY <1>3, <1>4, <2>2
    <3> QED
      BY <3>1 DEF CopyIsBacked
  <2> QED
    BY <2>1, <2>2
<1>8. PendingIsBacked'
  <2> SUFFICES ASSUME NEW v \in Workers, NEW j \in {"text", "media"}, at'[v] = "save", IsNext(v, j)'
               PROVE NextPiece(v, j)' \in accepted
    BY <1>2 DEF PendingIsBacked
  <2>1. v # w /\ at[v] = "save" /\ cur'[v] = cur[v]
    BY <1>3, <1>4
  <2>2. IsNext(v, j) /\ NextPiece(v, j)' = NextPiece(v, j)
    BY <1>2, <2>1 DEF IsNext, NextPiece, Size
  <2> QED
    BY <2>1, <2>2 DEF PendingIsBacked
<1>9. IdleIsClean'
  BY <1>1, <1>3, <1>4 DEF IdleIsClean
<1>10. SentIsComplete' /\ PiecesInOrder'
  BY <1>2 DEF SentIsComplete, PiecesInOrder, PiecesOf, PiecesBefore, Size
<1> QED
  BY <1>6, <1>7, <1>8, <1>9, <1>10

\* Once both loops are through, every piece was accepted.
LEMMA AllOutIsComplete ==
  ASSUME SafetyInv, NEW w \in Workers, at[w] = "send", AllOut(w), NEW p \in PiecesOf(msg[w])
  PROVE  <<msg[w], p>> \in accepted
<1>1. msg[w] \in Msgs
  BY DEF SafetyInv, TypeInv, Busy
<1>2. PICK k \in Kinds, i \in Nat : i \in 1 .. Size(msg[w], k) /\ p = <<k, i>>
  BY <1>1, SizeIsNat DEF PiecesOf
<1>3. cur[w][k] \in Nat /\ cur[w][k] >= Size(msg[w], k) /\ Size(msg[w], k) \in Nat
  BY <1>1, SizeIsNat DEF SafetyInv, TypeInv, TypeOK, AllOut
<1>4. i \in 1 .. cur[w][k]
  BY <1>2, <1>3
<1> QED
  BY <1>2, <1>4 DEF SafetyInv, Backed, CopyIsBacked

LEMMA StepSafe == SafetyInv /\ [Next]_vars => SafetyInv'
<1> SUFFICES ASSUME SafetyInv, [Next]_vars PROVE SafetyInv'
  OBVIOUS
<1>1. TypeInv /\ TypeInv' /\ IdleIsClean
  BY StepTyped DEF SafetyInv, Backed
<1> USE DEF rowVars, jobVars, execVars
<1>2. CASE UNCHANGED vars
  BY <1>1, <1>2, QuietStep DEF vars, Settled
<1>3. ASSUME NEW w \in Workers, NEW m \in Msgs, Pick(w, m) PROVE SafetyInv'
  <2>1. accepted' = accepted /\ progress' = progress
    BY <1>3 DEF Pick
  <2>2. \A v \in Workers : Settled(v)
    BY <1>1, <1>3 DEF Pick, Settled, TypeInv, TypeOK, IdleIsClean, Steps
  <2>3. \A r \in Msgs : status'[r] = "sent" => status[r] = "sent"
    BY <1>1, <1>3 DEF Pick, TypeInv, TypeOK, Busy
  <2> QED
    BY <1>1, <2>1, <2>2, <2>3, QuietStep
<1>4. ASSUME NEW w \in Workers, SkipIfSent(w) PROVE SafetyInv'
  <2>1. accepted' = accepted /\ progress' = progress
    BY <1>4 DEF SkipIfSent, Complete, Leave
  <2>2. \A v \in Workers : Settled(v)
    BY <1>1, <1>4 DEF SkipIfSent, Complete, Leave, Settled, TypeInv, TypeOK, IdleIsClean, Steps
  <2>3. \A r \in Msgs : status'[r] = "sent" => status[r] = "sent"
    BY <1>1, <1>4 DEF SkipIfSent, Complete, Leave, TypeInv, TypeOK, Busy
  <2> QED
    BY <1>1, <2>1, <2>2, <2>3, QuietStep
<1>5. ASSUME NEW w \in Workers, ReserveSlot(w) \/ MoveToDelayed(w) PROVE SafetyInv'
  <2>1. accepted' = accepted /\ progress' = progress
    BY <1>5 DEF ReserveSlot, MoveToDelayed, Leave
  <2>2. \A v \in Workers : Settled(v)
    BY <1>1, <1>5 DEF ReserveSlot, MoveToDelayed, Leave, Settled, TypeInv, TypeOK, IdleIsClean, Steps
  <2>3. \A r \in Msgs : status'[r] = "sent" => status[r] = "sent"
    BY <1>1, <1>5 DEF ReserveSlot, MoveToDelayed, Leave, TypeInv, TypeOK, Busy
  <2> QED
    BY <1>1, <2>1, <2>2, <2>3, QuietStep
<1>6. ASSUME NEW w \in Workers, MarkProcessingAttempt(w) PROVE SafetyInv'
  <2>1. accepted' = accepted /\ progress' = progress
    BY <1>6 DEF MarkProcessingAttempt
  <2>2. \A v \in Workers : Settled(v)
    BY <1>1, <1>6 DEF MarkProcessingAttempt, Settled, TypeInv, TypeOK, IdleIsClean, Steps
  <2>3. \A r \in Msgs : status'[r] = "sent" => status[r] = "sent"
    BY <1>1, <1>6 DEF MarkProcessingAttempt, TypeInv, TypeOK, Busy
  <2> QED
    BY <1>1, <2>1, <2>2, <2>3, QuietStep
<1>7. ASSUME NEW w \in Workers, NEW k \in Kinds, SendRejected(w, k) PROVE SafetyInv'
  <2>1. accepted' = accepted /\ progress' = progress
    BY <1>7 DEF SendRejected
  <2>2. \A v \in Workers : Settled(v)
    BY <1>1, <1>7 DEF SendRejected, Settled, TypeInv, TypeOK, IdleIsClean, Steps
  <2>3. \A r \in Msgs : status'[r] = "sent" => status[r] = "sent"
    BY <1>1, <1>7 DEF SendRejected, TypeInv, TypeOK, Busy
  <2> QED
    BY <1>1, <2>1, <2>2, <2>3, QuietStep
<1>8. ASSUME NEW w \in Workers, CreateLog(w) PROVE SafetyInv'
  <2>1. accepted' = accepted /\ progress' = progress
    BY <1>8 DEF CreateLog, Complete, Leave
  <2>2. \A v \in Workers : Settled(v)
    BY <1>1, <1>8 DEF CreateLog, Complete, Leave, Settled, TypeInv, TypeOK, IdleIsClean, Steps
  <2>3. \A r \in Msgs : status'[r] = "sent" => status[r] = "sent"
    BY <1>1, <1>8 DEF CreateLog, Complete, Leave, TypeInv, TypeOK, Busy
  <2> QED
    BY <1>1, <2>1, <2>2, <2>3, QuietStep
<1>9. ASSUME NEW w \in Workers, WriteFails(w) PROVE SafetyInv'
  <2>1. accepted' = accepted /\ progress' = progress
    BY <1>9 DEF WriteFails
  <2>2. \A v \in Workers : Settled(v)
    BY <1>1, <1>9 DEF WriteFails, Settled, TypeInv, TypeOK, IdleIsClean, Steps
  <2>3. \A r \in Msgs : status'[r] = "sent" => status[r] = "sent"
    BY <1>1, <1>9 DEF WriteFails, TypeInv, TypeOK, Busy
  <2> QED
    BY <1>1, <2>1, <2>2, <2>3, QuietStep
<1>10. ASSUME NEW w \in Workers, MarkDispatchFailed(w) PROVE SafetyInv'
  <2>1. accepted' = accepted /\ progress' = progress
    BY <1>10 DEF MarkDispatchFailed
  <2>2. \A v \in Workers : Settled(v)
    BY <1>1, <1>10 DEF MarkDispatchFailed, Settled, TypeInv, TypeOK, IdleIsClean, Steps
  <2>3. \A r \in Msgs : status'[r] = "sent" => status[r] = "sent"
    BY <1>1, <1>10 DEF MarkDispatchFailed, TypeInv, TypeOK, Busy
  <2> QED
    BY <1>1, <2>1, <2>2, <2>3, QuietStep
<1>11. ASSUME NEW w \in Workers, CreateFailLog(w) PROVE SafetyInv'
  <2>1. accepted' = accepted /\ progress' = progress
    BY <1>11 DEF CreateFailLog
  <2>2. \A v \in Workers : Settled(v)
    BY <1>1, <1>11 DEF CreateFailLog, Settled, TypeInv, TypeOK, IdleIsClean, Steps
  <2>3. \A r \in Msgs : status'[r] = "sent" => status[r] = "sent"
    BY <1>1, <1>11 DEF CreateFailLog, TypeInv, TypeOK, Busy
  <2> QED
    BY <1>1, <2>1, <2>2, <2>3, QuietStep
<1>12. ASSUME NEW w \in Workers, CatchFails(w) PROVE SafetyInv'
  <2>1. accepted' = accepted /\ progress' = progress
    BY <1>12 DEF CatchFails
  <2>2. \A v \in Workers : Settled(v)
    BY <1>1, <1>12 DEF CatchFails, Settled, TypeInv, TypeOK, IdleIsClean, Steps
  <2>3. \A r \in Msgs : status'[r] = "sent" => status[r] = "sent"
    BY <1>1, <1>12 DEF CatchFails, TypeInv, TypeOK, Busy
  <2> QED
    BY <1>1, <2>1, <2>2, <2>3, QuietStep
<1>13. ASSUME NEW w \in Workers, FailsOutsideTry(w) PROVE SafetyInv'
  <2>1. accepted' = accepted /\ progress' = progress
    BY <1>13 DEF FailsOutsideTry
  <2>2. \A v \in Workers : Settled(v)
    BY <1>1, <1>13 DEF FailsOutsideTry, Settled, TypeInv, TypeOK, IdleIsClean, Steps
  <2>3. \A r \in Msgs : status'[r] = "sent" => status[r] = "sent"
    BY <1>1, <1>13 DEF FailsOutsideTry, TypeInv, TypeOK, Busy
  <2> QED
    BY <1>1, <2>1, <2>2, <2>3, QuietStep
<1>14. ASSUME NEW w \in Workers, Throw(w) PROVE SafetyInv'
  <2>1. accepted' = accepted /\ progress' = progress
    BY <1>14 DEF Throw, Leave
  <2>2. \A v \in Workers : Settled(v)
    BY <1>1, <1>14 DEF Throw, Leave, Settled, TypeInv, TypeOK, IdleIsClean, Steps
  <2>3. \A r \in Msgs : status'[r] = "sent" => status[r] = "sent"
    BY <1>1, <1>14 DEF Throw, Leave, TypeInv, TypeOK, Busy
  <2> QED
    BY <1>1, <2>1, <2>2, <2>3, QuietStep
<1>15. ASSUME NEW w \in Workers, Crash(w) PROVE SafetyInv'
  <2>1. accepted' = accepted /\ progress' = progress
    BY <1>15 DEF Crash, Leave
  <2>2. \A v \in Workers : Settled(v)
    BY <1>1, <1>15 DEF Crash, Leave, Settled, TypeInv, TypeOK, IdleIsClean, Steps
  <2>3. \A r \in Msgs : status'[r] = "sent" => status[r] = "sent"
    BY <1>1, <1>15 DEF Crash, Leave, TypeInv, TypeOK, Busy
  <2> QED
    BY <1>1, <2>1, <2>2, <2>3, QuietStep
<1>16. ASSUME NEW m \in Msgs, Add(m) PROVE SafetyInv'
  <2>1. accepted' = accepted /\ progress' = progress
    BY <1>16 DEF Add
  <2>2. \A v \in Workers : Settled(v)
    BY <1>1, <1>16 DEF Add, Settled, TypeInv, TypeOK, IdleIsClean, Steps
  <2>3. \A r \in Msgs : status'[r] = "sent" => status[r] = "sent"
    BY <1>1, <1>16 DEF Add, TypeInv, TypeOK, Busy
  <2> QED
    BY <1>1, <2>1, <2>2, <2>3, QuietStep
<1>17. ASSUME NEW m \in Msgs, Stalled(m) \/ LockLost(m) PROVE SafetyInv'
  <2>1. accepted' = accepted /\ progress' = progress
    BY <1>17 DEF Stalled, LockLost, Reclaim
  <2>2. \A v \in Workers : Settled(v)
    BY <1>1, <1>17 DEF Stalled, LockLost, Reclaim, Settled, TypeInv, TypeOK, IdleIsClean, Steps
  <2>3. \A r \in Msgs : status'[r] = "sent" => status[r] = "sent"
    BY <1>1, <1>17 DEF Stalled, LockLost, Reclaim, TypeInv, TypeOK, Busy
  <2> QED
    BY <1>1, <2>1, <2>2, <2>3, QuietStep
<1>18. ASSUME NEW m \in Msgs, DeliveryFailed(m) \/ RowDeleted(m) PROVE SafetyInv'
  <2>1. accepted' = accepted /\ progress' = progress
    BY <1>18 DEF DeliveryFailed, RowDeleted
  <2>2. \A v \in Workers : Settled(v)
    BY <1>1, <1>18 DEF DeliveryFailed, RowDeleted, Settled, TypeInv, TypeOK, IdleIsClean, Steps
  <2>3. \A r \in Msgs : status'[r] = "sent" => status[r] = "sent"
    BY <1>1, <1>18 DEF DeliveryFailed, RowDeleted, TypeInv, TypeOK, Busy
  <2> QED
    BY <1>1, <2>1, <2>2, <2>3, QuietStep
<1>19. ASSUME NEW w \in Workers, NEW k \in Kinds, SendPiece(w, k) PROVE SafetyInv'
  BY <1>1, <1>19, SendPieceSafe
<1>20. ASSUME NEW w \in Workers, NEW k \in {"text", "media"}, SavePiece(w, k) PROVE SafetyInv'
  BY <1>1, <1>20, SavePieceSafe
<1>21. ASSUME NEW w \in Workers, NEW k \in Kinds, SendAckLost(w, k) PROVE SafetyInv'
  <2>1. /\ at[w] = "send" /\ IsNext(w, k) /\ ProviderTakes(NextPiece(w, k))
        /\ at' = [at EXCEPT ![w] = "catch"]
        /\ msg' = msg /\ cur' = cur /\ progress' = progress /\ status' = status
    BY <1>21 DEF SendAckLost
  <2>2. accepted \subseteq accepted'
    BY <2>1 DEF ProviderTakes
  <2>3. PiecesInOrder'
    BY <2>1, SendInOrder
  <2>4. SentIsComplete' /\ ProgressIsBacked' /\ CopyIsBacked'
    BY <2>1, <2>2 DEF SafetyInv, Backed, SentIsComplete, ProgressIsBacked, CopyIsBacked
  <2>5. \A v \in Workers : at'[v] \in {"save", "idle"} => at[v] = at'[v]
    BY <1>1, <2>1 DEF TypeInv, TypeOK
  <2>6. PendingIsBacked' /\ IdleIsClean'
    BY <1>1, <2>1, <2>2, <2>5
       DEF SafetyInv, Backed, PendingIsBacked, IdleIsClean, IsNext, NextPiece, Size
  <2> QED
    BY <1>1, <2>3, <2>4, <2>6 DEF SafetyInv, Backed
<1>22. ASSUME NEW w \in Workers, Load(w) PROVE SafetyInv'
  <2>1. /\ msg[w] \in Msgs /\ msg' = msg /\ accepted' = accepted
        /\ progress' = progress /\ status' = status
        /\ cur' = [cur EXCEPT ![w] = progress[msg[w]]]
        /\ at' = [at EXCEPT ![w] = "mark"]
    BY <1>1, <1>22 DEF Load, TypeInv, Busy
  <2>2. ProgressIsBacked' /\ SentIsComplete' /\ PiecesInOrder'
    BY <2>1 DEF SafetyInv, Backed, ProgressIsBacked, SentIsComplete, PiecesInOrder,
                PiecesOf, PiecesBefore, Size
  <2>3. \A v \in Workers : v # w => cur'[v] = cur[v] /\ at'[v] = at[v]
    BY <1>1, <2>1 DEF TypeInv, TypeOK
  <2>4. cur'[w] = progress[msg[w]] /\ at'[w] = "mark"
    BY <1>1, <2>1 DEF TypeInv, TypeOK
  <2>5. CopyIsBacked'
    BY <2>1, <2>3, <2>4 DEF SafetyInv, Backed, CopyIsBacked, ProgressIsBacked
  <2>6. PendingIsBacked' /\ IdleIsClean'
    BY <1>1, <2>1, <2>3, <2>4
       DEF SafetyInv, Backed, PendingIsBacked, IdleIsClean, IsNext, NextPiece, Size
  <2> QED
    BY <1>1, <2>2, <2>5, <2>6 DEF SafetyInv, Backed
<1>23. ASSUME NEW w \in Workers, MarkDispatchSent(w) PROVE SafetyInv'
  <2>1. /\ at[w] = "send" /\ AllOut(w) /\ msg[w] \in Msgs
        /\ status' = [status EXCEPT ![msg[w]] = "sent"] /\ at' = [at EXCEPT ![w] = "log"]
        /\ msg' = msg /\ accepted' = accepted /\ progress' = progress /\ cur' = cur
    BY <1>1, <1>23 DEF MarkDispatchSent, TypeInv, Busy
  <2>2. SentIsComplete'
    <3> SUFFICES ASSUME NEW m \in Msgs, status'[m] = "sent", NEW p \in PiecesOf(m)
                 PROVE <<m, p>> \in accepted
      BY <2>1 DEF SentIsComplete, PiecesOf, Size
    <3>1. CASE m = msg[w]
      BY <2>1, <3>1, AllOutIsComplete
    <3>2. CASE m # msg[w]
      BY <1>1, <2>1, <3>2 DEF SafetyInv, SentIsComplete, TypeInv, TypeOK
    <3> QED
      BY <3>1, <3>2
  <2>3. \A v \in Workers : at'[v] \in {"save", "idle"} => at[v] = at'[v]
    BY <1>1, <2>1 DEF TypeInv, TypeOK
  <2>4. Backed'
    BY <2>1, <2>3 DEF SafetyInv, Backed, ProgressIsBacked, CopyIsBacked, PendingIsBacked,
                      IdleIsClean, IsNext, NextPiece, Size
  <2>5. PiecesInOrder'
    BY <2>1 DEF SafetyInv, PiecesInOrder, PiecesOf, PiecesBefore, Size
  <2> QED
    BY <1>1, <2>2, <2>4, <2>5 DEF SafetyInv
<1> QED
  BY <1>2, <1>3, <1>4, <1>5, <1>6, <1>7, <1>8, <1>9, <1>10, <1>11, <1>12, <1>13,
     <1>14, <1>15, <1>16, <1>17, <1>18, <1>19, <1>20, <1>21, <1>22, <1>23
     DEF Next, Proceed

\* Whatever crashes, overlaps or is retried, a row marked sent was delivered whole.
THEOREM SentMeansDelivered == Spec => []SentIsComplete
<1>1. SafetyInv => SentIsComplete
  BY DEF SafetyInv
<1> QED
  BY InitSafe, StepSafe, <1>1, PTL DEF Spec

\* ... every message arrives from its first part on, with no gap,
THEOREM OrderIsKept == Spec => []PiecesInOrder
<1>1. SafetyInv => PiecesInOrder
  BY DEF SafetyInv
<1> QED
  BY InitSafe, StepSafe, <1>1, PTL DEF Spec

\* ... and the counters of the row never run ahead of the provider.
THEOREM CountersAreHonest == Spec => []ProgressIsBacked
<1>1. SafetyInv => ProgressIsBacked
  BY DEF SafetyInv, Backed
<1> QED
  BY InitSafe, StepSafe, <1>1, PTL DEF Spec

-----------------------------------------------------------------------------
(* The worker implements the at-least-once promise. *)

\* A row that stops being sent, or never was: Reopen.
LEMMA ReopenStep ==
  ASSUME TypeInv, NEW m \in Msgs, NEW s \in Statuses, s # "sent",
         status' = [status EXCEPT ![m] = s], accepted' = accepted
  PROVE  Promise!Next
<1>1. SentRows' = SentRows \ {m}
  BY DEF SentRows, TypeInv, TypeOK
<1>2. Promise!Reopen(m)
  BY <1>1 DEF Promise!Reopen
<1> QED
  BY <1>2 DEF Promise!Next

\* A piece the worker may send is one the promise may deliver.
LEMMA DeliverStep ==
  ASSUME SafetyInv, NEW w \in Workers, NEW k \in Kinds, at[w] = "send", IsNext(w, k),
         ProviderTakes(NextPiece(w, k)), status' = status
  PROVE  Promise!Next
<1> DEFINE m == msg[w]
           p == <<k, cur[w][k] + 1>>
<1>1. m \in Msgs /\ cur[w] \in [Kinds -> Nat]
  BY DEF SafetyInv, TypeInv, TypeOK, Busy
<1>2. p \in PiecesOf(m)
  <2>1. cur[w][k] + 1 \in 1 .. Size(m, k)
    BY <1>1, SizeIsNat DEF IsNext
  <2> QED
    BY <2>1 DEF PiecesOf
<1>3. \A q \in PiecesBefore(m, p) : <<m, q>> \in accepted
  <2> SUFFICES ASSUME NEW q \in PiecesBefore(m, p) PROVE <<m, q>> \in accepted
    OBVIOUS
  <2>1. <<m, q>> \in accepted'
    <3>1. PiecesInOrder'
      BY SendInOrder
    <3>2. <<m, p>> \in accepted'
      BY DEF ProviderTakes, NextPiece
    <3> QED
      BY <1>1, <1>2, <3>1, <3>2 DEF PiecesInOrder, PiecesOf, PiecesBefore, Size
  <2>2. q # p
    BY <1>1 DEF PiecesBefore
  <2> QED
    BY <2>1, <2>2 DEF ProviderTakes, NextPiece
<1>4. accepted' = accepted \cup {<<m, p>>} /\ SentRows' = SentRows
  BY DEF ProviderTakes, NextPiece, SentRows
<1>5. Promise!Deliver(m, p)
  BY <1>3, <1>4 DEF Promise!Deliver
<1> QED
  BY <1>1, <1>2, <1>5 DEF Promise!Next

LEMMA StepKeepsPromise == SafetyInv /\ [Next]_vars => [Promise!Next]_<<accepted, SentRows>>
<1> SUFFICES ASSUME SafetyInv, [Next]_vars PROVE [Promise!Next]_<<accepted, SentRows>>
  OBVIOUS
<1>1. TypeInv
  BY DEF SafetyInv
<1> USE DEF rowVars, jobVars, execVars
<1>2. CASE accepted' = accepted /\ status' = status
  BY <1>2 DEF SentRows
<1>3. ASSUME NEW w \in Workers, NEW k \in Kinds, SendPiece(w, k) \/ SendAckLost(w, k)
      PROVE Promise!Next
  BY <1>3, DeliverStep DEF SendPiece, SendAckLost
<1>4. ASSUME NEW w \in Workers, MarkDispatchSent(w) PROVE Promise!Next
  <2>1. /\ at[w] = "send" /\ AllOut(w) /\ msg[w] \in Msgs /\ accepted' = accepted
        /\ status' = [status EXCEPT ![msg[w]] = "sent"]
    BY <1>1, <1>4 DEF MarkDispatchSent, TypeInv, Busy
  <2>2. \A p \in PiecesOf(msg[w]) : <<msg[w], p>> \in accepted
    BY <2>1, AllOutIsComplete
  <2>3. SentRows' = SentRows \cup {msg[w]}
    BY <1>1, <2>1 DEF SentRows, TypeInv, TypeOK
  <2>4. Promise!Confirm(msg[w])
    BY <2>1, <2>2, <2>3 DEF Promise!Confirm
  <2> QED
    BY <2>1, <2>4 DEF Promise!Next
<1>5. ASSUME NEW w \in Workers, MarkProcessingAttempt(w) \/ MarkDispatchFailed(w)
      PROVE Promise!Next
  <2>1. /\ msg[w] \in Msgs /\ accepted' = accepted
        /\ \E s \in {"processing", "failed"} : status' = [status EXCEPT ![msg[w]] = s]
    BY <1>1, <1>5 DEF MarkProcessingAttempt, MarkDispatchFailed, TypeInv, Busy
  <2> QED
    BY <1>1, <2>1, ReopenStep DEF Statuses
<1>6. ASSUME NEW m \in Msgs, DeliveryFailed(m) \/ RowDeleted(m) PROVE Promise!Next
  <2>1. /\ accepted' = accepted
        /\ \E s \in {"failed", "gone"} : status' = [status EXCEPT ![m] = s]
    BY <1>6 DEF DeliveryFailed, RowDeleted
  <2> QED
    BY <1>1, <2>1, ReopenStep DEF Statuses
<1>7. \/ accepted' = accepted /\ status' = status
      \/ \E w \in Workers : \/ \E k \in Kinds : SendPiece(w, k) \/ SendAckLost(w, k)
                            \/ MarkDispatchSent(w)
                            \/ MarkProcessingAttempt(w) \/ MarkDispatchFailed(w)
      \/ \E m \in Msgs : DeliveryFailed(m) \/ RowDeleted(m)
  <2>1. ASSUME NEW w \in Workers,
               \/ SkipIfSent(w) \/ Load(w) \/ ReserveSlot(w) \/ MoveToDelayed(w)
               \/ CreateLog(w) \/ WriteFails(w)
               \/ CreateFailLog(w) \/ CatchFails(w) \/ FailsOutsideTry(w) \/ Throw(w) \/ Crash(w)
               \/ \E k \in Kinds : SendRejected(w, k)
               \/ \E k \in {"text", "media"} : SavePiece(w, k)
               \/ \E m \in Msgs : Pick(w, m)
        PROVE accepted' = accepted /\ status' = status
    BY <2>1 DEF SkipIfSent, Load, ReserveSlot, MoveToDelayed, CreateLog, WriteFails, CreateFailLog, CatchFails,
                FailsOutsideTry, Throw, Crash, SendRejected, SavePiece, Pick
  <2>2. ASSUME NEW m \in Msgs, Add(m) \/ Stalled(m) \/ LockLost(m)
        PROVE accepted' = accepted /\ status' = status
    BY <2>2 DEF Add, Stalled, LockLost, Reclaim
  <2> QED
    BY <2>1, <2>2 DEF Next, Proceed, vars
<1> QED
  BY <1>2, <1>3, <1>4, <1>5, <1>6, <1>7

\* Every behaviour of the worker, faults included, is one the promise allows.
THEOREM WorkerKeepsPromise == Spec => KeepsPromise
<1>1. Init => Promise!Init
  BY DEF Init, Promise!Init, SentRows
<1> QED
  BY <1>1, InitSafe, StepSafe, StepKeepsPromise, PTL DEF Spec, KeepsPromise, Promise!Spec

-----------------------------------------------------------------------------
(* As long as executions of a job do not overlap, the row, the job and the   *)
(* one execution there is account for everything that was sent.  None of     *)
(* ResendIsExplained, GivingUpIsBooked and SentIsNotReopened is inductive    *)
(* without the others: each rests on the row saying what the last execution  *)
(* did, which the next one takes its cursors from.                           *)

\* An e-mail is the one piece of its row, and has no counter in it.
MailIsOne ==
  /\ \A m \in Msgs, i \in Nat : <<m, <<"mail", i>>>> \in accepted => m \in Email /\ i = 1
  /\ \A m \in Msgs : progress[m]["mail"] = 0
  /\ \A w \in Workers : /\ cur[w]["mail"] \in {0, 1}
                        /\ at[w] = "save" => msg[w] \notin Email
                        /\ at[w] = "log" /\ msg[w] \in Email => cur[w]["mail"] = 1

Marked(m) == status[m] \in {"failed", "gone"}
MailOf(m) == <<m, <<"mail", 1>>>>
Mailing(w) == at[w] = "send" /\ cur[w]["mail"] = 1
Saving(w, k, i) == at[w] = "save" /\ IsNext(w, k) /\ i = cur[w][k] + 1

\* An execution that holds its row m alone: it has not met a row that says sent,
\* it counts what the row counts, and what it has yet to send was never sent, or
\* that is on record.
Honest(w, m) ==
  /\ owner[m] = w /\ job[m] = "active"
  /\ at[w] \in {"mark", "delay"} => status[m] # "sent"
  /\ at[w] \in {"mark", "delay", "send", "save"} =>
       \A k \in {"text", "media"} : cur[w][k] = progress[m][k]
  /\ (at[w] \in {"mark", "delay", "send"} /\ cur[w]["mail"] = 0) \/ at[w] = "catch" =>
       (MailOf(m) \in accepted => MailOf(m) \in unrecorded)
  /\ at[w] = "failLog" => Marked(m)
  /\ at[w] = "throw" /\ ~unbooked[m] => Marked(m)

\* A piece that was sent is on record, in the row, or in the hands of the execution
\* that sent it; and a job that was given up left its mark.
RowRemembers(m) ==
  /\ MailOf(m) \in accepted =>
       \/ MailOf(m) \in unrecorded \/ status[m] \in {"sent", "gone"}
       \/ \E w \in Workers : msg[w] = m /\ Mailing(w)
  /\ \A k \in {"text", "media"}, i \in Nat : <<m, <<k, i>>>> \in accepted =>
       \/ <<m, <<k, i>>>> \in unrecorded \/ i <= progress[m][k]
       \/ \E w \in Workers : msg[w] = m /\ Saving(w, k, i)
  /\ job[m] = "failed" /\ ~unbooked[m] => Marked(m)

Accounted(m) == /\ \A w \in Workers : Alive(w, m) => Honest(w, m)
                /\ RowRemembers(m)

AccountInv == /\ TypeInv /\ MailIsOne
              /\ \A m \in Msgs : ~overlap[m] => Accounted(m)
              /\ ResendIsExplained

\* The steps that touch no e-mail piece and move no execution to save or log.
LEMMA MailQuiet ==
  ASSUME TypeInv, MailIsOne, accepted' = accepted, progress' = progress,
         \A w \in Workers :
           \/ cur'[w] = NothingSent /\ at'[w] \notin {"save", "log"}
           \/ /\ cur'[w] = cur[w] /\ msg'[w] = msg[w]
              /\ at'[w] \in {"save", "log"} => at'[w] = at[w]
           \/ /\ at'[w] = "mark" /\ msg[w] \in Msgs /\ cur'[w] = progress[msg[w]]
  PROVE  MailIsOne'
  BY DEF MailIsOne, NothingSent, Kinds

\* A piece that is next, of an e-mail, is its only one.
LEMMA NextMail ==
  ASSUME TypeInv, MailIsOne, NEW w \in Workers, NEW k \in Kinds, at[w] # "idle", IsNext(w, k)
  PROVE  /\ k = "mail" => cur[w]["mail"] = 0 /\ NextPiece(w, k) = MailOf(msg[w])
         /\ msg[w] \in Email <=> k = "mail"
<1>1. cur[w][k] \in Nat /\ Size(msg[w], k) \in Nat /\ msg[w] \in Msgs /\ cur[w][k] < Size(msg[w], k)
  BY SizeIsNat DEF TypeInv, TypeOK, Busy, IsNext
<1>2. msg[w] \in Email <=> k = "mail"
  BY <1>1 DEF Size, Kinds
<1>3. k = "mail" => cur[w][k] = 0
  BY <1>1 DEF Size
<1> QED
  BY <1>2, <1>3 DEF NextPiece, MailOf

LEMMA MailSent ==
  ASSUME TypeInv, TypeInv', MailIsOne, NEW w \in Workers, NEW k \in Kinds,
         at[w] = "send", IsNext(w, k), ProviderTakes(NextPiece(w, k)),
         progress' = progress, msg' = msg,
         \/ cur' = cur /\ at' = [at EXCEPT ![w] = "catch"]
         \/ k = "mail" /\ cur' = [cur EXCEPT ![w]["mail"] = 1] /\ at' = at
         \/ k # "mail" /\ cur' = cur /\ at' = [at EXCEPT ![w] = "save"]
  PROVE  MailIsOne'
<1>1. msg[w] \in Msgs /\ cur \in [Workers -> [Kinds -> Nat]] /\ at \in [Workers -> Steps]
  BY DEF TypeInv, TypeOK, Busy
<1>2. \A m \in Msgs, i \in Nat : <<m, <<"mail", i>>>> \in accepted' => m \in Email /\ i = 1
  BY NextMail DEF MailIsOne, ProviderTakes, NextPiece, MailOf
<1>3. \A v \in Workers : /\ cur'[v]["mail"] \in {0, 1}
                         /\ at'[v] = "save" => msg'[v] \notin Email
                         /\ at'[v] = "log" /\ msg'[v] \in Email => cur'[v]["mail"] = 1
  BY <1>1, NextMail DEF MailIsOne, Kinds
<1> QED
  BY <1>2, <1>3 DEF MailIsOne

LEMMA MailStep == TypeInv /\ TypeInv' /\ MailIsOne /\ [Next]_vars => MailIsOne'
<1> SUFFICES ASSUME TypeInv, TypeInv', MailIsOne, [Next]_vars PROVE MailIsOne'
  OBVIOUS
<1> USE DEF rowVars, jobVars, execVars, vars
<1>1. CASE UNCHANGED vars
  BY <1>1 DEF MailIsOne
<1>2. ASSUME NEW w \in Workers, NEW k \in Kinds, SendPiece(w, k) \/ SendAckLost(w, k) PROVE MailIsOne'
  BY <1>2, MailSent DEF SendPiece, SendAckLost
<1>3. ASSUME NEW w \in Workers, NEW k \in {"text", "media"}, SavePiece(w, k) PROVE MailIsOne'
  <2>1. /\ msg[w] \in Msgs /\ progress \in [Msgs -> [Kinds -> Nat]] /\ cur \in [Workers -> [Kinds -> Nat]]
        /\ at \in [Workers -> Steps] /\ msg' = msg /\ accepted' = accepted
    BY <1>3 DEF SavePiece, TypeInv, TypeOK, Busy
  <2>2. \A m \in Msgs : progress'[m]["mail"] = progress[m]["mail"]
    BY <1>3, <2>1 DEF SavePiece, Kinds
  <2>3. \A v \in Workers : cur'[v]["mail"] = cur[v]["mail"] /\ at'[v] \in {at[v], "send"}
    BY <1>3, <2>1 DEF SavePiece, Kinds
  <2> QED
    BY <2>1, <2>2, <2>3 DEF MailIsOne
<1>4. ASSUME NEW w \in Workers, MarkDispatchSent(w) PROVE MailIsOne'
  <2>1. /\ at \in [Workers -> Steps] /\ at' = [at EXCEPT ![w] = "log"] /\ AllOut(w)
        /\ cur' = cur /\ msg' = msg /\ accepted' = accepted /\ progress' = progress
    BY <1>4 DEF MarkDispatchSent, TypeInv, TypeOK
  <2>2. msg[w] \in Email => cur[w]["mail"] = 1
    BY <2>1 DEF AllOut, Size, Kinds, MailIsOne
  <2> QED
    BY <2>1, <2>2 DEF MailIsOne
<1>5. ASSUME NEW w \in Workers, Load(w) PROVE MailIsOne'
  <2>1. msg[w] \in Msgs /\ cur \in [Workers -> [Kinds -> Nat]] /\ at \in [Workers -> Steps]
    BY <1>5 DEF Load, TypeInv, TypeOK, Busy
  <2> QED
    BY <1>5, <2>1, MailQuiet DEF Load
<1>6. ASSUME NEW w \in Workers, \/ SkipIfSent(w) \/ MoveToDelayed(w) \/ CreateLog(w)
                                \/ Throw(w) \/ Crash(w)
      PROVE MailIsOne'
  <2>1. Leave(w) /\ accepted' = accepted /\ progress' = progress
    BY <1>6 DEF SkipIfSent, MoveToDelayed, CreateLog, Throw, Crash, Complete
  <2>2. \A v \in Workers : \/ cur'[v] = NothingSent /\ at'[v] \notin {"save", "log"}
                           \/ cur'[v] = cur[v] /\ msg'[v] = msg[v] /\ at'[v] = at[v]
    BY <2>1 DEF Leave, TypeInv, TypeOK
  <2> QED
    BY <2>1, <2>2, MailQuiet
<1>7. ASSUME NEW w \in Workers,
             \/ ReserveSlot(w) \/ MarkProcessingAttempt(w) \/ WriteFails(w) \/ MarkDispatchFailed(w)
             \/ CreateFailLog(w) \/ CatchFails(w) \/ FailsOutsideTry(w)
             \/ \E k \in Kinds : SendRejected(w, k)
      PROVE MailIsOne'
  <2>1. /\ accepted' = accepted /\ progress' = progress /\ cur' = cur /\ msg' = msg
        /\ \E s \in Steps \ {"save", "log"} : at' = [at EXCEPT ![w] = s]
    BY <1>7 DEF ReserveSlot, MarkProcessingAttempt, WriteFails, MarkDispatchFailed, CreateFailLog,
                CatchFails, FailsOutsideTry, SendRejected, Steps
  <2>2. \A v \in Workers : at'[v] \in {"save", "log"} => at'[v] = at[v]
    BY <2>1 DEF TypeInv, TypeOK
  <2> QED
    BY <2>1, <2>2, MailQuiet
<1>8. ASSUME NEW w \in Workers, NEW m \in Msgs, Pick(w, m) PROVE MailIsOne'
  <2>1. /\ accepted' = accepted /\ progress' = progress /\ cur' = cur
        /\ at' = [at EXCEPT ![w] = "load"] /\ msg' = [msg EXCEPT ![w] = m]
        /\ at \in [Workers -> Steps] /\ msg \in [Workers -> Msgs \cup {NoMsg}]
    BY <1>8 DEF Pick, TypeInv, TypeOK
  <2> QED
    BY <2>1 DEF MailIsOne
<1>9. ASSUME NEW m \in Msgs, \/ Add(m) \/ Stalled(m) \/ LockLost(m)
                             \/ DeliveryFailed(m) \/ RowDeleted(m)
      PROVE MailIsOne'
  <2>1. accepted' = accepted /\ progress' = progress /\ cur' = cur /\ msg' = msg /\ at' = at
    BY <1>9 DEF Add, Stalled, LockLost, Reclaim, DeliveryFailed, RowDeleted
  <2> QED
    BY <2>1, MailQuiet
<1> QED
  BY <1>1, <1>2, <1>3, <1>4, <1>5, <1>6, <1>7, <1>8, <1>9 DEF Next, Proceed

\* A step of w on its row leaves the other rows and executions alone.
WorksOn(w) ==
  /\ \A v \in Workers \ {w} : at'[v] = at[v] /\ msg'[v] = msg[v] /\ cur'[v] = cur[v]
  /\ at'[w] = "idle" \/ msg'[w] = msg[w]
  /\ \A r \in Msgs \ {msg[w]} :
       /\ status'[r] = status[r] /\ progress'[r] = progress[r] /\ job'[r] = job[r]
       /\ owner'[r] = owner[r] /\ unbooked'[r] = unbooked[r]
       /\ \A p \in Kinds \X Nat : <<r, p>> \in accepted' => <<r, p>> \in accepted
  /\ unrecorded \subseteq unrecorded' /\ overlap' = overlap

\* What holds of an execution and its row depends on the two only.
LEMMA HonestFrame ==
  ASSUME NEW w \in Workers, NEW m \in Msgs, Honest(w, m), at[w] # "idle",
         at'[w] = at[w], msg'[w] = msg[w], cur'[w] = cur[w],
         status'[m] = status[m], progress'[m] = progress[m], job'[m] = job[m],
         owner'[m] = owner[m], unbooked'[m] = unbooked[m],
         \A p \in Kinds \X Nat : <<m, p>> \in accepted' => <<m, p>> \in accepted,
         unrecorded \subseteq unrecorded'
  PROVE  Honest(w, m)'
<1>1. MailOf(m) \in accepted' => MailOf(m) \in accepted
  BY DEF MailOf, Kinds
<1> QED
  BY <1>1 DEF Honest, Marked, MailOf

LEMMA RemembersFrame ==
  ASSUME NEW m \in Msgs, RowRemembers(m),
         status'[m] \in {status[m], "gone"}, progress'[m] = progress[m],
         job'[m] = "failed" /\ ~unbooked'[m] => Marked(m)',
         \A p \in Kinds \X Nat : <<m, p>> \in accepted' => <<m, p>> \in accepted,
         unrecorded \subseteq unrecorded',
         \A v \in Workers : msg[v] = m /\ at[v] \in {"send", "save"} =>
           \/ at'[v] = at[v] /\ msg'[v] = msg[v] /\ cur'[v] = cur[v]
           \/ InFlight(v) \subseteq unrecorded'
  PROVE  RowRemembers(m)'
<1>1. MailOf(m)' = MailOf(m) /\ (MailOf(m) \in accepted' => MailOf(m) \in accepted)
  BY DEF MailOf, Kinds
<1>2. \A v \in Workers : msg[v] = m /\ Mailing(v) =>
        MailOf(m) \in unrecorded' \/ (msg'[v] = m /\ Mailing(v)')
  BY DEF Mailing, InFlight, Mailed, MailOf
<1>3. ASSUME NEW v \in Workers, NEW k \in {"text", "media"}, NEW i \in Nat,
             msg[v] = m, Saving(v, k, i)
      PROVE  <<m, <<k, i>>>> \in unrecorded' \/ (msg'[v] = m /\ Saving(v, k, i)')
  <2>1. CASE at'[v] = at[v] /\ msg'[v] = msg[v] /\ cur'[v] = cur[v]
    BY <1>3, <2>1 DEF Saving, IsNext, Size
  <2>2. CASE InFlight(v) \subseteq unrecorded'
    BY <1>3, <2>2 DEF Saving, InFlight, NextPiece
  <2> QED
    BY <1>3, <2>1, <2>2 DEF Saving
<1>4. MailOf(m) \in accepted' =>
         \/ MailOf(m) \in unrecorded' \/ status'[m] \in {"sent", "gone"}
         \/ \E w \in Workers : msg'[w] = m /\ Mailing(w)'
  BY <1>1, <1>2 DEF RowRemembers
<1>5. ASSUME NEW k \in {"text", "media"}, NEW i \in Nat, <<m, <<k, i>>>> \in accepted'
      PROVE  \/ <<m, <<k, i>>>> \in unrecorded' \/ i <= progress'[m][k]
             \/ \E w \in Workers : msg'[w] = m /\ Saving(w, k, i)'
  BY <1>3, <1>5 DEF RowRemembers, Kinds
<1> QED
  BY <1>1, <1>4, <1>5 DEF RowRemembers

\* So a step of w has to account for its own row only, and there w is alone.
LEMMA OwnRow ==
  ASSUME TypeInv, NEW w \in Workers, at[w] # "idle", WorksOn(w),
         \A m \in Msgs : ~overlap[m] => Accounted(m),
         NEW x \in Msgs, msg[w] = x,
         ~overlap[x] => /\ at'[w] # "idle" => Honest(w, x)'
                        /\ RowRemembers(x)'
  PROVE  \A m \in Msgs : ~overlap'[m] => Accounted(m)'
<1> SUFFICES ASSUME NEW m \in Msgs, ~overlap[m] PROVE Accounted(m)'
  BY DEF WorksOn
<1>1. Accounted(m)
  OBVIOUS
<1>2. CASE m = x
  <2>1. \A v \in Workers \ {w} : ~Alive(v, m)'
    BY <1>1, <1>2 DEF Accounted, Alive, Honest, WorksOn
  <2>2. Alive(w, m)' => Honest(w, m)'
    BY <1>2 DEF Alive
  <2> QED
    BY <1>2, <2>1, <2>2 DEF Accounted
<1>3. CASE m # x
  <2>1. \A v \in Workers : Alive(v, m)' => Alive(v, m) /\ v # w
    BY <1>3 DEF Alive, WorksOn
  <2>2. ASSUME NEW v \in Workers, Alive(v, m)' PROVE Honest(v, m)'
    <3>1. Honest(v, m) /\ at[v] # "idle" /\ v # w
      BY <1>1, <2>1, <2>2 DEF Accounted, Alive
    <3> QED
      BY <1>3, <3>1, HonestFrame DEF WorksOn
  <2>3. job'[m] = "failed" /\ ~unbooked'[m] => Marked(m)'
    BY <1>1, <1>3 DEF Accounted, RowRemembers, Marked, WorksOn
  <2>4. RowRemembers(m)'
    BY <1>1, <1>3, <2>3, RemembersFrame DEF Accounted, WorksOn
  <2> QED
    BY <2>2, <2>4 DEF Accounted
<1> QED
  BY <1>2, <1>3

\* What an execution may take for granted of its row, when it is alone there.
LEMMA Alone ==
  ASSUME NEW w \in Workers, at[w] # "idle", NEW m \in Msgs, msg[w] = m, ~overlap[m],
         \A r \in Msgs : ~overlap[r] => Accounted(r)
  PROVE  /\ Honest(w, m) /\ RowRemembers(m)
         /\ \A v \in Workers : msg[v] = m /\ at[v] # "idle" => v = w
  BY DEF Accounted, Alive, Honest

\* The execution ends: nothing it had sent is forgotten.
LEMMA LeaveAccounted ==
  ASSUME TypeInv, NEW w \in Workers, at[w] # "idle", Leave(w),
         \A m \in Msgs : ~overlap[m] => Accounted(m),
         NEW x \in Msgs, msg[w] = x,
         status' = status, progress' = progress, accepted' = accepted,
         unbooked' = unbooked, overlap' = overlap, unrecorded \subseteq unrecorded',
         at[w] \in {"send", "save"} => InFlight(w) \subseteq unrecorded',
         \A r \in Msgs \ {x} : job'[r] = job[r] /\ owner'[r] = owner[r],
         job'[x] = "failed" => job[x] = "failed" \/ at[w] = "throw"
  PROVE  \A m \in Msgs : ~overlap'[m] => Accounted(m)'
<1>1. WorksOn(w)
  BY DEF WorksOn, Leave, TypeInv, TypeOK
<1>2. at'[w] = "idle"
  BY DEF Leave, TypeInv, TypeOK
<1>3. ASSUME ~overlap[x] PROVE RowRemembers(x)'
  <2>1. Honest(w, x) /\ RowRemembers(x) /\ \A v \in Workers : msg[v] = x /\ at[v] # "idle" => v = w
    BY <1>3, Alone
  <2>2. job'[x] = "failed" /\ ~unbooked'[x] => Marked(x)'
    BY <2>1 DEF Honest, RowRemembers, Marked
  <2> QED
    BY <2>1, <2>2, RemembersFrame
<1> QED
  BY <1>1, <1>2, <1>3, OwnRow

LEMMA EndsAccounted ==
  ASSUME TypeInv, NEW w \in Workers,
         SkipIfSent(w) \/ MoveToDelayed(w) \/ CreateLog(w) \/ Throw(w) \/ Crash(w),
         \A m \in Msgs : ~overlap[m] => Accounted(m)
  PROVE  \A m \in Msgs : ~overlap'[m] => Accounted(m)'
<1>1. PICK x \in Msgs : msg[w] = x /\ at[w] # "idle"
  BY DEF TypeInv, Busy, SkipIfSent, MoveToDelayed, CreateLog, Throw, Crash
<1>2. /\ Leave(w) /\ status' = status /\ progress' = progress /\ accepted' = accepted
      /\ unbooked' = unbooked /\ overlap' = overlap /\ unrecorded \subseteq unrecorded'
  BY DEF SkipIfSent, MoveToDelayed, CreateLog, Throw, Crash, Complete, rowVars
<1>3. at[w] \in {"send", "save"} => InFlight(w) \subseteq unrecorded'
  BY DEF SkipIfSent, MoveToDelayed, CreateLog, Throw, Crash
<1>4. \/ job' = job /\ owner' = owner
      \/ /\ owner' = [owner EXCEPT ![x] = NoWorker]
         /\ \/ job' = [job EXCEPT ![x] = "completed"] \/ job' = [job EXCEPT ![x] = "waiting"]
            \/ job' = [job EXCEPT ![x] = "failed"] /\ at[w] = "throw"
  BY <1>1 DEF SkipIfSent, MoveToDelayed, CreateLog, Throw, Crash, Complete, jobVars
<1>5. job \in [Msgs -> JobStates] /\ owner \in [Msgs -> Workers \cup {NoWorker}]
  BY DEF TypeInv, TypeOK
<1>6. /\ \A r \in Msgs \ {x} : job'[r] = job[r] /\ owner'[r] = owner[r]
      /\ job'[x] = "failed" => job[x] = "failed" \/ at[w] = "throw"
  BY <1>1, <1>4, <1>5
<1> QED
  BY <1>1, <1>2, <1>3, <1>6, LeaveAccounted

\* The execution goes on to another await, and neither saves nor sends a piece.
LEMMA GoesOn ==
  ASSUME TypeInv, NEW w \in Workers, at[w] # "idle",
         \A m \in Msgs : ~overlap[m] => Accounted(m),
         NEW x \in Msgs, msg[w] = x,
         NEW s \in Steps \ {"idle"}, at' = [at EXCEPT ![w] = s], msg' = msg,
         \A v \in Workers \ {w} : cur'[v] = cur[v],
         \A r \in Msgs \ {x} : status'[r] = status[r] /\ unbooked'[r] = unbooked[r],
         progress' = progress, job' = job, owner' = owner, accepted' = accepted,
         overlap' = overlap, unrecorded \subseteq unrecorded',
         ~overlap[x] /\ Honest(w, x) /\ RowRemembers(x) /\ job[x] = "active"
           /\ (\A v \in Workers : msg[v] = x /\ at[v] # "idle" => v = w)
           => Honest(w, x)' /\ RowRemembers(x)'
  PROVE  \A m \in Msgs : ~overlap'[m] => Accounted(m)'
<1>1. WorksOn(w)
  BY DEF WorksOn, TypeInv, TypeOK
<1>2. ~overlap[x] => Honest(w, x)' /\ RowRemembers(x)'
  <2> SUFFICES ASSUME ~overlap[x] PROVE Honest(w, x)' /\ RowRemembers(x)'
    OBVIOUS
  <2>1. Honest(w, x) /\ RowRemembers(x) /\ \A v \in Workers : msg[v] = x /\ at[v] # "idle" => v = w
    BY Alone
  <2> QED
    BY <2>1 DEF Honest
<1> QED
  BY <1>1, <1>2, OwnRow

LEMMA LoadAccounted ==
  ASSUME TypeInv, MailIsOne, NEW w \in Workers, Load(w),
         \A m \in Msgs : ~overlap[m] => Accounted(m)
  PROVE  \A m \in Msgs : ~overlap'[m] => Accounted(m)'
<1>1. PICK x \in Msgs : msg[w] = x /\ at[w] = "load"
  BY DEF TypeInv, Busy, Load
<1>2. /\ at' = [at EXCEPT ![w] = "mark"] /\ cur' = [cur EXCEPT ![w] = progress[x]] /\ msg' = msg
      /\ status' = status /\ progress' = progress /\ job' = job /\ owner' = owner
      /\ unbooked' = unbooked /\ accepted' = accepted /\ unrecorded' = unrecorded
      /\ overlap' = overlap /\ status[x] \notin {"sent", "gone"}
  BY <1>1 DEF Load, rowVars, jobVars
<1>3. cur'[w] = progress[x] /\ at'[w] = "mark" /\ \A v \in Workers \ {w} : cur'[v] = cur[v]
  BY <1>1, <1>2 DEF TypeInv, TypeOK
<1>4. ASSUME Honest(w, x), RowRemembers(x), job[x] = "active",
             \A v \in Workers : msg[v] = x /\ at[v] # "idle" => v = w
      PROVE Honest(w, x)' /\ RowRemembers(x)'
  <2>1. MailOf(x) \in accepted => MailOf(x) \in unrecorded
    BY <1>1, <1>2, <1>4 DEF RowRemembers, Mailing
  <2>2. Honest(w, x)'
    BY <1>2, <1>3, <1>4, <2>1 DEF Honest, MailOf
  <2>3. RowRemembers(x)'
    BY <1>1, <1>2, <1>4, RemembersFrame
  <2> QED
    BY <2>2, <2>3
<1> QED
  BY <1>1, <1>2, <1>3, <1>4, GoesOn DEF Steps

\* The steps that only move the execution on, or mark its row.
LEMMA MovesAccounted ==
  ASSUME TypeInv, MailIsOne, NEW w \in Workers,
         \/ ReserveSlot(w) \/ MarkProcessingAttempt(w) \/ MarkDispatchFailed(w)
         \/ CreateFailLog(w) \/ CatchFails(w) \/ FailsOutsideTry(w),
         \A m \in Msgs : ~overlap[m] => Accounted(m)
  PROVE  \A m \in Msgs : ~overlap'[m] => Accounted(m)'
<1>1. PICK x \in Msgs : msg[w] = x /\ at[w] \notin {"idle", "send", "save", "log"}
  BY DEF TypeInv, Busy, ReserveSlot, MarkProcessingAttempt, MarkDispatchFailed, CreateFailLog,
         CatchFails, FailsOutsideTry
<1>2. /\ cur' = cur /\ msg' = msg /\ progress' = progress /\ job' = job /\ owner' = owner
      /\ accepted' = accepted /\ unrecorded' = unrecorded /\ overlap' = overlap
  BY DEF ReserveSlot, MarkProcessingAttempt, MarkDispatchFailed, CreateFailLog,
         CatchFails, FailsOutsideTry, rowVars, jobVars
<1>3. /\ at \in [Workers -> Steps] /\ status \in [Msgs -> Statuses] /\ unbooked \in [Msgs -> BOOLEAN]
  BY DEF TypeInv, TypeOK
<1>4. PICK s \in {"delay", "send", "catch", "failLog", "throw"} : at' = [at EXCEPT ![w] = s]
  BY DEF ReserveSlot, MarkProcessingAttempt, MarkDispatchFailed, CreateFailLog, CatchFails, FailsOutsideTry
<1>5. \A r \in Msgs \ {x} : status'[r] = status[r] /\ unbooked'[r] = unbooked[r]
  BY <1>1, <1>3 DEF ReserveSlot, MarkProcessingAttempt, MarkDispatchFailed, CreateFailLog,
                    CatchFails, FailsOutsideTry, rowVars
<1>6. /\ \/ status'[x] = status[x]
         \/ at[w] = "mark" /\ status[x] # "gone" /\ status'[x] = "processing"
         \/ at[w] = "catch" /\ s = "failLog" /\ status'[x] = "failed"
      /\ s = "delay" => at[w] = "mark"
      /\ s = "send" => at[w] = "mark"
      /\ s = "catch" => at[w] = "mark" /\ x \notin Email
      /\ s = "failLog" => status'[x] = "failed"
      /\ s = "throw" => unbooked'[x] \/ (at[w] = "failLog" /\ unbooked'[x] = unbooked[x])
  <2>1. at'[w] = s
    BY <1>3, <1>4
  <2>2. CASE ReserveSlot(w)
    BY <1>1, <1>3, <2>1, <2>2 DEF ReserveSlot, rowVars
  <2>3. CASE MarkProcessingAttempt(w)
    BY <1>1, <1>3, <2>1, <2>3 DEF MarkProcessingAttempt
  <2>4. CASE MarkDispatchFailed(w) \/ CreateFailLog(w)
    BY <1>1, <1>3, <2>1, <2>4 DEF MarkDispatchFailed, CreateFailLog, rowVars
  <2>5. CASE CatchFails(w) \/ FailsOutsideTry(w)
    <3>1. s = "throw" /\ status' = status
      BY <2>1, <2>5, <1>1, <1>3 DEF CatchFails, FailsOutsideTry, rowVars
    <3>2. unbooked'[x] \/ (at[w] = "failLog" /\ unbooked'[x] = unbooked[x])
      <4>1. CASE FailsOutsideTry(w)
        <5>1. unbooked'[x] = TRUE
          BY <4>1, <1>1, <1>3 DEF FailsOutsideTry
        <5> QED
          BY <5>1
      <4>2. CASE CatchFails(w)
        <5>1. /\ at[w] \in {"catch", "failLog"}
              /\ unbooked'[x] = (unbooked[x] \/ at[w] = "catch")
          BY <4>2, <1>1, <1>3 DEF CatchFails
        <5>2. CASE at[w] = "catch"
          <6>1. unbooked'[x] = TRUE
            BY <5>1, <5>2
          <6> QED
            BY <6>1
        <5>3. CASE at[w] = "failLog"
          <6>1. unbooked[x] \in BOOLEAN /\ at[w] # "catch"
            BY <1>3, <5>3
          <6>2. unbooked'[x] = unbooked[x]
            BY <5>1, <6>1, Zenon
          <6> QED
            BY <5>3, <6>2
        <5> QED
          BY <5>1, <5>2, <5>3
      <4> QED
        BY <2>5, <4>1, <4>2
    <3> QED
      BY <3>1, <3>2
  <2> QED
    BY <2>2, <2>3, <2>4, <2>5
<1>7. ASSUME Honest(w, x), RowRemembers(x), job[x] = "active",
             \A v \in Workers : msg[v] = x /\ at[v] # "idle" => v = w
      PROVE Honest(w, x)' /\ RowRemembers(x)'
  <2>1. at'[w] = s
    BY <1>3, <1>4
  <2>2. x \notin Email => MailOf(x) \notin accepted
    BY DEF MailIsOne, MailOf
  <2>3. Honest(w, x)'
    <3>1. s = "throw" /\ ~unbooked'[x] => Marked(x)'
      BY <1>6, <1>7 DEF Honest, Marked
    <3>2. \/ at'[w] \in {"mark", "delay", "send"} /\ cur'[w]["mail"] = 0
          \/ at'[w] = "catch"
          => (MailOf(x) \in accepted => MailOf(x) \in unrecorded)
      BY <1>2, <1>4, <1>6, <1>7, <2>1, <2>2 DEF Honest
    <3>3. at'[w] \in {"mark", "delay", "send", "save"} => at[w] = "mark"
      BY <1>4, <1>6, <2>1
    <3>4. at'[w] \in {"mark", "delay"} => status'[x] # "sent"
      BY <1>4, <1>6, <1>7, <2>1 DEF Honest
    <3>5. at'[w] \in {"mark", "delay", "send", "save"} =>
            \A k \in {"text", "media"} : cur'[w][k] = progress'[x][k]
      BY <1>2, <1>7, <3>3 DEF Honest
    <3>6. at'[w] = "failLog" => Marked(x)'
      BY <1>6, <2>1 DEF Marked
    <3>7. owner'[x] = w /\ job'[x] = "active"
      BY <1>2, <1>7 DEF Honest
    <3>8. at'[w] = "throw" /\ ~unbooked'[x] => Marked(x)'
      BY <2>1, <3>1
    <3> QED
      BY <1>2, <3>2, <3>4, <3>5, <3>6, <3>7, <3>8 DEF Honest, MailOf
  <2>4. RowRemembers(x)'
    <3>1. \A v \in Workers : ~ (msg[v] = x /\ at[v] \in {"send", "save"})
      BY <1>1, <1>7
    <3>2. CASE status'[x] = status[x]
      BY <1>2, <1>7, <3>1, <3>2, RemembersFrame
    <3>3. CASE status'[x] # status[x]
      <4>1. MailOf(x) \in accepted => MailOf(x) \in unrecorded
        <5>1. at[w] = "catch" \/ at[w] = "mark"
          BY <1>6, <3>3
        <5>2. CASE at[w] = "catch"
          BY <1>7, <5>2 DEF Honest
        <5>3. CASE at[w] = "mark"
          <6>1. status[x] \notin {"sent", "gone"}
            BY <1>6, <1>7, <3>3, <5>3 DEF Honest
          <6> QED
            BY <1>7, <3>1, <6>1 DEF RowRemembers, Mailing
        <5> QED
          BY <5>1, <5>2, <5>3
      <4>2. ASSUME NEW k \in {"text", "media"}, NEW i \in Nat, <<x, <<k, i>>>> \in accepted
            PROVE <<x, <<k, i>>>> \in unrecorded \/ i <= progress[x][k]
        BY <1>7, <3>1, <4>2 DEF RowRemembers, Saving
      <4> QED
        BY <1>2, <1>7, <4>1, <4>2 DEF RowRemembers, MailOf
    <3> QED
      BY <3>2, <3>3
  <2> QED
    BY <2>3, <2>4
<1> QED
  BY <1>1, <1>2, <1>4, <1>5, <1>7, GoesOn DEF Steps

\* Marking the row sent, once everything is out.
LEMMA MarkSentAccounted ==
  ASSUME TypeInv, NEW w \in Workers, MarkDispatchSent(w),
         \A m \in Msgs : ~overlap[m] => Accounted(m)
  PROVE  \A m \in Msgs : ~overlap'[m] => Accounted(m)'
<1>1. PICK x \in Msgs : msg[w] = x /\ at[w] = "send"
  BY DEF TypeInv, Busy, MarkDispatchSent
<1>2. /\ at' = [at EXCEPT ![w] = "log"] /\ status' = [status EXCEPT ![x] = "sent"]
      /\ cur' = cur /\ msg' = msg /\ progress' = progress /\ job' = job /\ owner' = owner
      /\ unbooked' = unbooked /\ accepted' = accepted /\ unrecorded' = unrecorded
      /\ overlap' = overlap
  BY <1>1 DEF MarkDispatchSent, jobVars
<1>3. /\ at'[w] = "log" /\ status'[x] = "sent"
      /\ \A r \in Msgs \ {x} : status'[r] = status[r]
  BY <1>2 DEF TypeInv, TypeOK
<1>4. ASSUME Honest(w, x), RowRemembers(x), job[x] = "active",
             \A v \in Workers : msg[v] = x /\ at[v] # "idle" => v = w
      PROVE Honest(w, x)' /\ RowRemembers(x)'
  <2>1. Honest(w, x)'
    BY <1>2, <1>3, <1>4 DEF Honest
  <2>2. ASSUME NEW k \in {"text", "media"}, NEW i \in Nat, <<x, <<k, i>>>> \in accepted
        PROVE <<x, <<k, i>>>> \in unrecorded \/ i <= progress[x][k]
    BY <1>1, <1>4, <2>2 DEF RowRemembers, Saving
  <2>3. RowRemembers(x)'
    BY <1>2, <1>3, <1>4, <2>2 DEF RowRemembers
  <2> QED
    BY <2>1, <2>3
<1> QED
  BY <1>1, <1>2, <1>3, <1>4, GoesOn DEF Steps

\* The errors inside the try: what the provider took is on record before the catch.
LEMMA FailsAccounted ==
  ASSUME TypeInv, MailIsOne, NEW w \in Workers,
         WriteFails(w) \/ \E k \in Kinds : SendRejected(w, k),
         \A m \in Msgs : ~overlap[m] => Accounted(m)
  PROVE  \A m \in Msgs : ~overlap'[m] => Accounted(m)'
<1>1. PICK x \in Msgs : msg[w] = x /\ at[w] \in {"send", "save", "log"}
  BY DEF TypeInv, Busy, WriteFails, SendRejected
<1>2. /\ at' = [at EXCEPT ![w] = "catch"] /\ cur' = cur /\ msg' = msg /\ status' = status
      /\ progress' = progress /\ job' = job /\ owner' = owner /\ unbooked' = unbooked
      /\ accepted' = accepted /\ overlap' = overlap /\ unrecorded \subseteq unrecorded'
  BY DEF WriteFails, SendRejected, rowVars, jobVars
<1>3. at'[w] = "catch"
  BY <1>2 DEF TypeInv, TypeOK
<1>4. ASSUME x \in Email
      PROVE  \/ MailOf(x) \in unrecorded'
             \/ at[w] = "send" /\ cur[w]["mail"] = 0 /\ unrecorded' = unrecorded
  <2>1. CASE WriteFails(w)
    <3>1. at[w] # "save"
      BY <1>1, <1>4 DEF MailIsOne
    <3>2. cur[w]["mail"] = 1
      <4>1. CASE at[w] = "log"
        BY <1>1, <1>4, <4>1 DEF MailIsOne
      <4>2. CASE at[w] = "send"
        <5>1. cur[w]["mail"] >= Size(x, "mail")
          BY <1>1, <2>1, <4>2 DEF WriteFails, AllOut, Kinds
        <5>2. Size(x, "mail") = 1
          BY <1>4 DEF Size
        <5> QED
          BY <5>1, <5>2 DEF MailIsOne
      <4> QED
        BY <1>1, <3>1, <4>1, <4>2
    <3>3. MailOf(x) \in Mailed(w)
      BY <1>1, <3>2 DEF Mailed, MailOf
    <3> QED
      BY <1>1, <2>1, <3>1, <3>3 DEF WriteFails, InFlight
  <2>2. ASSUME NEW k \in Kinds, SendRejected(w, k)
        PROVE  at[w] = "send" /\ cur[w]["mail"] = 0 /\ unrecorded' = unrecorded
    BY <1>1, <1>4, <2>2, NextMail DEF SendRejected
  <2> QED
    BY <2>1, <2>2
<1>5. ASSUME at[w] \in {"send", "save"}, NEW k \in {"text", "media"}, NEW i \in Nat, Saving(w, k, i)
      PROVE  <<x, <<k, i>>>> \in unrecorded'
  <2>1. WriteFails(w)
    BY <1>5 DEF SendRejected, Saving
  <2> QED
    BY <1>1, <1>5, <2>1 DEF WriteFails, InFlight, Saving, NextPiece
<1>6. ASSUME Honest(w, x), RowRemembers(x), job[x] = "active",
             \A v \in Workers : msg[v] = x /\ at[v] # "idle" => v = w
      PROVE Honest(w, x)' /\ RowRemembers(x)'
  <2>1. MailOf(x) \in accepted => MailOf(x) \in unrecorded'
    <3>1. MailOf(x) \in accepted => x \in Email
      BY DEF MailIsOne, MailOf
    <3> QED
      BY <1>4, <1>6, <3>1 DEF Honest
  <2>2. Honest(w, x)'
    BY <1>2, <1>3, <1>6, <2>1 DEF Honest, MailOf
  <2>3. ASSUME NEW k \in {"text", "media"}, NEW i \in Nat, <<x, <<k, i>>>> \in accepted
        PROVE <<x, <<k, i>>>> \in unrecorded' \/ i <= progress[x][k]
    BY <1>1, <1>2, <1>5, <1>6, <2>3 DEF RowRemembers, Saving
  <2>4. RowRemembers(x)'
    BY <1>2, <1>6, <2>1, <2>3 DEF RowRemembers, MailOf, Marked
  <2> QED
    BY <2>2, <2>4
<1> QED
  BY <1>1, <1>2, <1>6, GoesOn DEF Steps

\* A piece goes out: by what the execution counts it never did, or that is on record.
LEMMA NotSentBefore ==
  ASSUME TypeInv, MailIsOne, NEW w \in Workers, NEW k \in Kinds, at[w] = "send", IsNext(w, k),
         NEW x \in Msgs, msg[w] = x, ~overlap[x], NextPiece(w, k) \in accepted,
         \A m \in Msgs : ~overlap[m] => Accounted(m)
  PROVE  NextPiece(w, k) \in unrecorded
<1>1. Honest(w, x) /\ RowRemembers(x) /\ \A v \in Workers : msg[v] = x /\ at[v] # "idle" => v = w
  BY Alone
<1>2. CASE k = "mail"
  BY <1>1, <1>2, NextMail DEF Honest
<1>3. CASE k # "mail"
  <2>1. k \in {"text", "media"} /\ cur[w][k] \in Nat /\ cur[w][k] = progress[x][k]
    BY <1>1, <1>3 DEF Kinds, Honest, TypeInv, TypeOK
  <2>2. \A v \in Workers : ~ (msg[v] = x /\ at[v] = "save")
    BY <1>1
  <2>3. NextPiece(w, k) = <<x, <<k, progress[x][k] + 1>>>>
    BY <2>1 DEF NextPiece
  <2>4. ~ (progress[x][k] + 1 <= progress[x][k]) /\ progress[x][k] + 1 \in Nat
    BY <2>1
  <2> QED
    BY <1>1, <2>1, <2>2, <2>3, <2>4 DEF RowRemembers, Saving
<1> QED
  BY <1>2, <1>3

LEMMA SendAccounted ==
  ASSUME TypeInv, TypeInv', MailIsOne, NEW w \in Workers, NEW k \in Kinds,
         SendPiece(w, k) \/ SendAckLost(w, k),
         \A m \in Msgs : ~overlap[m] => Accounted(m)
  PROVE  \A m \in Msgs : ~overlap'[m] => Accounted(m)'
<1>1. PICK x \in Msgs : msg[w] = x /\ at[w] = "send" /\ IsNext(w, k)
  BY DEF TypeInv, Busy, SendPiece, SendAckLost
<1>2. /\ msg' = msg /\ status' = status /\ progress' = progress /\ job' = job /\ owner' = owner
      /\ unbooked' = unbooked /\ overlap' = overlap /\ unrecorded \subseteq unrecorded'
      /\ accepted' = accepted \cup {NextPiece(w, k)}
  BY DEF SendPiece, SendAckLost, ProviderTakes, rowVars, jobVars
<1>3. /\ at \in [Workers -> Steps] /\ cur \in [Workers -> [Kinds -> Nat]]
      /\ cur[w][k] + 1 \in Nat
  BY DEF TypeInv, TypeOK
<1>4. \/ k = "mail" /\ cur' = [cur EXCEPT ![w]["mail"] = 1] /\ at' = at
      \/ k # "mail" /\ cur' = cur /\ at' = [at EXCEPT ![w] = "save"]
      \/ cur' = cur /\ at' = [at EXCEPT ![w] = "catch"] /\ NextPiece(w, k) \in unrecorded'
  BY DEF SendPiece, SendAckLost
<1>5. WorksOn(w)
  <2>1. \A v \in Workers \ {w} : at'[v] = at[v] /\ msg'[v] = msg[v] /\ cur'[v] = cur[v]
    BY <1>2, <1>3, <1>4
  <2>2. \A r \in Msgs \ {x}, p \in Kinds \X Nat : <<r, p>> \in accepted' => <<r, p>> \in accepted
    BY <1>1, <1>2 DEF NextPiece
  <2> QED
    BY <1>1, <1>2, <2>1, <2>2 DEF WorksOn
<1>6. ASSUME ~overlap[x] PROVE Honest(w, x)' /\ RowRemembers(x)'
  <2>1. Honest(w, x) /\ RowRemembers(x)
    BY <1>1, <1>6, Alone
  <2>2. k = "mail" => cur[w]["mail"] = 0 /\ NextPiece(w, k) = MailOf(x)
    BY <1>1, NextMail
  <2>3. k # "mail" => MailOf(x) \notin accepted /\ MailOf(x) \notin accepted'
    BY <1>1, <1>2, NextMail DEF MailIsOne, MailOf, NextPiece
  <2>4. cur' = cur \/ (k = "mail" /\ \A j \in {"text", "media"} : cur'[w][j] = cur[w][j])
    BY <1>3, <1>4 DEF Kinds
  <2>5. k = "mail" => \/ at'[w] = "send" /\ cur'[w]["mail"] = 1
                      \/ MailOf(x) \in unrecorded' /\ at'[w] = "catch"
    BY <1>3, <1>4, <2>2, <1>1 DEF Kinds
  <2>6. k # "mail" => \/ at'[w] = "save" /\ cur' = cur
                      \/ NextPiece(w, k) \in unrecorded' /\ at'[w] = "catch"
    BY <1>3, <1>4
  <2>7. MailOf(x)' = MailOf(x)
    BY DEF MailOf
  <2>8. Honest(w, x)'
    <3>1. at'[w] \in {"send", "save", "catch"}
      BY <2>5, <2>6
    <3>2. (at'[w] = "send" /\ cur'[w]["mail"] = 0) \/ at'[w] = "catch" =>
            (MailOf(x) \in accepted' => MailOf(x) \in unrecorded')
      BY <2>3, <2>5, <2>6
    <3>3. \A j \in {"text", "media"} : cur'[w][j] = progress'[x][j]
      BY <1>1, <1>2, <2>1, <2>4 DEF Honest
    <3> QED
      BY <1>2, <2>1, <2>7, <3>1, <3>2, <3>3 DEF Honest
  <2>9. MailOf(x) \in accepted' =>
           \/ MailOf(x) \in unrecorded' \/ status'[x] \in {"sent", "gone"}
           \/ \E v \in Workers : msg'[v] = x /\ Mailing(v)'
    BY <1>1, <1>2, <2>3, <2>5 DEF Mailing
  <2>10. ASSUME NEW j \in {"text", "media"}, NEW i \in Nat, <<x, <<j, i>>>> \in accepted'
         PROVE  \/ <<x, <<j, i>>>> \in unrecorded' \/ i <= progress'[x][j]
                \/ \E v \in Workers : msg'[v] = x /\ Saving(v, j, i)'
    <3>1. CASE <<x, <<j, i>>>> \in accepted
      <4>1. \A v \in Workers : ~ (msg[v] = x /\ Saving(v, j, i))
        BY <1>1, <1>6, Alone DEF Saving
      <4> QED
        BY <1>2, <2>1, <3>1, <4>1 DEF RowRemembers
    <3>2. CASE <<x, <<j, i>>>> = NextPiece(w, k)
      <4>1. j = k /\ i = cur[w][k] + 1 /\ k # "mail"
        BY <3>2 DEF NextPiece
      <4>2. CASE at'[w] = "save" /\ cur' = cur
        <5>1. IsNext(w, k)'
          BY <1>1, <1>2, <4>2 DEF IsNext, Size
        <5> QED
          BY <1>1, <1>2, <4>1, <4>2, <5>1 DEF Saving
      <4> QED
        BY <2>6, <3>2, <4>1, <4>2
    <3> QED
      BY <1>2, <2>10, <3>1, <3>2
  <2>11. job'[x] = "failed" /\ ~unbooked'[x] => Marked(x)'
    BY <1>2, <2>1 DEF RowRemembers, Marked
  <2>12. RowRemembers(x)'
    BY <2>7, <2>9, <2>10, <2>11 DEF RowRemembers
  <2> QED
    BY <2>8, <2>12
<1> QED
  BY <1>1, <1>5, <1>6, OwnRow

\* The counter of the row catches up with the piece that went out.
LEMMA SaveAccounted ==
  ASSUME TypeInv, TypeInv', MailIsOne, NEW w \in Workers, NEW k \in {"text", "media"}, SavePiece(w, k),
         \A m \in Msgs : ~overlap[m] => Accounted(m)
  PROVE  \A m \in Msgs : ~overlap'[m] => Accounted(m)'
<1>1. PICK x \in Msgs : msg[w] = x /\ at[w] = "save" /\ IsNext(w, k) /\ k \in Kinds
  BY DEF TypeInv, Busy, SavePiece, Kinds
<1>2. /\ at' = [at EXCEPT ![w] = "send"] /\ msg' = msg /\ status' = status /\ job' = job
      /\ owner' = owner /\ unbooked' = unbooked /\ overlap' = overlap /\ accepted' = accepted
      /\ unrecorded' = unrecorded
      /\ progress' = [progress EXCEPT ![x] = [progress[x] EXCEPT ![k] = cur[w][k] + 1]]
      /\ cur' = [cur EXCEPT ![w] = [cur[w] EXCEPT ![k] = cur[w][k] + 1]]
  BY <1>1 DEF SavePiece, jobVars
<1>3. /\ at \in [Workers -> Steps] /\ cur \in [Workers -> [Kinds -> Nat]]
      /\ progress \in [Msgs -> [Kinds -> Nat]]
  BY DEF TypeInv, TypeOK
<1>4. /\ at'[w] = "send" /\ progress'[x][k] = cur[w][k] + 1 /\ cur'[w][k] = cur[w][k] + 1
      /\ \A j \in Kinds \ {k} : progress'[x][j] = progress[x][j] /\ cur'[w][j] = cur[w][j]
  BY <1>1, <1>2, <1>3
<1>5. WorksOn(w)
  BY <1>1, <1>2, <1>3 DEF WorksOn
<1>6. ASSUME ~overlap[x] PROVE Honest(w, x)' /\ RowRemembers(x)'
  <2>1. Honest(w, x) /\ RowRemembers(x) /\ \A v \in Workers : msg[v] = x /\ at[v] # "idle" => v = w
    BY <1>1, <1>6, Alone
  <2>2. MailOf(x) \notin accepted
    BY <1>1 DEF MailIsOne, MailOf
  <2>3. \A j \in {"text", "media"} : cur'[w][j] = progress'[x][j] /\ cur[w][j] = progress[x][j]
    BY <1>1, <1>4, <2>1 DEF Honest, Kinds
  <2>4. MailOf(x)' = MailOf(x)
    BY DEF MailOf
  <2>5. Honest(w, x)'
    BY <1>2, <1>4, <2>1, <2>2, <2>3, <2>4 DEF Honest
  <2>6. ASSUME NEW j \in {"text", "media"}, NEW i \in Nat, <<x, <<j, i>>>> \in accepted
        PROVE  <<x, <<j, i>>>> \in unrecorded \/ i <= progress'[x][j]
    <3>1. \/ <<x, <<j, i>>>> \in unrecorded \/ i <= progress[x][j]
          \/ IsNext(w, j) /\ i = cur[w][j] + 1
      BY <2>1, <2>6 DEF RowRemembers, Saving
    <3>2. j # k => ~IsNext(w, j)
      BY <1>1, OneLoop
    <3>3. i <= progress[x][j] => i <= progress'[x][j]
      BY <1>1, <1>3, <1>4, <2>3, <2>6 DEF Kinds
    <3>4. j = k /\ i = cur[w][j] + 1 => i <= progress'[x][j]
      BY <1>1, <1>3, <1>4
    <3> QED
      BY <3>1, <3>2, <3>3, <3>4
  <2>7. RowRemembers(x)'
    BY <1>2, <2>1, <2>2, <2>4, <2>6 DEF RowRemembers, Marked
  <2> QED
    BY <2>5, <2>7
<1> QED
  BY <1>1, <1>5, <1>6, OwnRow

\* A waiting job has no execution, so the one that takes it is alone.
LEMMA PickAccounted ==
  ASSUME TypeInv, NEW w \in Workers, NEW x \in Msgs, Pick(w, x),
         \A m \in Msgs : ~overlap[m] => Accounted(m)
  PROVE  \A m \in Msgs : ~overlap'[m] => Accounted(m)'
<1>1. /\ at[w] = "idle" /\ job[x] = "waiting" /\ status' = status /\ progress' = progress
      /\ cur' = cur /\ accepted' = accepted /\ unrecorded' = unrecorded /\ overlap' = overlap
      /\ at' = [at EXCEPT ![w] = "load"] /\ msg' = [msg EXCEPT ![w] = x]
      /\ job' = [job EXCEPT ![x] = "active"] /\ owner' = [owner EXCEPT ![x] = w]
      /\ unbooked' = [unbooked EXCEPT ![x] = FALSE]
  BY DEF Pick, rowVars
<1>2. /\ at'[w] = "load" /\ msg'[w] = x /\ job'[x] = "active" /\ owner'[x] = w
      /\ \A v \in Workers \ {w} : at'[v] = at[v] /\ msg'[v] = msg[v]
      /\ \A r \in Msgs \ {x} : job'[r] = job[r] /\ owner'[r] = owner[r] /\ unbooked'[r] = unbooked[r]
  BY <1>1 DEF TypeInv, TypeOK
<1> SUFFICES ASSUME NEW m \in Msgs, ~overlap[m] PROVE Accounted(m)'
  BY <1>1
<1>3. Accounted(m)
  OBVIOUS
<1>4. CASE m = x
  <2>1. \A v \in Workers \ {w} : ~Alive(v, m)'
    BY <1>1, <1>2, <1>3, <1>4 DEF Accounted, Alive, Honest
  <2>2. Honest(w, m)'
    BY <1>2, <1>4 DEF Honest
  <2>3. \A v \in Workers : ~ (msg[v] = m /\ at[v] \in {"send", "save"})
    BY <1>1, <1>3, <1>4 DEF Accounted, Alive, Honest
  <2>4. RowRemembers(m)'
    BY <1>1, <1>2, <1>3, <1>4, <2>3, RemembersFrame DEF Accounted
  <2> QED
    BY <2>1, <2>2, <2>4 DEF Accounted
<1>5. CASE m # x
  <2>1. \A v \in Workers : Alive(v, m)' => Alive(v, m) /\ v # w
    BY <1>1, <1>2, <1>5 DEF Alive
  <2>2. ASSUME NEW v \in Workers, Alive(v, m)' PROVE Honest(v, m)'
    <3>1. Honest(v, m) /\ at[v] # "idle" /\ v # w
      BY <1>3, <2>1, <2>2 DEF Accounted, Alive
    <3> QED
      BY <1>1, <1>2, <1>5, <3>1, HonestFrame
  <2>3. job'[m] = "failed" /\ ~unbooked'[m] => Marked(m)'
    BY <1>1, <1>2, <1>3, <1>5 DEF Accounted, RowRemembers, Marked
  <2>4. \A v \in Workers : msg[v] = m /\ at[v] \in {"send", "save"} =>
          at'[v] = at[v] /\ msg'[v] = msg[v] /\ cur'[v] = cur[v]
    BY <1>1, <1>2
  <2>5. RowRemembers(m)'
    BY <1>1, <1>3, <2>3, <2>4, RemembersFrame DEF Accounted
  <2> QED
    BY <2>2, <2>5 DEF Accounted
<1> QED
  BY <1>4, <1>5

\* The environment: the job is added or taken back, the row marked or deleted.
LEMMA EnvironmentAccounted ==
  ASSUME TypeInv, MailIsOne, NEW x \in Msgs,
         \/ Add(x) \/ Stalled(x) \/ LockLost(x) \/ DeliveryFailed(x) \/ RowDeleted(x),
         \A m \in Msgs : ~overlap[m] => Accounted(m)
  PROVE  \A m \in Msgs : ~overlap'[m] => Accounted(m)'
<1>1. /\ at' = at /\ msg' = msg /\ cur' = cur /\ progress' = progress /\ accepted' = accepted
      /\ unrecorded' = unrecorded
  BY DEF Add, Stalled, LockLost, DeliveryFailed, RowDeleted, Reclaim, rowVars, execVars
<1>2. /\ status \in [Msgs -> Statuses] /\ job \in [Msgs -> JobStates]
      /\ owner \in [Msgs -> Workers \cup {NoWorker}]
      /\ unbooked \in [Msgs -> BOOLEAN] /\ overlap \in [Msgs -> BOOLEAN]
  BY DEF TypeInv, TypeOK
<1>3. \A r \in Msgs \ {x} : /\ status'[r] = status[r] /\ job'[r] = job[r] /\ owner'[r] = owner[r]
                            /\ unbooked'[r] = unbooked[r] /\ overlap'[r] = overlap[r]
  BY <1>2 DEF Add, Stalled, LockLost, DeliveryFailed, RowDeleted, Reclaim, rowVars, jobVars
<1>4. ~overlap'[x] => ~overlap[x] /\ ~LockLost(x)
  <2>1. LockLost(x) => overlap'[x] = TRUE
    BY <1>2 DEF LockLost
  <2>2. ~LockLost(x) => overlap' = overlap
    BY DEF Add, Stalled, DeliveryFailed, RowDeleted
  <2> QED
    BY <2>1, <2>2, <1>2, Zenon
<1> SUFFICES ASSUME NEW m \in Msgs, ~overlap'[m] PROVE Accounted(m)'
  OBVIOUS
<1>5. Accounted(m) /\ ~overlap[m]
  BY <1>3, <1>4
<1>6. ASSUME status'[m] = status[m], job'[m] = job[m], owner'[m] = owner[m], unbooked'[m] = unbooked[m]
      PROVE  Accounted(m)'
  <2>1. ASSUME NEW v \in Workers, Alive(v, m)' PROVE Honest(v, m)'
    BY <1>1, <1>5, <1>6, <2>1, HonestFrame DEF Accounted, Alive
  <2>2. job'[m] = "failed" /\ ~unbooked'[m] => Marked(m)'
    BY <1>5, <1>6 DEF Accounted, RowRemembers, Marked
  <2>3. RowRemembers(m)'
    BY <1>1, <1>5, <1>6, <2>2, RemembersFrame DEF Accounted
  <2> QED
    BY <2>1, <2>3 DEF Accounted
<1>7. CASE m # x
  BY <1>3, <1>6, <1>7
<1>8. CASE m = x /\ (Add(x) \/ Stalled(x))
  <2>1. \A v \in Workers : ~Alive(v, m)
    <3>1. Add(x) => job[m] # "active"
      BY <1>8 DEF Add
    <3>2. Stalled(x) => ~Alive(owner[m], m)
      BY <1>8 DEF Stalled
    <3> QED
      BY <1>5, <1>8, <3>1, <3>2 DEF Accounted, Honest
  <2>2. \A v \in Workers : ~Alive(v, m)'
    BY <1>1, <2>1 DEF Alive
  <2>3. status' = status
    BY <1>8 DEF Add, Stalled, Reclaim, rowVars
  <2>4. job'[m] = "failed" => unbooked'[m] = TRUE
    BY <1>2, <1>8 DEF Add, Stalled, Reclaim
  <2>5. \A v \in Workers : ~ (msg[v] = m /\ at[v] \in {"send", "save"})
    BY <2>1 DEF Alive
  <2>6. job'[m] = "failed" /\ ~unbooked'[m] => Marked(m)'
    BY <2>4, Zenon
  <2>7. RowRemembers(m)'
    BY <1>1, <1>5, <2>3, <2>5, <2>6, RemembersFrame DEF Accounted
  <2> QED
    BY <2>2, <2>7 DEF Accounted
<1>9. CASE m = x /\ (DeliveryFailed(x) \/ RowDeleted(x))
  <2>1. /\ job' = job /\ owner' = owner /\ unbooked' = unbooked /\ Marked(m)' /\ status'[m] # "sent"
        /\ status'[m] = "gone" \/ m \notin Email
    BY <1>2, <1>9 DEF DeliveryFailed, RowDeleted, jobVars, Marked
  <2>2. m \notin Email => MailOf(m) \notin accepted
    BY DEF MailIsOne, MailOf
  <2>3. MailOf(m)' = MailOf(m)
    BY DEF MailOf
  <2>4. ASSUME NEW v \in Workers, Alive(v, m)' PROVE Honest(v, m)'
    <3>1. Honest(v, m)
      BY <1>1, <1>5, <2>4 DEF Accounted, Alive
    <3> QED
      BY <1>1, <2>1, <2>3, <3>1 DEF Honest
  <2>5. \A v \in Workers, k \in {"text", "media"}, i \in Nat : Saving(v, k, i)' <=> Saving(v, k, i)
    BY <1>1 DEF Saving, IsNext, Size
  <2>6. RowRemembers(m)'
    BY <1>1, <1>5, <2>1, <2>2, <2>3, <2>5 DEF Accounted, RowRemembers
  <2> QED
    BY <2>4, <2>6 DEF Accounted
<1> QED
  BY <1>4, <1>7, <1>8, <1>9

LEMMA AccountStep ==
  TypeInv /\ TypeInv' /\ MailIsOne /\ (\A m \in Msgs : ~overlap[m] => Accounted(m)) /\ [Next]_vars
    => \A m \in Msgs : ~overlap'[m] => Accounted(m)'
<1> SUFFICES ASSUME TypeInv, TypeInv', MailIsOne, \A m \in Msgs : ~overlap[m] => Accounted(m), [Next]_vars
             PROVE \A m \in Msgs : ~overlap'[m] => Accounted(m)'
  OBVIOUS
<1>1. CASE UNCHANGED vars
  <2> SUFFICES ASSUME NEW m \in Msgs, ~overlap'[m] PROVE Accounted(m)'
    OBVIOUS
  <2>1. Accounted(m)
    BY <1>1 DEF vars
  <2>2. \A w \in Workers, k \in {"text", "media"}, i \in Nat : Saving(w, k, i)' <=> Saving(w, k, i)
    BY <1>1 DEF Saving, IsNext, Size, vars, execVars
  <2> QED
    BY <1>1, <2>1, <2>2
       DEF Accounted, Alive, Honest, RowRemembers, Marked, MailOf, Mailing, vars, rowVars, jobVars, execVars
<1> QED
  BY <1>1, EndsAccounted, LoadAccounted, MovesAccounted, MarkSentAccounted, FailsAccounted,
     SendAccounted, SaveAccounted, PickAccounted, EnvironmentAccounted
     DEF Next, Proceed

LEMMA ResendStep ==
  TypeInv /\ MailIsOne /\ (\A m \in Msgs : ~overlap[m] => Accounted(m)) /\ ResendIsExplained /\ [Next]_vars
    => ResendIsExplained'
<1> SUFFICES ASSUME TypeInv, MailIsOne, \A m \in Msgs : ~overlap[m] => Accounted(m),
                    ResendIsExplained, [Next]_vars
             PROVE ResendIsExplained'
  OBVIOUS
<1> USE DEF rowVars, jobVars, execVars, vars
<1>1. unrecorded \subseteq unrecorded' /\ \A m \in Msgs : overlap[m] => overlap'[m]
  <2>1. ASSUME NEW w \in Workers, Proceed(w) \/ Crash(w) \/ \E m \in Msgs : Pick(w, m)
        PROVE  unrecorded \subseteq unrecorded' /\ overlap' = overlap
    BY <2>1 DEF Proceed, SkipIfSent, Load, ReserveSlot, MoveToDelayed, MarkProcessingAttempt,
                SendPiece, SendRejected, SendAckLost, SavePiece, MarkDispatchSent, CreateLog,
                WriteFails, MarkDispatchFailed, CreateFailLog, CatchFails, FailsOutsideTry,
                Throw, Crash, Pick
  <2>2. ASSUME NEW m \in Msgs, Add(m) \/ Stalled(m) \/ DeliveryFailed(m) \/ RowDeleted(m)
        PROVE  unrecorded' = unrecorded /\ overlap' = overlap
    BY <2>2 DEF Add, Stalled, Reclaim, DeliveryFailed, RowDeleted
  <2>3. ASSUME NEW m \in Msgs, LockLost(m)
        PROVE  unrecorded' = unrecorded /\ \A r \in Msgs : overlap[r] => overlap'[r]
    <3>1. /\ unrecorded' = unrecorded /\ overlap \in [Msgs -> BOOLEAN]
          /\ overlap' = [overlap EXCEPT ![m] = TRUE]
      BY <2>3 DEF LockLost, Reclaim, TypeInv, TypeOK
    <3> QED
      BY <3>1
  <2> QED
    BY <2>1, <2>2, <2>3 DEF Next
<1>2. CASE resent' = resent
  <2>1. \A p \in resent : p[1] \in Msgs
    BY DEF TypeInv, TypeOK
  <2> QED
    BY <1>1, <1>2, <2>1 DEF ResendIsExplained
<1>3. ASSUME NEW w \in Workers, NEW k \in Kinds, SendPiece(w, k) \/ SendAckLost(w, k)
      PROVE  ResendIsExplained'
  <2>1. PICK x \in Msgs : msg[w] = x /\ at[w] = "send" /\ IsNext(w, k) /\ NextPiece(w, k)[1] = x
    BY <1>3 DEF TypeInv, Busy, SendPiece, SendAckLost, NextPiece
  <2>2. \/ resent' = resent
        \/ resent' = resent \cup {NextPiece(w, k)} /\ NextPiece(w, k) \in accepted
    BY <1>3 DEF SendPiece, SendAckLost, ProviderTakes
  <2>3. NextPiece(w, k) \in accepted => NextPiece(w, k) \in unrecorded \/ overlap[x]
    BY <2>1, NotSentBefore
  <2>4. \A p \in resent : p[1] \in Msgs
    BY DEF TypeInv, TypeOK
  <2> QED
    BY <1>1, <2>1, <2>2, <2>3, <2>4 DEF ResendIsExplained
<1>4. ASSUME NEW w \in Workers,
             \/ SkipIfSent(w) \/ Load(w) \/ ReserveSlot(w) \/ MoveToDelayed(w)
             \/ MarkProcessingAttempt(w) \/ MarkDispatchSent(w) \/ CreateLog(w) \/ WriteFails(w)
             \/ MarkDispatchFailed(w) \/ CreateFailLog(w) \/ CatchFails(w) \/ FailsOutsideTry(w)
             \/ Throw(w) \/ Crash(w)
             \/ \E k \in Kinds : SendRejected(w, k)
             \/ \E k \in {"text", "media"} : SavePiece(w, k)
             \/ \E m \in Msgs : Pick(w, m)
      PROVE resent' = resent
  BY <1>4 DEF SkipIfSent, Load, ReserveSlot, MoveToDelayed, MarkProcessingAttempt,
              SendRejected, SavePiece, MarkDispatchSent, CreateLog, WriteFails,
              MarkDispatchFailed, CreateFailLog, CatchFails, FailsOutsideTry, Throw, Crash, Pick
<1>5. ASSUME NEW m \in Msgs, \/ Add(m) \/ Stalled(m) \/ LockLost(m)
                             \/ DeliveryFailed(m) \/ RowDeleted(m)
      PROVE resent' = resent
  BY <1>5 DEF Add, Stalled, LockLost, Reclaim, DeliveryFailed, RowDeleted
<1>6. UNCHANGED vars => resent' = resent
  OBVIOUS
<1> QED
  BY <1>2, <1>3, <1>4, <1>5, <1>6 DEF Next, Proceed

LEMMA InitAccount == Init => AccountInv
<1> SUFFICES ASSUME Init PROVE AccountInv
  OBVIOUS
<1>1. TypeInv
  BY InitTyped
<1>2. MailIsOne /\ ResendIsExplained
  BY DEF Init, MailIsOne, NothingSent, Kinds, ResendIsExplained
<1>3. \A m \in Msgs : Accounted(m)
  BY DEF Init, Accounted, Alive, RowRemembers
<1> QED
  BY <1>1, <1>2, <1>3 DEF AccountInv

LEMMA StepAccount == AccountInv /\ [Next]_vars => AccountInv'
  BY StepTyped, MailStep, AccountStep, ResendStep DEF AccountInv

\* A piece goes out twice only if a sending of it is on record as not recorded, or
\* two executions overlapped.
THEOREM RepeatsHaveAReason == Spec => []ResendIsExplained
<1>1. AccountInv => ResendIsExplained
  BY DEF AccountInv
<1> QED
  BY InitAccount, StepAccount, <1>1, PTL DEF Spec

\* A job that BullMQ gave up left its mark on the row, with the exceptions named.
THEOREM GivenUpIsMarked == Spec => []GivingUpIsBooked
<1>1. AccountInv => GivingUpIsBooked
  BY DEF AccountInv, Accounted, RowRemembers, Marked, GivingUpIsBooked
<1> QED
  BY InitAccount, StepAccount, <1>1, PTL DEF Spec

\* A row in status sent is not taken into processing again by a lone execution.
THEOREM SentStaysClosed == Spec => SentIsNotReopened
<1> DEFINE Closed == \A m \in Msgs : (status[m] = "sent" /\ status'[m] = "processing") => overlap[m]
<1>1. AccountInv /\ [Next]_vars => [Closed]_vars
  <2> SUFFICES ASSUME AccountInv, Next PROVE Closed
    OBVIOUS
  <2> SUFFICES ASSUME NEW m \in Msgs, status[m] = "sent", status'[m] = "processing", ~overlap[m]
               PROVE FALSE
    OBVIOUS
  <2>1. PICK w \in Workers : MarkProcessingAttempt(w) /\ msg[w] = m
    <3>1. status \in [Msgs -> Statuses]
      BY DEF AccountInv, TypeInv, TypeOK
    <3>2. ASSUME NEW w \in Workers,
                 \/ SkipIfSent(w) \/ Load(w) \/ ReserveSlot(w) \/ MoveToDelayed(w)
                 \/ CreateLog(w) \/ WriteFails(w)
                 \/ CreateFailLog(w) \/ CatchFails(w) \/ FailsOutsideTry(w)
                 \/ Throw(w) \/ Crash(w)
                 \/ \E k \in Kinds : SendPiece(w, k) \/ SendRejected(w, k) \/ SendAckLost(w, k)
                 \/ \E k \in {"text", "media"} : SavePiece(w, k)
                 \/ \E r \in Msgs : Pick(w, r)
          PROVE FALSE
      BY <3>2 DEF SkipIfSent, Load, ReserveSlot, MoveToDelayed, SendPiece, SendRejected, SendAckLost,
                  SavePiece, CreateLog, WriteFails, CreateFailLog, CatchFails,
                  FailsOutsideTry, Throw, Crash, Pick, rowVars
    <3>3. ASSUME NEW r \in Msgs, \/ Add(r) \/ Stalled(r) \/ LockLost(r)
                                 \/ DeliveryFailed(r) \/ RowDeleted(r)
          PROVE FALSE
      BY <3>1, <3>3 DEF Add, Stalled, LockLost, Reclaim, DeliveryFailed, RowDeleted, rowVars
    <3>4. ASSUME NEW w \in Workers, MarkDispatchSent(w) \/ MarkDispatchFailed(w) PROVE FALSE
      BY <3>1, <3>4 DEF MarkDispatchSent, MarkDispatchFailed
    <3>5. PICK w \in Workers : MarkProcessingAttempt(w)
      BY <3>2, <3>3, <3>4 DEF Next, Proceed
    <3>6. msg[w] = m
      BY <3>1, <3>5 DEF MarkProcessingAttempt
    <3> QED
      BY <3>5, <3>6
  <2>2. at[w] = "mark" /\ Honest(w, m)
    BY <2>1 DEF MarkProcessingAttempt, AccountInv, Accounted, Alive
  <2> QED
    BY <2>2 DEF Honest
<1> QED
  BY InitAccount, StepAccount, <1>1, PTL DEF Spec, SentIsNotReopened

=============================================================================
