----------------------------- MODULE PanelProofs -----------------------------
(***************************************************************************)
(* Proofs about what the panel edits: the folders, the attachments of the  *)
(* messages, the templates, the events, the pictures, the order it lists   *)
(* them in and the recurring rules with their schedulers; for any of these *)
(* and any requests in flight.                                             *)
(***************************************************************************)
EXTENDS FolderTreeProps, DisplayOrderProps, MessageFilesProps, TemplateHomes, EventPanel,
        RecurringRulesProps, FiniteSetTheorems, WellFoundedInduction, TLAPS

-----------------------------------------------------------------------------
(* Folders: FolderTree. *)

Walking == [at : {"idle", "climb", "write", "lift", "delete"}, id : Parents, to : Parents,
            cur : Parents, scope : Scopes, depth : 0 .. MaxDepth, seen : SUBSET Ids,
            stale : BOOLEAN]

\* A request is about a folder that was created.
KnownId == \A q \in Requests : req[q].id \in born \cup {Root}

TreeKnown == TypeOKTree /\ KnownId

\* The walk of a request that no move or deletion overtook: the levels seen lead from the
\* new parent to the one it stands at, and the folder it moves is not among them.
Walk(r) ==
  r.at \in {"climb", "write"} /\ ~r.stale =>
    /\ r.seen \subseteq folders /\ r.id \notin r.seen
    /\ r.to \in r.seen \cup {r.cur}
    /\ \A y \in r.seen : parent[y] \in r.seen \cup {r.cur}
    /\ r.at = "write" => r.cur = Root

\* A deletion that nothing overtook lifts to where its folder is.
Lift(r) == r.at = "delete" /\ ~r.stale /\ r.id \in folders => r.to = parent[r.id]

Walks == \A q \in Requests : Walk(req[q]) /\ Lift(req[q])

TreeInv == TreeKnown /\ Walks /\ NoneVanishes

-----------------------------------------------------------------------------
(* Types. *)

LEMMA IdleTyped == Idle \in Walking
  BY FolderAssumption, ScopeAssumption DEF Idle, AnyScope, Walking, Parents

LEMMA InitTreeKnown == InitTree => TreeKnown
<1> SUFFICES ASSUME InitTree PROVE TreeKnown
  OBVIOUS
<1>1. req \in [Requests -> Walking]
  BY IdleTyped DEF InitTree
<1>2. PICK level \in [folders -> 1 .. MaxDepth] : \A x \in folders :
        IF parent[x] = Root THEN level[x] = 1
        ELSE parent[x] \in folders /\ level[x] = level[parent[x]] + 1
  BY DEF InitTree
<1>3. \A x \in folders : parent[x] \in folders \cup {Root}
  BY <1>2
<1>4. scope \in [Ids -> Scopes]
  BY ScopeAssumption DEF InitTree, AnyScope
<1>5. KnownId
  BY DEF InitTree, Idle, KnownId
<1> QED
  BY <1>1, <1>3, <1>4, <1>5 DEF InitTree, TreeKnown, TypeOKTree, Walking

\* The requests that a step replaces, one or all.
LEMMA StepTreeKnown == TreeKnown /\ [NextTree]_treeVars => TreeKnown'
<1> SUFFICES ASSUME TreeKnown, [NextTree]_treeVars PROVE TreeKnown'
  OBVIOUS
<1> USE FolderAssumption
<1>1. /\ folders \subseteq born /\ born \subseteq Ids
      /\ parent \in [Ids -> Parents] /\ scope \in [Ids -> Scopes]
      /\ \A x \in folders : parent[x] \in folders \cup {Root}
      /\ requested \in Nat /\ clash \in BOOLEAN /\ carried \in BOOLEAN
      /\ req \in [Requests -> Walking] /\ KnownId
  BY DEF TreeKnown, TypeOKTree, Walking
<1> DEFINE Rows == /\ folders' \subseteq born' /\ born' \subseteq Ids
                   /\ parent' \in [Ids -> Parents] /\ scope' \in [Ids -> Scopes]
                   /\ \A x \in folders' : parent'[x] \in folders' \cup {Root}
           Notes == requested' \in Nat /\ clash' \in BOOLEAN /\ carried' \in BOOLEAN
           Known(r) == r \in Walking /\ r.id \in born' \cup {Root}
           Asked == req' \in [Requests -> Walking] /\ \A q \in Requests : Known(req'[q])
<1>2. ASSUME Rows, Notes, Asked PROVE TreeKnown'
  BY <1>2 DEF TreeKnown, TypeOKTree, KnownId, Walking
<1>3. ASSUME UNCHANGED rows PROVE Rows /\ born' = born
  BY <1>1, <1>3 DEF rows
<1>4. ASSUME born \subseteq born' PROVE \A q \in Requests : Known(req[q])
  BY <1>1, <1>4 DEF KnownId
<1>5. ASSUME born \subseteq born' PROVE Known(Idle)
  BY IdleTyped DEF Idle
<1>6. ASSUME NEW q \in Requests, NEW r, req' = [req EXCEPT ![q] = r], Known(r), born \subseteq born'
      PROVE  Asked
  BY <1>1, <1>4, <1>6
<1> HIDE DEF Rows, Notes, Asked
<1>7. ASSUME NEW q \in Requests, Reply(q), born \subseteq born'
      PROVE  Asked /\ requested' \in Nat
  BY <1>1, <1>5, <1>6, <1>7 DEF Reply
<1>8. ASSUME NEW q \in Requests, req' = TreeChanged(q), born' = born
      PROVE  Asked
  <2>1. ASSUME NEW r \in Requests PROVE Known(req'[r])
    <3>1. CASE r = q
      BY <1>5, <1>8, <3>1 DEF TreeChanged
    <3>2. CASE r # q
      <4>1. req'[r] = [req[r] EXCEPT !.stale = req[r].at # "idle"]
        BY <1>8, <3>2 DEF TreeChanged
      <4>2. Known(req[r])
        BY <1>4, <1>8
      <4> QED
        BY <4>1, <4>2 DEF Walking
    <3> QED
      BY <3>1, <3>2
  <2>2. req' = [r \in Requests |-> req'[r]]
    BY <1>8 DEF TreeChanged
  <2> QED
    BY <2>1, <2>2 DEF Asked
<1>9. CASE UNCHANGED treeVars
  BY <1>1, <1>9 DEF treeVars, rows, TreeKnown, TypeOKTree, KnownId
<1>10. ASSUME NEW q \in Requests, StartCreate(q) \/ StartMove(q) \/ StartDelete(q) PROVE TreeKnown'
  <2>1. PICK r : Receive(q, r) /\ r \in Walking /\ r.id \in folders \cup {Root}
    <3>1. CASE StartCreate(q)
      <4>1. PICK s \in {t \in Scopes : ValidScope(t)}, p \in Parents :
              Receive(q, [Idle EXCEPT !.at = IF p = Root THEN "write" ELSE "climb",
                                      !.to = p, !.cur = p, !.scope = s])
        BY <3>1 DEF StartCreate
      <4> DEFINE r == [Idle EXCEPT !.at = IF p = Root THEN "write" ELSE "climb",
                                   !.to = p, !.cur = p, !.scope = s]
      <4>2. r \in Walking /\ r.id = Root
        BY IdleTyped DEF Idle, Walking
      <4> HIDE DEF r
      <4> QED
        BY <4>1, <4>2 DEF r
    <3>2. CASE StartMove(q)
      <4>1. PICK x \in folders : \E p \in Parents \ {x} :
              Receive(q, [Idle EXCEPT !.at = IF p = Root THEN "write" ELSE "climb",
                                      !.id = x, !.to = p, !.cur = p, !.scope = scope[x]])
        BY <3>2 DEF StartMove
      <4>2. PICK p \in Parents \ {x} :
              Receive(q, [Idle EXCEPT !.at = IF p = Root THEN "write" ELSE "climb",
                                      !.id = x, !.to = p, !.cur = p, !.scope = scope[x]])
        BY <4>1
      <4>3. x \in Parents /\ scope[x] \in Scopes
        BY <1>1 DEF Parents
      <4> DEFINE r == [Idle EXCEPT !.at = IF p = Root THEN "write" ELSE "climb",
                                   !.id = x, !.to = p, !.cur = p, !.scope = scope[x]]
      <4>4. r \in Walking /\ r.id = x
        BY <4>3, IdleTyped DEF Idle, Walking
      <4> HIDE DEF r
      <4> QED
        BY <4>2, <4>4 DEF r
    <3>3. CASE StartDelete(q)
      <4>1. PICK x \in folders : Receive(q, [Idle EXCEPT !.at = "lift", !.id = x])
        BY <3>3 DEF StartDelete
      <4>2. x \in Parents
        BY <1>1 DEF Parents
      <4> DEFINE r == [Idle EXCEPT !.at = "lift", !.id = x]
      <4>3. r \in Walking /\ r.id = x
        BY <4>2, IdleTyped DEF Idle, Walking
      <4> HIDE DEF r
      <4> QED
        BY <4>1, <4>3 DEF r
    <3> QED
      BY <1>10, <3>1, <3>2, <3>3
  <2>2. Rows /\ born' = born
    BY <1>3, <2>1 DEF Receive
  <2>3. Known(r)
    BY <1>1, <2>1, <2>2
  <2>4. Asked
    BY <1>6, <2>1, <2>2, <2>3 DEF Receive
  <2>5. Notes
    BY <1>1, <2>1 DEF Receive, Notes
  <2> QED
    BY <1>2, <2>2, <2>4, <2>5
<1>11. ASSUME NEW q \in Requests, ClimbUp(q) \/ ClimbEnds(q) \/ ClimbRefused(q) \/ ReadLift(q)
       PROVE  TreeKnown'
  <2>1. /\ Rows /\ born' = born /\ Notes
    BY <1>1, <1>3, <1>11 DEF ClimbUp, ClimbEnds, ClimbRefused, ReadLift, Notes
  <2>2. req[q] \in Walking /\ req[q].id \in born \cup {Root}
    BY <1>1 DEF KnownId
  <2>3. \E r : req' = [req EXCEPT ![q] = r] /\ Known(r)
    <3>1. CASE ClimbUp(q)
      <4> DEFINE r == [req[q] EXCEPT !.cur = parent[req[q].cur], !.depth = req[q].depth + 1,
                                     !.seen = req[q].seen \cup {req[q].cur}]
      <4>1. req[q].cur \in Ids /\ req[q].depth + 1 \in 0 .. MaxDepth
        BY <2>2, <3>1 DEF ClimbUp, Walking, Parents
      <4>2. req' = [req EXCEPT ![q] = r]
        BY <1>1, <3>1 DEF ClimbUp
      <4>3. r \in Walking /\ r.id = req[q].id
        BY <1>1, <2>2, <4>1 DEF Walking
      <4> QED
        BY <2>1, <2>2, <4>2, <4>3
    <3>2. CASE ClimbEnds(q)
      <4>1. req' = [req EXCEPT ![q] = [req[q] EXCEPT !.at = "write"]]
        BY <1>1, <3>2 DEF ClimbEnds
      <4>2. [req[q] EXCEPT !.at = "write"] \in Walking
        BY <2>2 DEF Walking
      <4>3. [req[q] EXCEPT !.at = "write"].id = req[q].id
        BY <2>2 DEF Walking
      <4> QED
        BY <2>1, <2>2, <4>1, <4>2, <4>3
    <3>3. CASE ClimbRefused(q)
      BY <1>5, <2>1, <3>3 DEF ClimbRefused
    <3>4. CASE ReadLift(q)
      <4> DEFINE up == IF req[q].id \in folders THEN parent[req[q].id] ELSE Root
                 r == [req[q] EXCEPT !.at = "delete", !.to = up]
      <4>1. up \in Parents
        BY <1>1 DEF Parents
      <4>2. req' = [req EXCEPT ![q] = r]
        BY <1>1, <3>4 DEF ReadLift
      <4> HIDE DEF up
      <4>3. r \in Walking /\ r.id = req[q].id
        BY <2>2, <4>1 DEF Walking
      <4> QED
        BY <2>1, <2>2, <4>2, <4>3
    <3> QED
      BY <1>11, <3>1, <3>2, <3>3, <3>4
  <2>4. Asked
    BY <1>6, <2>1, <2>3
  <2> QED
    BY <1>2, <2>1, <2>4
<1>12. ASSUME NEW q \in Requests, WriteRefused(q) \/ DeleteRefused(q) \/ Dies(q) PROVE TreeKnown'
  <2>1. /\ Rows /\ born' = born /\ Reply(q) /\ clash' \in BOOLEAN /\ carried' \in BOOLEAN
    BY <1>1, <1>3, <1>12 DEF WriteRefused, DeleteRefused, Dies
  <2> QED
    BY <1>2, <1>7, <2>1 DEF Notes
<1>13. ASSUME NEW q \in Requests, CreateRow(q) PROVE TreeKnown'
  <2>1. PICK x \in Ids \ born :
          /\ req[q].to \in folders \cup {Root}
          /\ folders' = folders \cup {x} /\ born' = born \cup {x}
          /\ parent' = [parent EXCEPT ![x] = req[q].to]
          /\ scope' = [scope EXCEPT ![x] = req[q].scope]
    BY <1>13 DEF CreateRow
  <2>2. req[q].to \in Parents /\ req[q].scope \in Scopes
    BY <1>1 DEF Walking
  <2>3. Rows
    BY <1>1, <2>1, <2>2 DEF Rows
  <2>4. Reply(q) /\ clash' \in BOOLEAN /\ carried' \in BOOLEAN
    BY <1>1, <1>13 DEF CreateRow
  <2> QED
    BY <1>2, <1>7, <2>1, <2>3, <2>4 DEF Notes
<1>14. ASSUME NEW q \in Requests, MoveRow(q) PROVE TreeKnown'
  <2>1. Rows /\ born' = born
    BY <1>1, <1>14 DEF MoveRow, Rows, Parents
  <2>2. Notes
    BY <1>1, <1>14 DEF MoveRow, Notes
  <2> QED
    BY <1>2, <1>8, <1>14, <2>1, <2>2 DEF MoveRow
<1>15. ASSUME NEW q \in Requests, DeleteRow(q) PROVE TreeKnown'
  <2> DEFINE x == req[q].id
             up == IF req[q].to = x THEN Root ELSE req[q].to
  <2>1. /\ x \in folders /\ (Inside(x) = {} \/ up \in folders \cup {Root})
        /\ folders' = folders \ {x} /\ born' = born /\ scope' = scope
        /\ parent' = [y \in Ids |-> IF y = x THEN Root ELSE IF y \in Inside(x) THEN up ELSE parent[y]]
    BY <1>15 DEF DeleteRow
  <2>2. up \in Parents /\ up # x
    BY <1>1, <2>1 DEF Walking, Parents
  <2> HIDE DEF up, x
  <2>3. parent' \in [Ids -> Parents]
    BY <1>1, <2>1, <2>2 DEF Parents
  <2>4. ASSUME NEW y \in folders' PROVE parent'[y] \in folders' \cup {Root}
    BY <1>1, <2>1, <2>2 DEF Inside
  <2>5. Rows
    BY <1>1, <2>1, <2>3, <2>4 DEF Rows
  <2>6. Notes
    BY <1>1, <1>15 DEF DeleteRow, Notes
  <2> QED
    BY <1>2, <1>8, <1>15, <2>1, <2>5, <2>6 DEF DeleteRow
<1> QED
  BY <1>9, <1>10, <1>11, <1>12, <1>13, <1>14, <1>15 DEF NextTree

\* The rows, the requests and the history of the folders keep their types.
THEOREM TreeTyped == SpecTree => []TypeOKTree
<1>1. SpecTree => []TreeKnown
  BY InitTreeKnown, StepTreeKnown, PTL DEF SpecTree
<1>2. TreeKnown => TypeOKTree
  BY DEF TreeKnown
<1> QED
  BY <1>1, <1>2, PTL

-----------------------------------------------------------------------------
(* No folder vanishes. *)

\* Every set of numbers has a least one.
LEMMA LeastNumber ==
  ASSUME NEW S, S # {}, \A p \in S : p \in Nat
  PROVE  \E p \in S : \A o \in S : p <= o
<1> DEFINE below(p) == 1 .. p
           T == {below(p) : p \in S}
<1>1. T \subseteq FiniteSubsetsOf(Nat) /\ T # {}
  <2>1. ASSUME NEW p \in S PROVE below(p) \in FiniteSubsetsOf(Nat)
    <3>1. IsFiniteSet(1 .. p)
      BY FS_Interval
    <3>2. 1 .. p \in SUBSET Nat
      OBVIOUS
    <3> QED
      BY <3>1, <3>2 DEF FiniteSubsetsOf
  <2> QED
    BY <2>1
<1>2. IsWellFoundedOn(StrictSubsetOrdering(Nat), FiniteSubsetsOf(Nat))
  BY FS_StrictSubsetOrderingWellFounded
<1> HIDE DEF T
<1>3. \E A \in T : \A B \in T : ~ (<<B, A>> \in StrictSubsetOrdering(Nat))
  BY <1>1, <1>2, WFMin
<1>4. PICK p \in S : \A B \in T : ~ (<<B, below(p)>> \in StrictSubsetOrdering(Nat))
  BY <1>3 DEF T
<1>5. ASSUME NEW o \in S, o < p PROVE FALSE
  <2>1. below(o) \subseteq below(p) /\ p \in below(p) /\ p \notin below(o)
    BY <1>5
  <2>2. below(o) \in T /\ below(o) \in SUBSET Nat /\ below(p) \in SUBSET Nat
    BY DEF T
  <2>3. <<below(o), below(p)>> \in StrictSubsetOrdering(Nat)
    BY <2>1, <2>2 DEF StrictSubsetOrdering
  <2> QED
    BY <1>4, <2>2, <2>3
<1> QED
  BY <1>5

\* Levels that fall from each folder to its parent leave no cycle.
LEMMA LevelsAcyclic ==
  ASSUME NEW level \in [folders -> Nat],
         \A x \in folders : parent[x] \in folders => level[parent[x]] < level[x]
  PROVE  Acyclic
<1> SUFFICES ASSUME NEW S \in SUBSET folders, S # {}, \A x \in S : parent[x] \in S
             PROVE  FALSE
  BY DEF Acyclic
<1> DEFINE T == {level[x] : x \in S}
<1>1. T # {} /\ \A n \in T : n \in Nat
  OBVIOUS
<1> HIDE DEF T
<1>2. PICK n \in T : \A o \in T : n <= o
  BY <1>1, LeastNumber
<1>3. PICK x \in S : n = level[x]
  BY DEF T
<1>4. level[parent[x]] \in T /\ level[parent[x]] \in Nat /\ n \in Nat /\ level[parent[x]] < n
  BY <1>3 DEF T
<1> QED
  BY <1>2, <1>4

LEMMA InitTreeInv == InitTree => TreeInv
<1> SUFFICES ASSUME InitTree PROVE TreeInv
  OBVIOUS
<1>1. PICK level \in [folders -> 1 .. MaxDepth] : \A x \in folders :
        IF parent[x] = Root THEN level[x] = 1
        ELSE parent[x] \in folders /\ level[x] = level[parent[x]] + 1
  BY DEF InitTree
<1>2. level \in [folders -> Nat] /\ Root \notin folders
  BY FolderAssumption DEF InitTree
<1>3. \A x \in folders : parent[x] \in folders => level[parent[x]] < level[x]
  BY <1>1, <1>2
<1>4. Acyclic
  BY <1>2, <1>3, LevelsAcyclic
<1>5. Walks
  BY DEF InitTree, Idle, Walks, Walk, Lift
<1> QED
  BY <1>4, <1>5, InitTreeKnown DEF TreeInv, NoneVanishes

\* A folder that goes under a parent whose way to the root avoids it closes no cycle.
LEMMA MoveAcyclic ==
  ASSUME TreeKnown, Acyclic, NEW x \in folders, NEW p \in folders \cup {Root}, NEW seen \in SUBSET folders,
         x \notin seen, p \in seen \cup {Root}, \A y \in seen : parent[y] \in seen \cup {Root},
         folders' = folders, parent' = [parent EXCEPT ![x] = p]
  PROVE  Acyclic'
<1>1. parent \in [Ids -> Parents] /\ folders \subseteq Ids /\ Root \notin folders
  BY FolderAssumption DEF TreeKnown, TypeOKTree
<1> SUFFICES ASSUME NEW S \in SUBSET folders, S # {}, \A y \in S : parent'[y] \in S
             PROVE  FALSE
  BY DEF Acyclic
<1>2. CASE x \notin S
  BY <1>1, <1>2 DEF Acyclic
<1>3. CASE x \in S
  <2>1. p \in S \cap seen
    BY <1>1, <1>3
  <2>2. \A y \in S \cap seen : parent[y] \in S \cap seen
    BY <1>1
  <2> QED
    BY <2>1, <2>2 DEF Acyclic
<1> QED
  BY <1>2, <1>3

\* A new folder has nothing inside.
LEMMA CreateAcyclic ==
  ASSUME TreeKnown, Acyclic, NEW x \in Ids \ born, NEW p \in folders \cup {Root},
         folders' = folders \cup {x}, parent' = [parent EXCEPT ![x] = p]
  PROVE  Acyclic'
<1>1. /\ parent \in [Ids -> Parents] /\ folders \subseteq Ids /\ Root \notin Ids /\ x \notin folders
      /\ \A y \in folders : parent[y] \in folders \cup {Root}
  BY FolderAssumption DEF TreeKnown, TypeOKTree
<1> SUFFICES ASSUME NEW S \in SUBSET (folders \cup {x}), S # {}, \A y \in S : parent'[y] \in S
             PROVE  FALSE
  BY DEF Acyclic
<1>2. \A y \in S \ {x} : parent[y] \in S \ {x}
  BY <1>1
<1>3. CASE S \ {x} = {}
  BY <1>1, <1>3
<1>4. CASE S \ {x} # {}
  BY <1>2, <1>4 DEF Acyclic
<1> QED
  BY <1>3, <1>4

\* What is inside a folder that goes moves to where the folder was.
LEMMA DeleteAcyclic ==
  ASSUME TreeKnown, Acyclic, NEW x \in folders, NEW up, up \in {Root, parent[x]},
         folders' = folders \ {x},
         parent' = [y \in Ids |-> IF y = x THEN Root ELSE IF y \in Inside(x) THEN up ELSE parent[y]]
  PROVE  Acyclic'
<1>1. folders \subseteq Ids /\ Root \notin Ids
  BY FolderAssumption DEF TreeKnown, TypeOKTree
<1> SUFFICES ASSUME NEW S \in SUBSET (folders \ {x}), S # {}, \A y \in S : parent'[y] \in S
             PROVE  FALSE
  BY DEF Acyclic
<1>2. \A y \in S : IF parent[y] = x THEN up \in S ELSE parent[y] \in S
  BY <1>1 DEF Inside
<1>3. CASE \E y \in S : parent[y] = x
  <2>1. parent[x] \in S
    BY <1>1, <1>2, <1>3
  <2>2. \A y \in S \cup {x} : parent[y] \in S \cup {x}
    BY <1>2, <2>1
  <2>3. S \cup {x} \in SUBSET folders
    OBVIOUS
  <2> QED
    BY <2>2, <2>3 DEF Acyclic
<1>4. CASE \A y \in S : parent[y] # x
  BY <1>2, <1>4 DEF Acyclic
<1> QED
  BY <1>3, <1>4

\* A request that is not overtaken knows the tree it walks, step after step.
LEMMA StepWalks == TreeInv /\ [NextTree]_treeVars => Walks'
<1> SUFFICES ASSUME TreeInv, [NextTree]_treeVars PROVE Walks'
  OBVIOUS
<1> USE FolderAssumption DEF TreeInv
<1>1. /\ folders \subseteq born /\ born \subseteq Ids /\ parent \in [Ids -> Parents]
      /\ req \in [Requests -> Walking] /\ KnownId /\ Root \notin Ids
  BY DEF TreeKnown, TypeOKTree, Walking
<1>2. ASSUME UNCHANGED <<folders, parent>>, NEW q \in Requests, NEW r,
             req' = [req EXCEPT ![q] = r], Walk(r), Lift(r)
      PROVE  Walks'
  <2> SUFFICES ASSUME NEW o \in Requests PROVE (Walk(req[o]) /\ Lift(req[o]))'
    BY DEF Walks
  <2>1. Walk(req'[o]) /\ Lift(req'[o])
    BY <1>1, <1>2 DEF Walks
  <2> QED
    BY <1>2, <2>1 DEF Walk, Lift
<1>3. \A r : r.at \notin {"climb", "write", "delete"} => Walk(r) /\ Lift(r)
  BY DEF Walk, Lift
<1>4. Idle.at \notin {"climb", "write", "delete"}
  BY DEF Idle
<1>5. ASSUME NEW q \in Requests, req' = TreeChanged(q) PROVE Walks'
  <2> SUFFICES ASSUME NEW o \in Requests PROVE (Walk(req[o]) /\ Lift(req[o]))'
    BY DEF Walks
  <2>1. req'[o].at \notin {"climb", "write", "delete"} \/ req'[o].stale
    <3>1. CASE o = q
      BY <1>4, <1>5, <3>1 DEF TreeChanged
    <3>2. CASE o # q
      <4>1. req'[o] = [req[o] EXCEPT !.stale = req[o].at # "idle"]
        BY <1>5, <3>2 DEF TreeChanged
      <4>2. req[o] \in Walking
        BY <1>1
      <4> QED
        BY <4>1, <4>2 DEF Walking
    <3> QED
      BY <3>1, <3>2
  <2> QED
    BY <2>1 DEF Walk, Lift
<1>6. CASE UNCHANGED treeVars
  BY <1>6 DEF treeVars, rows, Walks, Walk, Lift
<1>7. ASSUME NEW q \in Requests, StartCreate(q) \/ StartMove(q) \/ StartDelete(q) PROVE Walks'
  <2>1. PICK r : Receive(q, r) /\ Walk(r) /\ Lift(r)
    <3>1. CASE StartCreate(q)
      <4>1. PICK s \in {t \in Scopes : ValidScope(t)}, p \in Parents :
              Receive(q, [Idle EXCEPT !.at = IF p = Root THEN "write" ELSE "climb",
                                      !.to = p, !.cur = p, !.scope = s])
        BY <3>1 DEF StartCreate
      <4> DEFINE r == [Idle EXCEPT !.at = IF p = Root THEN "write" ELSE "climb",
                                   !.to = p, !.cur = p, !.scope = s]
      <4>2. Walk(r) /\ Lift(r)
        BY DEF Idle, Walk, Lift
      <4> HIDE DEF r
      <4> QED
        BY <4>1, <4>2 DEF r
    <3>2. CASE StartMove(q)
      <4>1. PICK x \in folders : \E p \in Parents \ {x} :
              Receive(q, [Idle EXCEPT !.at = IF p = Root THEN "write" ELSE "climb",
                                      !.id = x, !.to = p, !.cur = p, !.scope = scope[x]])
        BY <3>2 DEF StartMove
      <4>2. PICK p \in Parents \ {x} :
              Receive(q, [Idle EXCEPT !.at = IF p = Root THEN "write" ELSE "climb",
                                      !.id = x, !.to = p, !.cur = p, !.scope = scope[x]])
        BY <4>1
      <4> DEFINE r == [Idle EXCEPT !.at = IF p = Root THEN "write" ELSE "climb",
                                   !.id = x, !.to = p, !.cur = p, !.scope = scope[x]]
      <4>3. Walk(r) /\ Lift(r)
        BY DEF Idle, Walk, Lift
      <4> HIDE DEF r
      <4> QED
        BY <4>2, <4>3 DEF r
    <3>3. CASE StartDelete(q)
      <4>1. PICK x \in folders : Receive(q, [Idle EXCEPT !.at = "lift", !.id = x])
        BY <3>3 DEF StartDelete
      <4>2. [Idle EXCEPT !.at = "lift", !.id = x].at = "lift"
        BY DEF Idle
      <4> QED
        BY <1>3, <4>1, <4>2
    <3> QED
      BY <1>7, <3>1, <3>2, <3>3
  <2> QED
    BY <1>2, <2>1 DEF Receive, rows
<1>8. ASSUME NEW q \in Requests, ClimbUp(q) PROVE Walks'
  <2> DEFINE r == [req[q] EXCEPT !.cur = parent[req[q].cur], !.depth = req[q].depth + 1,
                                 !.seen = req[q].seen \cup {req[q].cur}]
  <2>1. req' = [req EXCEPT ![q] = r] /\ UNCHANGED <<folders, parent>>
    BY <1>1, <1>8 DEF ClimbUp, rows
  <2>2. /\ req[q] \in Walking /\ req[q].at = "climb" /\ req[q].cur \in folders
        /\ req[q].cur # req[q].id /\ Walk(req[q])
    BY <1>1, <1>8 DEF ClimbUp, Finds, Walks
  <2>3. Walk(r) /\ Lift(r)
    BY <2>2 DEF Walking, Walk, Lift
  <2> HIDE DEF r
  <2> QED
    BY <1>2, <2>1, <2>3
<1>9. ASSUME NEW q \in Requests, ClimbEnds(q) PROVE Walks'
  <2> DEFINE r == [req[q] EXCEPT !.at = "write"]
  <2>1. req' = [req EXCEPT ![q] = r] /\ UNCHANGED <<folders, parent>>
    BY <1>1, <1>9 DEF ClimbEnds, rows
  <2>2. /\ req[q] \in Walking /\ req[q].at = "climb" /\ req[q].cur = Root /\ Walk(req[q])
    BY <1>1, <1>9 DEF ClimbEnds, Walks
  <2>3. Walk(r) /\ Lift(r)
    BY <2>2 DEF Walking, Walk, Lift
  <2> HIDE DEF r
  <2> QED
    BY <1>2, <2>1, <2>3
<1>10. ASSUME NEW q \in Requests, ReadLift(q) PROVE Walks'
  <2> DEFINE up == IF req[q].id \in folders THEN parent[req[q].id] ELSE Root
             r == [req[q] EXCEPT !.at = "delete", !.to = up]
  <2>1. req' = [req EXCEPT ![q] = r] /\ UNCHANGED <<folders, parent>>
    BY <1>1, <1>10 DEF ReadLift, rows
  <2>2. req[q] \in Walking
    BY <1>1
  <2>3. Walk(r) /\ Lift(r)
    BY <2>2 DEF Walking, Walk, Lift
  <2> HIDE DEF r
  <2> QED
    BY <1>2, <2>1, <2>3
<1>11. ASSUME NEW q \in Requests, ClimbRefused(q) \/ WriteRefused(q) \/ DeleteRefused(q) \/ Dies(q)
       PROVE  Walks'
  <2>1. req' = [req EXCEPT ![q] = Idle] /\ UNCHANGED <<folders, parent>>
    BY <1>11 DEF ClimbRefused, WriteRefused, DeleteRefused, Dies, Reply, rows
  <2> QED
    BY <1>2, <1>3, <1>4, <2>1
<1>12. ASSUME NEW q \in Requests, CreateRow(q) PROVE Walks'
  <2>1. PICK x \in Ids \ born :
          /\ folders' = folders \cup {x}
          /\ parent' = [parent EXCEPT ![x] = req[q].to]
    BY <1>12 DEF CreateRow
  <2>2. \A y \in born : parent'[y] = parent[y]
    BY <1>1, <2>1
  <2>3. req' = [req EXCEPT ![q] = Idle]
    BY <1>12 DEF CreateRow, Reply
  <2> SUFFICES ASSUME NEW o \in Requests PROVE (Walk(req[o]) /\ Lift(req[o]))'
    BY DEF Walks
  <2>4. CASE o = q
    BY <1>1, <1>4, <2>3, <2>4 DEF Walk, Lift
  <2>5. CASE o # q
    <3>1. req'[o] = req[o] /\ req[o].id \in born \cup {Root} /\ Walk(req[o]) /\ Lift(req[o])
      BY <1>1, <2>3, <2>5 DEF KnownId, Walks
    <3>2. Walk(req[o])'
      BY <1>1, <2>1, <2>2, <3>1 DEF Walk
    <3>3. Lift(req[o])'
      BY <1>1, <2>1, <2>2, <3>1 DEF Lift
    <3> QED
      BY <3>2, <3>3
  <2> QED
    BY <2>4, <2>5
<1>13. ASSUME NEW q \in Requests, MoveRow(q) \/ DeleteRow(q) PROVE Walks'
  BY <1>5, <1>13 DEF MoveRow, DeleteRow
<1> QED
  BY <1>6, <1>7, <1>8, <1>9, <1>10, <1>11, <1>12, <1>13 DEF NextTree

LEMMA StepNoneVanishes == TreeInv /\ [NextTree]_treeVars => NoneVanishes'
<1> SUFFICES ASSUME TreeInv, [NextTree]_treeVars, ~clash' PROVE Acyclic'
  BY DEF NoneVanishes
<1> USE FolderAssumption DEF TreeInv
<1>1. /\ folders \subseteq born /\ born \subseteq Ids /\ parent \in [Ids -> Parents]
      /\ Root \notin Ids /\ clash \in BOOLEAN /\ \A q \in Requests : req[q] \in Walking
  BY DEF TreeKnown, TypeOKTree, Walking
<1>2. ASSUME UNCHANGED <<folders, parent, clash>> PROVE Acyclic'
  BY <1>2 DEF NoneVanishes, Acyclic
<1>3. CASE UNCHANGED treeVars
  BY <1>2, <1>3 DEF treeVars, rows
<1>4. ASSUME NEW q \in Requests, CreateRow(q) PROVE Acyclic'
  <2>1. PICK x \in Ids \ born :
          /\ req[q].to \in folders \cup {Root} /\ folders' = folders \cup {x}
          /\ parent' = [parent EXCEPT ![x] = req[q].to]
    BY <1>4 DEF CreateRow
  <2>2. Acyclic
    BY <1>4 DEF CreateRow, NoneVanishes
  <2> HIDE DEF TreeInv
  <2>3. TreeKnown
    BY DEF TreeInv
  <2> QED
    BY <2>1, <2>2, <2>3, CreateAcyclic
<1>5. ASSUME NEW q \in Requests, MoveRow(q) PROVE Acyclic'
  <2> DEFINE r == req[q]
  <2>1. /\ r.at = "write" /\ r.id \in folders /\ r.to \in folders \cup {Root} /\ ~r.stale
        /\ parent' = [parent EXCEPT ![r.id] = r.to] /\ folders' = folders /\ Acyclic
    BY <1>5 DEF MoveRow, NoneVanishes
  <2>2. Walk(r)
    BY DEF Walks
  <2>3. /\ r.seen \in SUBSET folders /\ r.id \notin r.seen /\ r.to \in r.seen \cup {Root}
        /\ \A y \in r.seen : parent[y] \in r.seen \cup {Root}
    BY <2>1, <2>2 DEF Walk
  <2>4. TreeKnown
    OBVIOUS
  <2> HIDE DEF r, TreeInv
  <2> QED
    BY <2>1, <2>3, <2>4, MoveAcyclic
<1>6. ASSUME NEW q \in Requests, DeleteRow(q) PROVE Acyclic'
  <2> DEFINE x == req[q].id
             up == IF req[q].to = x THEN Root ELSE req[q].to
  <2>1. /\ x \in folders /\ folders' = folders \ {x} /\ Acyclic
        /\ req[q].at = "delete" /\ ~req[q].stale
        /\ parent' = [y \in Ids |-> IF y = x THEN Root ELSE IF y \in Inside(x) THEN up ELSE parent[y]]
    BY <1>6 DEF DeleteRow, NoneVanishes
  <2>2. req[q].to = parent[x]
    BY <2>1 DEF Walks, Lift
  <2>3. up \in {Root, parent[x]} /\ TreeKnown
    BY <2>2
  <2> HIDE DEF x, up, TreeInv
  <2> QED
    BY <2>1, <2>3, DeleteAcyclic
<1> QED
  BY <1>2, <1>3, <1>4, <1>5, <1>6
  DEF NextTree, StartCreate, StartMove, StartDelete, Receive, ClimbUp, ClimbEnds, ClimbRefused,
      WriteRefused, ReadLift, DeleteRefused, Dies, rows

\* The parents of the folders never form a cycle, so none vanishes from the screens, unless
\* a request wrote after the tree it had walked was changed under it.
THEOREM NoFolderVanishes == SpecTree => []NoneVanishes
<1>1. TreeInv /\ [NextTree]_treeVars => TreeInv'
  BY StepTreeKnown, StepWalks, StepNoneVanishes DEF TreeInv
<1>2. SpecTree => []TreeInv
  BY InitTreeInv, <1>1, PTL DEF SpecTree
<1>3. TreeInv => NoneVanishes
  BY DEF TreeInv
<1> QED
  BY <1>2, <1>3, PTL

-----------------------------------------------------------------------------
(* No folder is too deep. *)

\* The depth of each folder, 1 for the roots.
Measures(L) ==
  \A x \in folders : IF parent[x] = Root THEN L[x] = 1 ELSE L[x] = L[parent[x]] + 1

\* The walk of a request that nothing overtook has counted the levels it left behind.
Tallied(L, r) ==
  ~r.stale =>
    /\ r.at = "climb" =>
         \/ r.cur = r.to /\ r.depth = 0
         \/ /\ r.to \in folders /\ r.cur \in folders \cup {Root}
            /\ L[r.to] = r.depth + (IF r.cur = Root THEN 0 ELSE L[r.cur])
    /\ r.at = "write" => r.to = Root \/ (r.to \in folders /\ L[r.to] < MaxDepth)

Leveled == \E L \in [folders -> 1 .. MaxDepth] : Measures(L) /\ \A q \in Requests : Tallied(L, req[q])

DeepInv == TreeInv /\ (clash \/ carried \/ Leveled)

\* One level up, from where m steps have led.
Up(y) == IF y = Root THEN Root ELSE parent[y]
Climbs(f, n) ==
  f = [m \in 0 .. n |-> [x \in folders |-> IF m = 0 THEN x ELSE Up(f[m - 1][x])]]

LEMMA ClimbsExist == \E f : Climbs(f, MaxDepth)
<1> SUFFICES ASSUME \A f : ~Climbs(f, MaxDepth) PROVE FALSE
  OBVIOUS
<1> DEFINE T == {n \in Nat : \A f : ~Climbs(f, n)}
<1>1. MaxDepth \in T
  BY FolderAssumption
<1>2. PICK n \in T : \A o \in T : n <= o
  <2> HIDE DEF T
  <2>1. \A p \in T : p \in Nat
    BY DEF T
  <2> QED
    BY <1>1, <2>1, LeastNumber
<1>3. n \in Nat /\ \A f : ~Climbs(f, n)
  OBVIOUS
<1>4. CASE n = 0
  <2> DEFINE f == [m \in 0 .. 0 |-> [x \in folders |-> x]]
  <2>1. ASSUME NEW m \in 0 .. 0
        PROVE  f[m] = [x \in folders |-> IF m = 0 THEN x ELSE Up(f[m - 1][x])]
    BY <2>1
  <2>2. f = [m \in 0 .. 0 |-> f[m]]
    OBVIOUS
  <2> HIDE DEF f
  <2>3. f = [m \in 0 .. 0 |-> [x \in folders |-> IF m = 0 THEN x ELSE Up(f[m - 1][x])]]
    BY <2>1, <2>2
  <2> QED
    BY <1>3, <1>4, <2>3 DEF Climbs
<1>5. CASE n # 0
  <2>1. n - 1 \in Nat /\ n - 1 \notin T
    BY <1>2, <1>3, <1>5
  <2>2. PICK g : Climbs(g, n - 1)
    BY <2>1
  <2>3. g = [m \in 0 .. n - 1 |-> [x \in folders |-> IF m = 0 THEN x ELSE Up(g[m - 1][x])]]
    BY <2>2 DEF Climbs
  <2> DEFINE f == [m \in 0 .. n |-> IF m = n THEN [x \in folders |-> Up(g[n - 1][x])] ELSE g[m]]
  <2> HIDE DEF T
  <2>4. ASSUME NEW m \in 0 .. n
        PROVE  f[m] = [x \in folders |-> IF m = 0 THEN x ELSE Up(f[m - 1][x])]
    <3>1. CASE m = n
      <4>1. f[m] = [x \in folders |-> Up(g[n - 1][x])] /\ f[m - 1] = g[n - 1] /\ m # 0
        BY <1>3, <1>5, <3>1
      <4> HIDE DEF f
      <4> QED
        BY <3>1, <4>1
    <3>2. CASE m # n
      <4>1. f[m] = g[m] /\ m \in 0 .. n - 1 /\ (m # 0 => f[m - 1] = g[m - 1])
        BY <1>3, <3>2
      <4> HIDE DEF f
      <4>2. g[m] = [x \in folders |-> IF m = 0 THEN x ELSE Up(g[m - 1][x])]
        BY <2>3, <4>1
      <4> QED
        BY <4>1, <4>2
    <3> QED
      BY <3>1, <3>2
  <2>5. f = [m \in 0 .. n |-> f[m]]
    OBVIOUS
  <2> HIDE DEF f
  <2>6. f = [m \in 0 .. n |-> [x \in folders |-> IF m = 0 THEN x ELSE Up(f[m - 1][x])]]
    BY <2>4, <2>5
  <2> QED
    BY <1>3, <2>6 DEF Climbs
<1> QED
  BY <1>4, <1>5

LEMMA ClimbedSteps == \A n \in 0 .. MaxDepth : \A x \in folders :
  climbed[n][x] = IF n = 0 THEN x ELSE Up(climbed[n - 1][x])
<1>1. PICK f : Climbs(f, MaxDepth)
  BY ClimbsExist
<1>2. Climbs(climbed, MaxDepth)
  BY <1>1 DEF Climbs, climbed, Up
<1>3. climbed = [m \in 0 .. MaxDepth |->
        [x \in folders |-> IF m = 0 THEN x ELSE Up(climbed[m - 1][x])]]
  BY <1>2 DEF Climbs
<1>4. ASSUME NEW n \in 0 .. MaxDepth
      PROVE  climbed[n] = [x \in folders |-> IF n = 0 THEN x ELSE Up(climbed[n - 1][x])]
  BY <1>3, Zenon
<1> QED
  BY <1>4, Zenon

\* Folders that are measured are within the limit.
LEMMA MeasuredShallow ==
  ASSUME TreeKnown, NEW L \in [folders -> 1 .. MaxDepth], Measures(L) PROVE Shallow
<1>1. /\ \A x \in folders : parent[x] \in folders \cup {Root}
      /\ Root \notin folders /\ MaxDepth \in Nat
  BY FolderAssumption DEF TreeKnown, TypeOKTree
<1>2. /\ \A x \in folders : L[x] \in Nat /\ L[x] >= 1 /\ L[x] <= MaxDepth
      /\ \A x \in folders : IF parent[x] = Root THEN L[x] = 1 ELSE L[x] = L[parent[x]] + 1
  BY <1>1 DEF Measures
<1> SUFFICES ASSUME NEW x \in folders PROVE climbed[MaxDepth][x] = Root
  BY DEF Shallow
<1> DEFINE Near(n, y) == y = Root \/ (y \in folders /\ L[y] + n <= MaxDepth)
           T == {n \in 0 .. MaxDepth : ~Near(n, climbed[n][x])}
<1>3. T = {}
  <2> SUFFICES ASSUME T # {} PROVE FALSE
    OBVIOUS
  <2>1. PICK n \in T : \A o \in T : n <= o
    <3>1. \A p \in T : p \in Nat
      BY <1>1
    <3> HIDE DEF T
    <3> QED
      BY <3>1, LeastNumber
  <2>2. n \in 0 .. MaxDepth /\ ~Near(n, climbed[n][x]) /\ n \in Nat
    BY <1>1
  <2>3. climbed[n][x] = IF n = 0 THEN x ELSE Up(climbed[n - 1][x])
    BY <2>2, ClimbedSteps
  <2>4. n # 0
    BY <1>2, <2>2, <2>3
  <2>5. n - 1 \in 0 .. MaxDepth /\ n - 1 \notin T
    BY <1>1, <2>1, <2>2, <2>4
  <2>6. Near(n - 1, climbed[n - 1][x])
    BY <2>5
  <2> HIDE DEF T
  <2> QED
    BY <1>1, <1>2, <2>2, <2>3, <2>4, <2>6 DEF Up
<1>4. Near(MaxDepth, climbed[MaxDepth][x])
  BY <1>1, <1>3
<1> QED
  BY <1>1, <1>2, <1>4

\* A folder that goes lifts what hangs from it, however deep, by one level.
LEMMA DeleteMeasured ==
  ASSUME TreeKnown, NEW L \in [folders -> 1 .. MaxDepth], Measures(L), NEW x \in folders, NEW up,
         up = IF parent[x] = x THEN Root ELSE parent[x],
         folders' = folders \ {x},
         parent' = [y \in Ids |-> IF y = x THEN Root ELSE IF y \in Inside(x) THEN up ELSE parent[y]]
  PROVE  \E K \in [folders' -> 1 .. MaxDepth] : \A y \in folders' :
           IF parent'[y] = Root THEN K[y] = 1 ELSE K[y] = K[parent'[y]] + 1
<1>1. /\ folders \subseteq Ids /\ Root \notin folders /\ MaxDepth \in Nat
      /\ \A y \in folders : parent[y] \in folders \cup {Root}
  BY FolderAssumption DEF TreeKnown, TypeOKTree
<1>2. /\ \A y \in folders : L[y] \in Nat /\ L[y] >= 1 /\ L[y] <= MaxDepth
      /\ \A y \in folders : IF parent[y] = Root THEN L[y] = 1 ELSE L[y] = L[parent[y]] + 1
  BY <1>1 DEF Measures
<1>3. parent[x] # x /\ up = parent[x]
  BY <1>1, <1>2
<1> DEFINE Closed(S) == x \in S /\ \A y \in folders : parent[y] \in S => y \in S
           Below == {y \in folders : \A S \in SUBSET folders : Closed(S) => y \in S}
<1>4. x \in Below
  OBVIOUS
<1>5. ASSUME NEW y \in folders, parent[y] \in Below PROVE y \in Below
  BY <1>5
<1>6. ASSUME NEW y \in Below, y # x PROVE parent[y] \in Below
  <2> SUFFICES ASSUME parent[y] \notin Below PROVE FALSE
    OBVIOUS
  <2>1. Closed(Below \ {y})
    <3> HIDE DEF Below
    <3> QED
      BY <1>4, <1>5, <1>6
  <2>2. Below \ {y} \in SUBSET folders
    OBVIOUS
  <2> QED
    BY <2>1, <2>2
<1>7. \A y \in Below : L[y] >= L[x]
  <2> DEFINE S == {y \in folders : L[y] >= L[x]}
  <2>1. x \in S
    BY <1>2
  <2>2. ASSUME NEW y \in folders, parent[y] \in S PROVE y \in S
    BY <1>1, <1>2, <2>2
  <2>3. Closed(S) /\ S \in SUBSET folders
    BY <2>1, <2>2
  <2>4. Below \subseteq S
    BY <2>3
  <2> QED
    BY <2>4
<1>8. parent[x] \notin Below /\ Below \subseteq folders
  BY <1>1, <1>2, <1>7
<1> HIDE DEF Below
<1> DEFINE K == [y \in folders \ {x} |-> IF y \in Below THEN L[y] - 1 ELSE L[y]]
<1>9. ASSUME NEW y \in folders \ {x}
      PROVE  /\ parent'[y] = IF parent[y] = x THEN parent[x] ELSE parent[y]
             /\ K[y] = IF y \in Below THEN L[y] - 1 ELSE L[y]
  BY <1>1, <1>3 DEF Inside
<1>10. ASSUME NEW y \in folders \ {x}
       PROVE  /\ K[y] \in 1 .. MaxDepth
              /\ IF parent'[y] = Root THEN K[y] = 1 ELSE K[y] = K[parent'[y]] + 1
  <2> HIDE DEF K
  <2>1. CASE y \notin Below
    <3>1. parent[y] \notin Below /\ parent[y] # x /\ parent'[y] = parent[y]
      BY <1>4, <1>5, <1>9, <2>1
    <3> QED
      BY <1>1, <1>2, <1>9, <2>1, <3>1
  <2>2. CASE y \in Below /\ parent[y] = x
    <3>1. parent'[y] = parent[x] /\ K[y] = L[x] /\ L[y] = L[x] + 1
      BY <1>1, <1>2, <1>9, <2>2
    <3>2. parent[x] \in folders => K[parent[x]] = L[parent[x]]
      BY <1>3, <1>8, <1>9
    <3> QED
      BY <1>1, <1>2, <3>1, <3>2
  <2>3. CASE y \in Below /\ parent[y] # x
    <3>1. parent[y] \in Below \ {x} /\ parent'[y] = parent[y]
      BY <1>6, <1>9, <2>3
    <3>2. parent[y] \in folders /\ parent[y] # Root /\ L[y] = L[parent[y]] + 1
      BY <1>1, <1>2, <1>8, <3>1
    <3>3. K[y] = L[y] - 1 /\ L[y] \in Nat /\ L[y] <= MaxDepth
      BY <1>2, <1>9, <2>3
    <3>4. PICK z \in folders \ {x} : z = parent[y] /\ z \in Below
      BY <3>1, <3>2
    <3>5. K[z] = L[z] - 1 /\ L[z] \in Nat /\ L[z] >= 1
      BY <1>2, <1>9, <3>4
    <3> QED
      BY <1>1, <3>1, <3>2, <3>3, <3>4, <3>5
  <2> QED
    BY <2>1, <2>2, <2>3
<1>11. K \in [folders' -> 1 .. MaxDepth]
  BY <1>10
<1> HIDE DEF K
<1> QED
  BY <1>10, <1>11

\* A new folder is a level below its parent, and nothing is below it.
LEMMA CreateMeasured ==
  ASSUME TreeKnown, NEW L \in [folders -> 1 .. MaxDepth], Measures(L),
         NEW x \in Ids \ born, NEW p \in folders \cup {Root},
         p = Root \/ L[p] < MaxDepth,
         folders' = folders \cup {x}, parent' = [parent EXCEPT ![x] = p]
  PROVE  \E K \in [folders' -> 1 .. MaxDepth] :
           /\ \A y \in folders' : IF parent'[y] = Root THEN K[y] = 1 ELSE K[y] = K[parent'[y]] + 1
           /\ \A y \in folders : K[y] = L[y]
<1>1. /\ folders \subseteq Ids /\ Root \notin folders /\ Root \notin Ids /\ MaxDepth \in Nat /\ MaxDepth >= 1
      /\ \A y \in folders : parent[y] \in folders \cup {Root}
      /\ x \notin folders /\ parent \in [Ids -> Parents]
  BY FolderAssumption DEF TreeKnown, TypeOKTree
<1>2. /\ \A y \in folders : L[y] \in Nat /\ L[y] >= 1 /\ L[y] <= MaxDepth
      /\ \A y \in folders : IF parent[y] = Root THEN L[y] = 1 ELSE L[y] = L[parent[y]] + 1
  BY <1>1 DEF Measures
<1> DEFINE depth == IF p = Root THEN 1 ELSE L[p] + 1
           K == [y \in folders \cup {x} |-> IF y = x THEN depth ELSE L[y]]
<1>3. depth \in 1 .. MaxDepth
  BY <1>1, <1>2
<1>4. K[x] = depth /\ \A y \in folders : K[y] = L[y] /\ parent'[y] = parent[y]
  BY <1>1
<1>5. K \in [folders' -> 1 .. MaxDepth]
  BY <1>1, <1>2, <1>3
<1>6. parent'[x] = p
  BY <1>1
<1> HIDE DEF K
<1>7. ASSUME NEW y \in folders'
      PROVE  IF parent'[y] = Root THEN K[y] = 1 ELSE K[y] = K[parent'[y]] + 1
  <2>1. CASE y = x
    BY <1>1, <1>4, <1>6, <2>1
  <2>2. CASE y # x
    BY <1>1, <1>2, <1>4, <2>2
  <2> QED
    BY <2>1, <2>2
<1> QED
  BY <1>4, <1>5, <1>7

\* A folder that moves alone is measured again, and no other is.
LEMMA MoveMeasured ==
  ASSUME TreeKnown, NEW L \in [folders -> 1 .. MaxDepth], Measures(L),
         NEW x \in folders, NEW p \in folders \cup {Root}, p # x,
         p = Root \/ L[p] < MaxDepth, \A y \in folders : parent[y] # x,
         folders' = folders, parent' = [parent EXCEPT ![x] = p]
  PROVE  \E K \in [folders' -> 1 .. MaxDepth] : \A y \in folders' :
           IF parent'[y] = Root THEN K[y] = 1 ELSE K[y] = K[parent'[y]] + 1
<1>1. /\ folders \subseteq Ids /\ Root \notin folders /\ MaxDepth \in Nat /\ MaxDepth >= 1
      /\ \A y \in folders : parent[y] \in folders \cup {Root}
      /\ parent \in [Ids -> Parents]
  BY FolderAssumption DEF TreeKnown, TypeOKTree
<1>2. /\ \A y \in folders : L[y] \in Nat /\ L[y] >= 1 /\ L[y] <= MaxDepth
      /\ \A y \in folders : IF parent[y] = Root THEN L[y] = 1 ELSE L[y] = L[parent[y]] + 1
  BY <1>1 DEF Measures
<1> DEFINE depth == IF p = Root THEN 1 ELSE L[p] + 1
           K == [y \in folders |-> IF y = x THEN depth ELSE L[y]]
<1>3. depth \in 1 .. MaxDepth
  BY <1>1, <1>2
<1>4. K[x] = depth /\ \A y \in folders : y # x => K[y] = L[y] /\ parent'[y] = parent[y]
  BY <1>1
<1>5. K \in [folders' -> 1 .. MaxDepth]
  BY <1>1, <1>2, <1>3
<1>6. parent'[x] = p
  BY <1>1
<1> HIDE DEF K
<1>7. ASSUME NEW y \in folders'
      PROVE  IF parent'[y] = Root THEN K[y] = 1 ELSE K[y] = K[parent'[y]] + 1
  <2>1. CASE y = x
    BY <1>1, <1>4, <1>6, <2>1
  <2>2. CASE y # x
    BY <1>1, <1>2, <1>4, <2>2
  <2> QED
    BY <2>1, <2>2
<1> QED
  BY <1>5, <1>7

LEMMA InitDeepInv == InitTree => DeepInv
<1> SUFFICES ASSUME InitTree PROVE Leveled
  BY InitTreeInv DEF DeepInv
<1>1. PICK L \in [folders -> 1 .. MaxDepth] : \A x \in folders :
        IF parent[x] = Root THEN L[x] = 1
        ELSE parent[x] \in folders /\ L[x] = L[parent[x]] + 1
  BY DEF InitTree
<1>2. Measures(L)
  BY <1>1 DEF Measures
<1>3. \A q \in Requests : Tallied(L, req[q])
  BY DEF InitTree, Idle, Tallied
<1> QED
  BY <1>2, <1>3 DEF Leveled

LEMMA StepLeveled ==
  ASSUME TreeInv, clash \/ carried \/ Leveled, [NextTree]_treeVars, ~clash', ~carried'
  PROVE  Leveled'
<1> USE FolderAssumption
<1>1. /\ folders \subseteq born /\ born \subseteq Ids /\ parent \in [Ids -> Parents]
      /\ \A x \in folders : parent[x] \in folders \cup {Root}
      /\ Root \notin Ids /\ req \in [Requests -> Walking]
      /\ clash \in BOOLEAN /\ carried \in BOOLEAN
  BY DEF TreeInv, TreeKnown, TypeOKTree, Walking
<1>2. ~clash /\ ~carried
  BY <1>1, ZenonT(40) DEF NextTree, StartCreate, StartMove, StartDelete, Receive, ClimbUp, ClimbEnds, ClimbRefused,
      CreateRow, MoveRow, DeleteRow, WriteRefused, ReadLift, DeleteRefused, Dies, treeVars
<1>3. PICK L \in [folders -> 1 .. MaxDepth] : Measures(L) /\ \A q \in Requests : Tallied(L, req[q])
  BY <1>2 DEF Leveled
<1>4. TreeKnown
  BY DEF TreeInv
<1>5. \A x \in folders : /\ L[x] \in 1 .. MaxDepth
                         /\ IF parent[x] = Root THEN L[x] = 1 ELSE L[x] = L[parent[x]] + 1
  BY <1>3 DEF Measures
<1>6. ASSUME UNCHANGED <<folders, parent>>, NEW q \in Requests, NEW r,
             req' = [req EXCEPT ![q] = r], Tallied(L, r)
      PROVE  Leveled'
  <2>1. L \in [folders' -> 1 .. MaxDepth] /\ Measures(L)'
    BY <1>3, <1>6 DEF Measures
  <2>2. ASSUME NEW o \in Requests PROVE Tallied(L, req[o])'
    <3>1. Tallied(L, req'[o])
      BY <1>1, <1>3, <1>6
    <3> QED
      BY <1>6, <3>1 DEF Tallied
  <2> QED
    BY <2>1, <2>2 DEF Leveled
<1>7. \A r : r.at \notin {"climb", "write"} => Tallied(L, r)
  BY DEF Tallied
<1>8. Idle.at = "idle"
  BY DEF Idle
<1>9. CASE UNCHANGED treeVars
  BY <1>3, <1>9 DEF treeVars, rows, Leveled, Measures, Tallied
<1>10. ASSUME NEW q \in Requests, StartCreate(q) \/ StartMove(q) \/ StartDelete(q) PROVE Leveled'
  <2>1. PICK r : Receive(q, r) /\ Tallied(L, r)
    <3>1. CASE StartCreate(q)
      <4>1. PICK s \in {t \in Scopes : ValidScope(t)}, p \in Parents :
              Receive(q, [Idle EXCEPT !.at = IF p = Root THEN "write" ELSE "climb",
                                      !.to = p, !.cur = p, !.scope = s])
        BY <3>1 DEF StartCreate
      <4> DEFINE r == [Idle EXCEPT !.at = IF p = Root THEN "write" ELSE "climb",
                                   !.to = p, !.cur = p, !.scope = s]
      <4>2. Tallied(L, r)
        BY DEF Idle, Tallied
      <4> HIDE DEF r
      <4> QED
        BY <4>1, <4>2 DEF r
    <3>2. CASE StartMove(q)
      <4>1. PICK x \in folders : \E p \in Parents \ {x} :
              Receive(q, [Idle EXCEPT !.at = IF p = Root THEN "write" ELSE "climb",
                                      !.id = x, !.to = p, !.cur = p, !.scope = scope[x]])
        BY <3>2 DEF StartMove
      <4>2. PICK p \in Parents \ {x} :
              Receive(q, [Idle EXCEPT !.at = IF p = Root THEN "write" ELSE "climb",
                                      !.id = x, !.to = p, !.cur = p, !.scope = scope[x]])
        BY <4>1
      <4> DEFINE r == [Idle EXCEPT !.at = IF p = Root THEN "write" ELSE "climb",
                                   !.id = x, !.to = p, !.cur = p, !.scope = scope[x]]
      <4>3. Tallied(L, r)
        BY DEF Idle, Tallied
      <4> HIDE DEF r
      <4> QED
        BY <4>2, <4>3 DEF r
    <3>3. CASE StartDelete(q)
      <4>1. PICK x \in folders : Receive(q, [Idle EXCEPT !.at = "lift", !.id = x])
        BY <3>3 DEF StartDelete
      <4>2. [Idle EXCEPT !.at = "lift", !.id = x].at = "lift"
        BY DEF Idle
      <4> QED
        BY <1>7, <4>1, <4>2
    <3> QED
      BY <1>10, <3>1, <3>2, <3>3
  <2> QED
    BY <1>6, <2>1 DEF Receive, rows
<1>11. ASSUME NEW q \in Requests, ClimbUp(q) PROVE Leveled'
  <2> DEFINE r == [req[q] EXCEPT !.cur = parent[req[q].cur], !.depth = req[q].depth + 1,
                                 !.seen = req[q].seen \cup {req[q].cur}]
  <2>1. req' = [req EXCEPT ![q] = r] /\ UNCHANGED <<folders, parent>>
    BY <1>1, <1>11 DEF ClimbUp, rows
  <2>2. /\ req[q] \in Walking /\ req[q].at = "climb" /\ req[q].cur \in folders /\ req[q].cur # Root
        /\ Tallied(L, req[q])
    BY <1>1, <1>3, <1>11 DEF ClimbUp, Finds
  <2>3. /\ r.at = "climb" /\ r.stale = req[q].stale /\ r.to = req[q].to
        /\ r.cur = parent[req[q].cur] /\ r.depth = req[q].depth + 1 /\ req[q].depth \in Nat
    BY <2>2 DEF Walking
  <2> HIDE DEF r
  <2>4. Tallied(L, r)
    <3> SUFFICES ASSUME ~req[q].stale
                 PROVE  /\ req[q].to \in folders /\ r.cur \in folders \cup {Root}
                        /\ L[req[q].to] = r.depth + (IF r.cur = Root THEN 0 ELSE L[r.cur])
      BY <2>3 DEF Tallied
    <3>1. req[q].to \in folders /\ L[req[q].to] = req[q].depth + L[req[q].cur]
      BY <1>5, <2>2, <2>3 DEF Tallied
    <3>2. r.cur \in folders \cup {Root} /\ r.cur = parent[req[q].cur]
      BY <1>1, <2>2, <2>3
    <3>3. CASE r.cur = Root
      <4>1. parent[req[q].cur] = Root
        BY <3>2, <3>3
      <4>2. L[req[q].cur] = 1
        BY <1>5, <2>2, <4>1
      <4> QED
        BY <2>3, <3>1, <3>2, <3>3, <4>2
    <3>4. CASE r.cur # Root
      BY <1>5, <2>2, <2>3, <3>1, <3>2, <3>4
    <3> QED
      BY <3>1, <3>2, <3>3, <3>4
  <2> QED
    BY <1>6, <2>1, <2>4
<1>12. ASSUME NEW q \in Requests, ClimbEnds(q) PROVE Leveled'
  <2> DEFINE r == [req[q] EXCEPT !.at = "write"]
  <2>1. req' = [req EXCEPT ![q] = r] /\ UNCHANGED <<folders, parent>>
    BY <1>1, <1>12 DEF ClimbEnds, rows
  <2>2. /\ req[q] \in Walking /\ req[q].at = "climb" /\ req[q].cur = Root /\ req[q].depth < MaxDepth
        /\ Tallied(L, req[q])
    BY <1>1, <1>3, <1>12 DEF ClimbEnds
  <2>3. r.at = "write" /\ r.stale = req[q].stale /\ r.to = req[q].to /\ req[q].depth \in Nat
    BY <2>2 DEF Walking
  <2> HIDE DEF r
  <2>4. Tallied(L, r)
    BY <2>2, <2>3 DEF Tallied
  <2> QED
    BY <1>6, <2>1, <2>4
<1>13. ASSUME NEW q \in Requests, ReadLift(q) PROVE Leveled'
  <2> DEFINE up == IF req[q].id \in folders THEN parent[req[q].id] ELSE Root
             r == [req[q] EXCEPT !.at = "delete", !.to = up]
  <2>1. req' = [req EXCEPT ![q] = r] /\ UNCHANGED <<folders, parent>>
    BY <1>1, <1>13 DEF ReadLift, rows
  <2>2. r.at = "delete"
    BY <1>1 DEF Walking
  <2> HIDE DEF r
  <2> QED
    BY <1>6, <1>7, <2>1, <2>2
<1>14. ASSUME NEW q \in Requests, ClimbRefused(q) \/ WriteRefused(q) \/ DeleteRefused(q) \/ Dies(q)
       PROVE  Leveled'
  <2>1. req' = [req EXCEPT ![q] = Idle] /\ UNCHANGED <<folders, parent>>
    BY <1>14 DEF ClimbRefused, WriteRefused, DeleteRefused, Dies, Reply, rows
  <2> QED
    BY <1>6, <1>7, <1>8, <2>1
<1>15. ASSUME NEW q \in Requests, CreateRow(q) PROVE Leveled'
  <2>1. PICK x \in Ids \ born :
          /\ req[q].to \in folders \cup {Root} /\ folders' = folders \cup {x}
          /\ parent' = [parent EXCEPT ![x] = req[q].to]
    BY <1>15 DEF CreateRow
  <2>2. req[q].at = "write" /\ ~req[q].stale /\ req' = [req EXCEPT ![q] = Idle]
    BY <1>1, <1>15 DEF CreateRow, Reply
  <2>3. req[q].to = Root \/ L[req[q].to] < MaxDepth
    BY <1>3, <2>2 DEF Tallied
  <2>4. PICK K \in [folders' -> 1 .. MaxDepth] :
          /\ \A y \in folders' : IF parent'[y] = Root THEN K[y] = 1 ELSE K[y] = K[parent'[y]] + 1
          /\ \A y \in folders : K[y] = L[y]
    BY <1>3, <1>4, <2>1, <2>3, CreateMeasured
  <2>5. ASSUME NEW o \in Requests PROVE Tallied(K, req[o])'
    <3>1. CASE o = q
      BY <1>1, <1>8, <2>2, <3>1 DEF Tallied
    <3>2. CASE o # q
      <4>1. req'[o] = req[o] /\ Tallied(L, req[o])
        BY <1>3, <2>2, <3>2
      <4> QED
        BY <1>1, <2>1, <2>4, <4>1 DEF Tallied
    <3> QED
      BY <3>1, <3>2
  <2> QED
    BY <2>4, <2>5 DEF Leveled, Measures
<1>16. ASSUME NEW q \in Requests, req' = TreeChanged(q),
              NEW K \in [folders' -> 1 .. MaxDepth],
              \A y \in folders' : IF parent'[y] = Root THEN K[y] = 1 ELSE K[y] = K[parent'[y]] + 1
       PROVE  Leveled'
  <2>1. ASSUME NEW o \in Requests PROVE req'[o].at \notin {"climb", "write"} \/ req'[o].stale
    <3>1. CASE o = q
      BY <1>8, <1>16, <3>1 DEF TreeChanged
    <3>2. CASE o # q
      <4>1. req'[o] = [req[o] EXCEPT !.stale = req[o].at # "idle"]
        BY <1>16, <3>2 DEF TreeChanged
      <4>2. req[o] \in Walking
        BY <1>1
      <4> QED
        BY <4>1, <4>2 DEF Walking
    <3> QED
      BY <3>1, <3>2
  <2> QED
    BY <1>16, <2>1 DEF Leveled, Measures, Tallied
<1>17. ASSUME NEW q \in Requests, MoveRow(q) PROVE Leveled'
  <2> DEFINE x == req[q].id
             p == req[q].to
  <2>1. /\ req[q].at = "write" /\ x \in folders /\ p \in folders \cup {Root} /\ ~req[q].stale
        /\ parent' = [parent EXCEPT ![x] = p] /\ folders' = folders /\ req' = TreeChanged(q)
        /\ \A y \in folders : parent[y] # x
    BY <1>17 DEF MoveRow
  <2>2. Walk(req[q])
    BY DEF TreeInv, Walks
  <2>3. p # x
    BY <1>1, <2>1, <2>2 DEF Walk
  <2>4. p = Root \/ L[p] < MaxDepth
    BY <1>3, <2>1 DEF Tallied
  <2> HIDE DEF x, p
  <2>5. \E K \in [folders' -> 1 .. MaxDepth] : \A y \in folders' :
          IF parent'[y] = Root THEN K[y] = 1 ELSE K[y] = K[parent'[y]] + 1
    BY <1>3, <1>4, <2>1, <2>3, <2>4, MoveMeasured
  <2> QED
    BY <1>16, <2>1, <2>5
<1>18. ASSUME NEW q \in Requests, DeleteRow(q) PROVE Leveled'
  <2> DEFINE x == req[q].id
             up == IF req[q].to = x THEN Root ELSE req[q].to
  <2>1. /\ x \in folders /\ folders' = folders \ {x} /\ req' = TreeChanged(q)
        /\ req[q].at = "delete" /\ ~req[q].stale
        /\ parent' = [y \in Ids |-> IF y = x THEN Root ELSE IF y \in Inside(x) THEN up ELSE parent[y]]
    BY <1>18 DEF DeleteRow
  <2>2. req[q].to = parent[x]
    BY <2>1 DEF TreeInv, Walks, Lift
  <2>3. up = IF parent[x] = x THEN Root ELSE parent[x]
    BY <2>2
  <2> HIDE DEF x, up
  <2>4. \E K \in [folders' -> 1 .. MaxDepth] : \A y \in folders' :
          IF parent'[y] = Root THEN K[y] = 1 ELSE K[y] = K[parent'[y]] + 1
    BY <1>3, <1>4, <2>1, <2>3, DeleteMeasured
  <2> QED
    BY <1>16, <2>1, <2>4
<1> QED
  BY <1>9, <1>10, <1>11, <1>12, <1>13, <1>14, <1>15, <1>17, <1>18 DEF NextTree

\* A folder is deeper than MAX_DEPTH only if a move carried folders along, or a request
\* wrote after the tree it had walked was changed under it.
THEOREM DepthIsKept == SpecTree => []DeepOnlyIfCarried
<1>1. DeepInv /\ [NextTree]_treeVars => DeepInv'
  BY StepTreeKnown, StepWalks, StepNoneVanishes, StepLeveled DEF DeepInv, TreeInv
<1>2. SpecTree => []DeepInv
  BY InitDeepInv, <1>1, PTL DEF SpecTree
<1>3. DeepInv => DeepOnlyIfCarried
  BY MeasuredShallow DEF DeepInv, TreeInv, Leveled, DeepOnlyIfCarried
<1> QED
  BY <1>2, <1>3, PTL

-----------------------------------------------------------------------------
(* Attachments: MessageFiles. *)

Tpl == [is : {"free", "row", "gone"}, file : Files]
Msg == [is : {"free", "pending", "done"}, file : Files, path : BOOLEAN]
AskRow == [at : {"idle", "create", "patch", "erase", "count", "remove"},
            tpl : TplIds \cup {None}, file : Files, old : Files]
FileSend == [at : {"idle", "send"}, file : Files, path : BOOLEAN]

FilesTyped ==
  /\ uploaded \subseteq FileIds /\ ruled \subseteq TplIds
  /\ tpl \in [TplIds -> Tpl] /\ msg \in [MsgIds -> Msg]
  /\ ask \in [Askers -> AskRow] /\ sender \in [Senders -> FileSend]

\* A file that is in the storage, and that no request has decided to remove.
SafeFile(f) == f \in store /\ \A q \in Askers : ask[q].at = "remove" => ask[q].old # f

NamedAreSafe ==
  /\ \A t \in TplRows \ exposed : tpl[t].file # None => SafeFile(tpl[t].file)
  /\ \A m \in PendingMsgs \ exposed : msg[m].path /\ msg[m].file # None => SafeFile(msg[m].file)

FilesInv == FilesTyped /\ NamedAreSafe

-----------------------------------------------------------------------------
LEMMA Blanks == NoTpl \in Tpl /\ NoMsg \in Msg /\ NoAsk \in AskRow /\ NoSender \in FileSend
  BY DEF NoTpl, Tpl, NoMsg, Msg, NoAsk, AskRow, NoSender, FileSend, Files

LEMMA InitFilesInv == InitFiles => FilesInv
<1> SUFFICES ASSUME InitFiles PROVE FilesInv
  OBVIOUS
<1>1. FilesTyped
  BY Blanks DEF InitFiles, FilesTyped
<1>2. NamedAreSafe
  BY DEF InitFiles, NamedAreSafe, TplRows, PendingMsgs, NoTpl, NoMsg
<1> QED
  BY <1>1, <1>2 DEF FilesInv

LEMMA StepFilesTyped == FilesTyped /\ [NextFiles]_fileVars => FilesTyped'
<1> SUFFICES ASSUME FilesTyped, [NextFiles]_fileVars PROVE FilesTyped'
  OBVIOUS
<1>1. /\ uploaded \subseteq FileIds /\ ruled \subseteq TplIds
      /\ tpl \in [TplIds -> Tpl] /\ msg \in [MsgIds -> Msg]
      /\ ask \in [Askers -> AskRow] /\ sender \in [Senders -> FileSend]
  BY DEF FilesTyped
<1>2. ASSUME NEW q \in Askers, NEW r \in AskRow, ask' = [ask EXCEPT ![q] = r]
      PROVE  ask' \in [Askers -> AskRow]
  BY <1>1, <1>2
<1>3. NoAsk \in AskRow /\ uploaded \cup {None} \subseteq Files
  BY <1>1, Blanks DEF Files
<1>4. CASE UNCHANGED fileVars
  BY <1>1, <1>4 DEF fileVars, FilesTyped
<1>5. CASE UploadFile
  BY <1>1, <1>5 DEF UploadFile, FilesTyped
<1>6. ASSUME NEW q \in Askers, AskCreate(q) \/ AskCopy(q) \/ AskUpdate(q) \/ AskDelete(q) PROVE FilesTyped'
  <2>1. \E r \in AskRow : ask' = [ask EXCEPT ![q] = r]
    <3>1. CASE AskCreate(q)
      <4>1. PICK f \in uploaded \cup {None} : ask' = [ask EXCEPT ![q] = [NoAsk EXCEPT !.at = "create", !.file = f]]
        BY <3>1 DEF AskCreate, Ask
      <4>2. [NoAsk EXCEPT !.at = "create", !.file = f] \in AskRow
        BY <1>3 DEF AskRow
      <4> QED
        BY <4>1, <4>2
    <3>2. CASE AskCopy(q)
      <4>1. PICK t \in TplRows : ask' = [ask EXCEPT ![q] = [NoAsk EXCEPT !.at = "create", !.file = tpl[t].file]]
        BY <3>2 DEF AskCopy, Ask
      <4>2. tpl[t].file \in Files
        BY <1>1 DEF TplRows, Tpl
      <4>3. [NoAsk EXCEPT !.at = "create", !.file = tpl[t].file] \in AskRow
        BY <1>3, <4>2 DEF AskRow
      <4> QED
        BY <4>1, <4>3
    <3>3. CASE AskUpdate(q)
      <4>1. PICK t \in TplRows : \E f \in uploaded \cup {None} :
              ask' = [ask EXCEPT ![q] = [at |-> "patch", tpl |-> t, file |-> f, old |-> tpl[t].file]]
        BY <3>3 DEF AskUpdate, Ask
      <4>2. PICK f \in uploaded \cup {None} :
              ask' = [ask EXCEPT ![q] = [at |-> "patch", tpl |-> t, file |-> f, old |-> tpl[t].file]]
        BY <4>1
      <4>3. tpl[t].file \in Files /\ t \in TplIds
        BY <1>1 DEF TplRows, Tpl
      <4>4. [at |-> "patch", tpl |-> t, file |-> f, old |-> tpl[t].file] \in AskRow
        BY <1>3, <4>3 DEF AskRow
      <4> QED
        BY <4>2, <4>4
    <3>4. CASE AskDelete(q)
      <4>1. PICK t \in TplRows : ask' = [ask EXCEPT ![q] = [NoAsk EXCEPT !.at = "erase", !.tpl = t, !.old = tpl[t].file]]
        BY <3>4 DEF AskDelete, Ask
      <4>2. tpl[t].file \in Files /\ t \in TplIds
        BY <1>1 DEF TplRows, Tpl
      <4>3. [NoAsk EXCEPT !.at = "erase", !.tpl = t, !.old = tpl[t].file] \in AskRow
        BY <1>3, <4>2 DEF AskRow
      <4> QED
        BY <4>1, <4>3
    <3> QED
      BY <1>6, <3>1, <3>2, <3>3, <3>4
  <2>2. ask' \in [Askers -> AskRow]
    BY <1>2, <2>1
  <2> QED
    BY <1>1, <1>6, <2>2 DEF AskCreate, AskCopy, AskUpdate, AskDelete, FilesTyped
<1>7. ASSUME NEW q \in Askers, InsertTpl(q) PROVE FilesTyped'
  <2>1. PICK t \in TplIds : tpl' = [tpl EXCEPT ![t] = [is |-> "row", file |-> ask[q].file]]
    BY <1>7 DEF InsertTpl
  <2>2. ask[q].file \in Files
    BY <1>1 DEF AskRow
  <2>3. tpl' \in [TplIds -> Tpl]
    BY <1>1, <2>1, <2>2 DEF Tpl
  <2> QED
    BY <1>1, <1>2, <1>3, <1>7, <2>3 DEF InsertTpl, Asking, FilesTyped
<1>8. ASSUME NEW q \in Askers, NEW r \in AskRow, Asking(q, r), tpl' \in [TplIds -> Tpl],
             msg' = msg, ruled' \subseteq ruled
      PROVE  FilesTyped'
  BY <1>1, <1>2, <1>8 DEF Asking, FilesTyped
<1>9. ASSUME NEW q \in Askers PROVE Leaves(q) \in AskRow
  <2>1. ask[q] \in AskRow
    BY <1>1
  <2> QED
    BY <1>3, <2>1 DEF Leaves, AskRow
<1>10. ASSUME NEW q \in Askers, PatchTpl(q) PROVE FilesTyped'
  <2>1. ask[q].file \in Files
    BY <1>1 DEF AskRow
  <2>2. tpl' \in [TplIds -> Tpl]
    BY <1>1, <1>10, <2>1 DEF PatchTpl, TplRows, Tpl
  <2>3. msg' = msg /\ ruled' \subseteq ruled /\ \E r \in {Leaves(q), NoAsk} : Asking(q, r)
    BY <1>10 DEF PatchTpl
  <2> QED
    BY <1>3, <1>8, <1>9, <2>2, <2>3
<1>11. ASSUME NEW q \in Askers, EraseTpl(q) PROVE FilesTyped'
  <2>1. tpl' \in [TplIds -> Tpl]
    BY <1>1, <1>11 DEF EraseTpl, TplRows, Tpl, Files
  <2>2. msg' = msg /\ ruled' \subseteq ruled /\ \E r \in {Leaves(q), NoAsk} : Asking(q, r)
    BY <1>11 DEF EraseTpl
  <2> QED
    BY <1>3, <1>8, <1>9, <2>1, <2>2
<1>12. ASSUME NEW q \in Askers, CountRefs(q) \/ RemoveFile(q) \/ AskFails(q) PROVE FilesTyped'
  <2>1. [ask[q] EXCEPT !.at = "remove"] \in AskRow
    <3>1. ask[q] \in AskRow
      BY <1>1
    <3> QED
      BY <3>1 DEF AskRow
  <2>2. tpl' = tpl /\ msg' = msg /\ ruled' \subseteq ruled /\ \E r \in {[ask[q] EXCEPT !.at = "remove"], NoAsk} : Asking(q, r)
    BY <1>12 DEF CountRefs, RemoveFile, AskFails
  <2> QED
    BY <1>1, <1>3, <1>8, <2>1, <2>2
<1>13. ASSUME NEW t \in TplIds, SetRuled(t) PROVE FilesTyped'
  BY <1>1, <1>13 DEF SetRuled, FilesTyped
<1>14. ASSUME NEW s \in Senders, FireRule(s) \/ SendTemplate(s) \/ SendFiles(s) PROVE FilesTyped'
  <2>1. \E f \in Files : \E path \in BOOLEAN : Sends(s, f, path)
    <3>1. \A t \in TplIds : tpl[t].file \in Files
      BY <1>1 DEF Tpl
    <3>2. CASE FireRule(s)
      BY <1>1, <3>1, <3>2 DEF FireRule
    <3>3. CASE SendTemplate(s)
      BY <3>1, <3>3 DEF SendTemplate, TplRows
    <3>4. CASE SendFiles(s)
      BY <1>3, <3>4 DEF SendFiles
    <3> QED
      BY <1>14, <3>2, <3>3, <3>4
  <2>2. PICK f \in Files : \E path \in BOOLEAN : Sends(s, f, path)
    BY <2>1
  <2>3. PICK path \in BOOLEAN : Sends(s, f, path)
    BY <2>2
  <2>4. [at |-> "send", file |-> f, path |-> path] \in FileSend
    BY DEF FileSend
  <2> QED
    BY <1>1, <2>3, <2>4 DEF Sends, FilesTyped
<1>15. ASSUME NEW s \in Senders, EnqueueMsg(s) PROVE FilesTyped'
  <2>1. PICK m \in MsgIds :
          msg' = [msg EXCEPT ![m] = [is |-> "pending", file |-> sender[s].file,
                                     path |-> sender[s].path]]
    BY <1>15 DEF EnqueueMsg
  <2>2. sender[s].file \in Files /\ sender[s].path \in BOOLEAN
    BY <1>1 DEF FileSend
  <2>3. msg' \in [MsgIds -> Msg]
    BY <1>1, <2>1, <2>2 DEF Msg
  <2> QED
    BY <1>1, <1>15, <2>3 DEF EnqueueMsg, FilesTyped
<1>16. ASSUME NEW s \in Senders, SenderEnds(s) PROVE FilesTyped'
  BY <1>1, <1>16, Blanks DEF SenderEnds, FilesTyped
<1>17. ASSUME NEW m \in MsgIds, MsgLeaves(m) PROVE FilesTyped'
  <2>1. msg' \in [MsgIds -> Msg]
    BY <1>1, <1>17 DEF MsgLeaves, Msg
  <2> QED
    BY <1>1, <1>17, <2>1 DEF MsgLeaves, FilesTyped
<1> QED
  BY <1>4, <1>5, <1>6, <1>7, <1>10, <1>11, <1>12, <1>13, <1>14, <1>15, <1>16, <1>17 DEF NextFiles

-----------------------------------------------------------------------------
(* What is named stays in the storage. *)

LEMMA NamedSafely == \A f : f # None /\ ~Doomed(f) => SafeFile(f)
  BY DEF Doomed, SafeFile

LEMMA StepNamed == FilesInv /\ [NextFiles]_fileVars => NamedAreSafe'
<1> SUFFICES ASSUME FilesInv, [NextFiles]_fileVars PROVE NamedAreSafe'
  OBVIOUS
<1>1. /\ tpl \in [TplIds -> Tpl] /\ msg \in [MsgIds -> Msg] /\ ask \in [Askers -> AskRow]
      /\ NamedAreSafe /\ TplIds \cap MsgIds = {}
  BY FilesAssumption DEF FilesInv, FilesTyped
<1> DEFINE Calm == \A q \in Askers : ask'[q].at = "remove" => ask'[q] = ask[q]
\* Nothing safe is lost while no file is removed and no removal is decided.
<1>2. ASSUME Calm, store \subseteq store' PROVE \A f : SafeFile(f) => SafeFile(f)'
  BY <1>2 DEF SafeFile
<1>3. ASSUME UNCHANGED <<tpl, msg, exposed>>, \A f : SafeFile(f) => SafeFile(f)' PROVE NamedAreSafe'
  BY <1>1, <1>3 DEF NamedAreSafe, TplRows, PendingMsgs
<1>4. ASSUME NEW q \in Askers, NEW r, Asking(q, r) \/ Ask(q, r), r.at # "remove" PROVE Calm
  BY <1>1, <1>4 DEF Asking, Ask
<1>5. NoAsk.at # "remove" /\ \A q \in Askers : Leaves(q).at # "remove"
  <2> SUFFICES ASSUME NEW q \in Askers PROVE Leaves(q).at # "remove"
    BY DEF NoAsk
  <2>1. ask[q] \in AskRow
    BY <1>1
  <2> QED
    BY <2>1 DEF Leaves, NoAsk, AskRow
<1>6. ASSUME ask' = ask PROVE Calm
  BY <1>6
<1> HIDE DEF Calm
<1>7. CASE UNCHANGED fileVars
  BY <1>2, <1>3, <1>6, <1>7 DEF fileVars
<1>8. CASE UploadFile
  BY <1>2, <1>3, <1>6, <1>8 DEF UploadFile
<1>9. ASSUME NEW q \in Askers, AskCreate(q) \/ AskCopy(q) \/ AskUpdate(q) \/ AskDelete(q)
      PROVE  NamedAreSafe'
  <2>1. \E r : Ask(q, r) /\ r.at # "remove"
    <3>1. CASE AskCreate(q)
      <4>1. PICK f \in uploaded \cup {None} : Ask(q, [NoAsk EXCEPT !.at = "create", !.file = f])
        BY <3>1 DEF AskCreate
      <4>2. [NoAsk EXCEPT !.at = "create", !.file = f].at # "remove"
        BY DEF NoAsk
      <4> QED
        BY <4>1, <4>2
    <3>2. CASE AskCopy(q)
      <4>1. PICK t \in TplRows : Ask(q, [NoAsk EXCEPT !.at = "create", !.file = tpl[t].file])
        BY <3>2 DEF AskCopy
      <4>2. [NoAsk EXCEPT !.at = "create", !.file = tpl[t].file].at # "remove"
        BY DEF NoAsk
      <4> QED
        BY <4>1, <4>2
    <3>3. CASE AskUpdate(q)
      BY <3>3 DEF AskUpdate
    <3>4. CASE AskDelete(q)
      <4>1. PICK t \in TplRows : Ask(q, [NoAsk EXCEPT !.at = "erase", !.tpl = t, !.old = tpl[t].file])
        BY <3>4 DEF AskDelete
      <4>2. [NoAsk EXCEPT !.at = "erase", !.tpl = t, !.old = tpl[t].file].at # "remove"
        BY DEF NoAsk
      <4> QED
        BY <4>1, <4>2
    <3> QED
      BY <1>9, <3>1, <3>2, <3>3, <3>4
  <2>2. Calm
    BY <1>4, <2>1
  <2> QED
    BY <1>2, <1>3, <1>9, <2>2 DEF AskCreate, AskCopy, AskUpdate, AskDelete
<1>10. ASSUME NEW q \in Askers, InsertTpl(q) PROVE NamedAreSafe'
  <2>1. PICK t \in TplIds :
          /\ tpl' = [tpl EXCEPT ![t] = [is |-> "row", file |-> ask[q].file]]
          /\ exposed' = IF Doomed(ask[q].file) THEN exposed \cup {t} ELSE exposed \ {t}
          /\ UNCHANGED <<store, msg>>
    BY <1>10 DEF InsertTpl
  <2>2. Calm
    BY <1>4, <1>5, <1>10 DEF InsertTpl
  <2>3. \A f : SafeFile(f) => SafeFile(f)'
    BY <1>2, <2>1, <2>2
  <2>4. t \in exposed' \/ ask[q].file = None \/ SafeFile(ask[q].file)
    BY <2>1, NamedSafely
  <2> QED
    BY <1>1, <2>1, <2>3, <2>4 DEF NamedAreSafe, TplRows, PendingMsgs
<1>11. ASSUME NEW q \in Askers, PatchTpl(q) PROVE NamedAreSafe'
  <2> DEFINE t == ask[q].tpl
  <2>1. Calm
    BY <1>4, <1>5, <1>11 DEF PatchTpl
  <2>2. \A f : SafeFile(f) => SafeFile(f)'
    BY <1>2, <1>11, <2>1 DEF PatchTpl
  <2>3. CASE t \in TplRows
    <3>1. /\ tpl' = [tpl EXCEPT ![t].file = ask[q].file] /\ msg' = msg
          /\ exposed' = IF Doomed(ask[q].file) THEN exposed \cup {t} ELSE exposed \ {t}
      BY <1>11, <2>3 DEF PatchTpl
    <3>2. t \in exposed' \/ ask[q].file = None \/ SafeFile(ask[q].file)
      BY <3>1, NamedSafely
    <3>3. t \in TplIds
      BY <2>3 DEF TplRows
    <3> HIDE DEF t
    <3>4. /\ tpl'[t].file = ask[q].file
          /\ \A o \in TplIds \ {t} : tpl'[o] = tpl[o]
      BY <1>1, <3>1, <3>3 DEF Tpl
    <3> QED
      BY <1>1, <2>2, <3>1, <3>2, <3>3, <3>4 DEF NamedAreSafe, TplRows, PendingMsgs
  <2>4. CASE t \notin TplRows
    BY <1>3, <1>11, <2>2, <2>4 DEF PatchTpl
  <2> QED
    BY <2>3, <2>4
<1>12. ASSUME NEW q \in Askers, EraseTpl(q) PROVE NamedAreSafe'
  <2> DEFINE t == ask[q].tpl
  <2>1. Calm
    BY <1>4, <1>5, <1>12 DEF EraseTpl
  <2>2. \A f : SafeFile(f) => SafeFile(f)'
    BY <1>2, <1>12, <2>1 DEF EraseTpl
  <2>3. CASE t \in TplRows
    <3>1. /\ tpl' = [tpl EXCEPT ![t] = [is |-> "gone", file |-> None]] /\ msg' = msg
          /\ exposed' = exposed \ {t}
      BY <1>12, <2>3 DEF EraseTpl
    <3>2. t \in TplIds
      BY <2>3 DEF TplRows
    <3> HIDE DEF t
    <3>3. /\ tpl'[t].is = "gone"
          /\ \A o \in TplIds \ {t} : tpl'[o] = tpl[o]
      BY <1>1, <3>1, <3>2
    <3> QED
      BY <1>1, <2>2, <3>1, <3>2, <3>3 DEF NamedAreSafe, TplRows, PendingMsgs
  <2>4. CASE t \notin TplRows
    BY <1>3, <1>12, <2>2, <2>4 DEF EraseTpl
  <2> QED
    BY <2>3, <2>4
<1>13. ASSUME NEW q \in Askers, CountRefs(q) PROVE NamedAreSafe'
  <2>1. CASE Referenced(ask[q].old)
    <3>1. Calm
      BY <1>4, <1>5, <1>13, <2>1 DEF CountRefs
    <3> QED
      BY <1>2, <1>3, <1>13, <3>1 DEF CountRefs
  <2>2. CASE ~Referenced(ask[q].old)
    <3>1. /\ ask' = [ask EXCEPT ![q] = [ask[q] EXCEPT !.at = "remove"]]
          /\ UNCHANGED <<store, tpl, msg, exposed>>
      BY <1>13, <2>2 DEF CountRefs, Asking
    <3>2. \A o \in Askers : ask'[o].at = "remove" => ask'[o].old = ask[q].old \/ ask'[o] = ask[o]
      <4>1. ask[q] \in AskRow
        BY <1>1
      <4> QED
        BY <1>1, <3>1, <4>1 DEF AskRow
    <3>3. \A f : SafeFile(f) /\ f # ask[q].old => SafeFile(f)'
      BY <3>1, <3>2 DEF SafeFile
    <3> QED
      BY <1>1, <2>2, <3>1, <3>3 DEF NamedAreSafe, TplRows, PendingMsgs, Referenced
  <2> QED
    BY <2>1, <2>2
<1>14. ASSUME NEW q \in Askers, RemoveFile(q) PROVE NamedAreSafe'
  <2>1. /\ ask[q].at = "remove" /\ store' = store \ {ask[q].old}
        /\ UNCHANGED <<tpl, msg, exposed>>
    BY <1>14 DEF RemoveFile
  <2>2. Calm
    BY <1>4, <1>5, <1>14 DEF RemoveFile
  <2>3. \A f : SafeFile(f) => SafeFile(f)'
    BY <2>1, <2>2 DEF SafeFile, Calm
  <2> QED
    BY <1>3, <2>1, <2>3
<1>15. ASSUME NEW q \in Askers, AskFails(q) PROVE NamedAreSafe'
  <2>1. Calm
    BY <1>4, <1>5, <1>15 DEF AskFails
  <2> QED
    BY <1>2, <1>3, <1>15, <2>1 DEF AskFails
<1>16. ASSUME NEW s \in Senders, EnqueueMsg(s) PROVE NamedAreSafe'
  <2>1. PICK m \in MsgIds :
          /\ msg' = [msg EXCEPT ![m] = [is |-> "pending", file |-> sender[s].file,
                                        path |-> sender[s].path]]
          /\ exposed' = IF Doomed(sender[s].file) THEN exposed \cup {m} ELSE exposed
          /\ UNCHANGED <<store, tpl, ask>>
    BY <1>16 DEF EnqueueMsg
  <2>2. \A f : SafeFile(f) => SafeFile(f)'
    BY <1>2, <1>6, <2>1
  <2>3. m \in exposed' \/ sender[s].file = None \/ SafeFile(sender[s].file)
    BY <2>1, NamedSafely
  <2> QED
    BY <1>1, <2>1, <2>2, <2>3 DEF NamedAreSafe, TplRows, PendingMsgs
<1>17. ASSUME NEW m \in MsgIds, MsgLeaves(m) PROVE NamedAreSafe'
  <2>1. UNCHANGED <<store, tpl, ask, exposed>> /\ msg' = [msg EXCEPT ![m].is = "done"]
    BY <1>17 DEF MsgLeaves
  <2>2. \A f : SafeFile(f) => SafeFile(f)'
    BY <1>2, <1>6, <2>1
  <2>3. msg'[m].is = "done" /\ \A o \in MsgIds \ {m} : msg'[o] = msg[o]
    BY <1>1, <2>1 DEF Msg
  <2> QED
    BY <1>1, <2>1, <2>2, <2>3 DEF NamedAreSafe, TplRows, PendingMsgs
<1>18. ASSUME UNCHANGED <<store, tpl, msg, ask, exposed>> PROVE NamedAreSafe'
  BY <1>2, <1>3, <1>6, <1>18
<1> QED
  BY <1>7, <1>8, <1>9, <1>10, <1>11, <1>12, <1>13, <1>14, <1>15, <1>16, <1>17, <1>18
  DEF NextFiles, SetRuled, FireRule, SendTemplate, SendFiles, Sends, SenderEnds

\* What a template, or a message that is still to go out, names is in the storage, unless it
\* came to name it when it was gone or its removal decided.
THEOREM NamedFilesExist == SpecFiles => []FilesOutliveMessages
<1>1. FilesInv /\ [NextFiles]_fileVars => FilesInv'
  BY StepFilesTyped, StepNamed DEF FilesInv
<1>2. SpecFiles => []FilesInv
  BY InitFilesInv, <1>1, PTL DEF SpecFiles
<1>3. FilesInv => FilesOutliveMessages
  BY DEF FilesInv, NamedAreSafe, SafeFile, FilesOutliveMessages
<1> QED
  BY <1>2, <1>3, PTL

\* What anything names was once uploaded; a rule uses a template that is there.
Given == uploaded \cup {None}
NamesKnown ==
  /\ store \subseteq uploaded /\ ruled \subseteq TplRows /\ exposed \subseteq TplIds \cup MsgIds
  /\ \A t \in TplIds : tpl[t].file \in Given
  /\ \A m \in MsgIds : msg[m].file \in Given
  /\ \A q \in Askers : ask[q].file \in Given
  /\ \A s \in Senders : sender[s].file \in Given

LEMMA StepNamesKnown ==
  ASSUME FilesTyped, NamesKnown, [NextFiles]_fileVars PROVE NamesKnown'
<1>1. /\ tpl \in [TplIds -> Tpl] /\ msg \in [MsgIds -> Msg]
      /\ ask \in [Askers -> AskRow] /\ sender \in [Senders -> FileSend]
  BY DEF FilesTyped
<1>2. /\ store \subseteq uploaded /\ ruled \subseteq TplRows /\ exposed \subseteq TplIds \cup MsgIds
      /\ \A t \in TplIds : tpl[t].file \in Given
      /\ \A m \in MsgIds : msg[m].file \in Given
      /\ \A q \in Askers : ask[q].file \in Given
      /\ \A s \in Senders : sender[s].file \in Given
  BY DEF NamesKnown
<1>3. TplRows \subseteq TplIds
  BY DEF TplRows
<1>4. NoAsk.file \in Given /\ NoSender.file \in Given
  BY DEF NoAsk, NoSender, Given
<1>5. ASSUME UNCHANGED <<store, uploaded, tpl, ruled, exposed, msg, sender>>,
             NEW q \in Askers, NEW r, r.file \in Given, ask' = [ask EXCEPT ![q] = r]
      PROVE  NamesKnown'
  <2>1. \A o \in Askers : ask'[o].file \in Given
    BY <1>1, <1>2, <1>5
  <2> QED
    BY <1>2, <1>5, <2>1 DEF NamesKnown, Given, TplRows
<1>6. CASE UNCHANGED fileVars
  BY <1>2, <1>6 DEF fileVars, NamesKnown, Given, TplRows
<1>7. CASE UploadFile
  BY <1>2, <1>7 DEF UploadFile, NamesKnown, Given, TplRows
<1>8. ASSUME NEW q \in Askers, AskCreate(q) \/ AskCopy(q) \/ AskUpdate(q) \/ AskDelete(q)
      PROVE  NamesKnown'
  <2>1. \E r : r.file \in Given /\ ask' = [ask EXCEPT ![q] = r]
    <3>1. CASE AskCreate(q)
      <4>1. PICK f \in Given : ask' = [ask EXCEPT ![q] = [NoAsk EXCEPT !.at = "create", !.file = f]]
        BY <3>1 DEF AskCreate, Ask, Given
      <4>2. [NoAsk EXCEPT !.at = "create", !.file = f].file = f
        BY DEF NoAsk
      <4> QED
        BY <4>1, <4>2
    <3>2. CASE AskCopy(q)
      <4>1. PICK t \in TplRows : ask' = [ask EXCEPT ![q] = [NoAsk EXCEPT !.at = "create", !.file = tpl[t].file]]
        BY <3>2 DEF AskCopy, Ask
      <4>2. [NoAsk EXCEPT !.at = "create", !.file = tpl[t].file].file = tpl[t].file
        BY DEF NoAsk
      <4> QED
        BY <1>2, <1>3, <4>1, <4>2
    <3>3. CASE AskUpdate(q)
      <4>1. PICK t \in TplRows : \E f \in Given :
              ask' = [ask EXCEPT ![q] = [at |-> "patch", tpl |-> t, file |-> f, old |-> tpl[t].file]]
        BY <3>3 DEF AskUpdate, Ask, Given
      <4>2. PICK f \in Given :
              ask' = [ask EXCEPT ![q] = [at |-> "patch", tpl |-> t, file |-> f, old |-> tpl[t].file]]
        BY <4>1
      <4>3. [at |-> "patch", tpl |-> t, file |-> f, old |-> tpl[t].file].file = f
        OBVIOUS
      <4> QED
        BY <4>2, <4>3
    <3>4. CASE AskDelete(q)
      <4>1. PICK t \in TplRows : ask' = [ask EXCEPT ![q] = [NoAsk EXCEPT !.at = "erase", !.tpl = t, !.old = tpl[t].file]]
        BY <3>4 DEF AskDelete, Ask
      <4>2. [NoAsk EXCEPT !.at = "erase", !.tpl = t, !.old = tpl[t].file].file = NoAsk.file
        BY DEF NoAsk
      <4> QED
        BY <1>4, <4>1, <4>2
    <3> QED
      BY <1>8, <3>1, <3>2, <3>3, <3>4
  <2> QED
    BY <1>5, <1>8, <2>1 DEF AskCreate, AskCopy, AskUpdate, AskDelete
<1>9. ASSUME NEW q \in Askers, NEW r, r.file \in Given, Asking(q, r), msg' = msg,
             store' \subseteq store, ruled' \subseteq TplRows', exposed' \subseteq TplIds \cup MsgIds,
             \A t \in TplIds : tpl'[t].file \in Given
      PROVE  NamesKnown'
  <2>1. \A o \in Askers : ask'[o].file \in Given
    BY <1>1, <1>2, <1>9 DEF Asking
  <2> QED
    BY <1>2, <1>9, <2>1 DEF NamesKnown, Given, Asking
<1>10. ASSUME NEW q \in Askers PROVE Leaves(q).file \in Given
  <2>1. ask[q] \in AskRow
    BY <1>1
  <2>2. [ask[q] EXCEPT !.at = "count"].file = ask[q].file
    BY <2>1 DEF AskRow
  <2> QED
    BY <1>2, <1>4, <2>2 DEF Leaves
<1>11. ASSUME NEW q \in Askers, InsertTpl(q) PROVE NamesKnown'
  <2>1. PICK t \in TplIds :
          /\ tpl[t].is = "free" /\ tpl' = [tpl EXCEPT ![t] = [is |-> "row", file |-> ask[q].file]]
          /\ exposed' \subseteq exposed \cup {t}
    BY <1>11 DEF InsertTpl
  <2>2. \A u \in TplIds : tpl'[u].file \in Given
    BY <1>1, <1>2, <2>1
  <2>3. TplRows \subseteq TplRows'
    BY <1>1, <2>1 DEF TplRows
  <2>4. Asking(q, NoAsk) /\ UNCHANGED <<store, ruled, msg>>
    BY <1>11 DEF InsertTpl
  <2> QED
    BY <1>2, <1>4, <1>9, <2>1, <2>2, <2>3, <2>4
<1>12. ASSUME NEW q \in Askers, PatchTpl(q) PROVE NamesKnown'
  <2> DEFINE t == ask[q].tpl
  <2>1. UNCHANGED <<store, ruled, msg>> /\ \E r \in {Leaves(q), NoAsk} : Asking(q, r)
    BY <1>12 DEF PatchTpl
  <2>2. CASE t \in TplRows
    <3>1. tpl' = [tpl EXCEPT ![t].file = ask[q].file] /\ exposed' \subseteq exposed \cup {t}
      BY <1>12, <2>2 DEF PatchTpl
    <3>2. \A u \in TplIds : tpl'[u].file \in Given /\ tpl'[u].is = tpl[u].is
      BY <1>1, <1>2, <3>1 DEF Tpl
    <3>3. TplRows' = TplRows
      BY <3>2 DEF TplRows
    <3> QED
      BY <1>2, <1>3, <1>4, <1>9, <1>10, <2>1, <2>2, <3>1, <3>2, <3>3
  <2>3. CASE t \notin TplRows
    <3>1. UNCHANGED <<tpl, exposed>>
      BY <1>12, <2>3 DEF PatchTpl
    <3>2. TplRows' = TplRows
      BY <3>1 DEF TplRows
    <3> QED
      BY <1>2, <1>4, <1>9, <1>10, <2>1, <3>1, <3>2
  <2> QED
    BY <2>2, <2>3
<1>13. ASSUME NEW q \in Askers, EraseTpl(q) PROVE NamesKnown'
  <2> DEFINE t == ask[q].tpl
  <2>1. UNCHANGED <<store, msg>> /\ \E r \in {Leaves(q), NoAsk} : Asking(q, r)
    BY <1>13 DEF EraseTpl
  <2>2. CASE t \in TplRows
    <3>1. /\ tpl' = [tpl EXCEPT ![t] = [is |-> "gone", file |-> None]]
          /\ exposed' \subseteq exposed /\ ruled' = ruled \ {t}
      BY <1>13, <2>2 DEF EraseTpl
    <3>2. \A u \in TplIds : tpl'[u].file \in Given /\ (u # t => tpl'[u] = tpl[u])
      BY <1>1, <1>2, <3>1 DEF Given
    <3>3. TplRows \ {t} \subseteq TplRows'
      BY <3>2 DEF TplRows
    <3> QED
      BY <1>2, <1>4, <1>9, <1>10, <2>1, <3>1, <3>2, <3>3
  <2>3. CASE t \notin TplRows
    <3>1. UNCHANGED <<tpl, exposed, ruled>>
      BY <1>13, <2>3 DEF EraseTpl
    <3>2. TplRows' = TplRows
      BY <3>1 DEF TplRows
    <3> QED
      BY <1>2, <1>4, <1>9, <1>10, <2>1, <3>1, <3>2
  <2> QED
    BY <2>2, <2>3
<1>14. ASSUME NEW q \in Askers, CountRefs(q) \/ RemoveFile(q) \/ AskFails(q) PROVE NamesKnown'
  <2>1. ask[q] \in AskRow
    BY <1>1
  <2>2. [ask[q] EXCEPT !.at = "remove"].file = ask[q].file
    BY <2>1 DEF AskRow
  <2>3. \E r \in {NoAsk, [ask[q] EXCEPT !.at = "remove"]} : Asking(q, r)
    BY <1>14 DEF CountRefs, RemoveFile, AskFails
  <2>4. UNCHANGED <<tpl, ruled, msg, exposed>> /\ store' \subseteq store
    BY <1>14 DEF CountRefs, RemoveFile, AskFails
  <2>5. TplRows' = TplRows
    BY <2>4 DEF TplRows
  <2> QED
    BY <1>2, <1>4, <1>9, <2>2, <2>3, <2>4, <2>5
<1>15. ASSUME NEW t \in TplIds, SetRuled(t) PROVE NamesKnown'
  BY <1>2, <1>15 DEF SetRuled, NamesKnown, Given, TplRows
<1>16. ASSUME NEW s \in Senders, FireRule(s) \/ SendTemplate(s) \/ SendFiles(s) PROVE NamesKnown'
  <2>1. PICK f \in Given, path \in BOOLEAN : Sends(s, f, path)
    BY <1>2, <1>3, <1>16 DEF FireRule, SendTemplate, SendFiles, Given
  <2>2. \A o \in Senders : sender'[o].file \in Given
    BY <1>1, <1>2, <2>1 DEF Sends
  <2> QED
    BY <1>2, <2>1, <2>2 DEF Sends, NamesKnown, Given, TplRows
<1>17. ASSUME NEW s \in Senders, EnqueueMsg(s) PROVE NamesKnown'
  <2>1. PICK m \in MsgIds :
          /\ msg' = [msg EXCEPT ![m] = [is |-> "pending", file |-> sender[s].file, path |-> sender[s].path]]
          /\ exposed' \subseteq exposed \cup {m}
    BY <1>17 DEF EnqueueMsg
  <2>2. \A o \in MsgIds : msg'[o].file \in Given
    BY <1>1, <1>2, <2>1
  <2> QED
    BY <1>2, <1>17, <2>1, <2>2 DEF EnqueueMsg, NamesKnown, Given, TplRows
<1>18. ASSUME NEW s \in Senders, SenderEnds(s) PROVE NamesKnown'
  <2>1. \A o \in Senders : sender'[o].file \in Given
    BY <1>1, <1>2, <1>4, <1>18 DEF SenderEnds
  <2> QED
    BY <1>2, <1>18, <2>1 DEF SenderEnds, NamesKnown, Given, TplRows
<1>19. ASSUME NEW m \in MsgIds, MsgLeaves(m) PROVE NamesKnown'
  <2>1. \A o \in MsgIds : msg'[o].file \in Given
    BY <1>1, <1>2, <1>19 DEF MsgLeaves, Msg
  <2> QED
    BY <1>2, <1>19, <2>1 DEF MsgLeaves, NamesKnown, Given, TplRows
<1> QED
  BY <1>6, <1>7, <1>8, <1>11, <1>12, <1>13, <1>14, <1>15, <1>16, <1>17, <1>18, <1>19 DEF NextFiles

\* Every variable of the attachments keeps its type: what a template, a message, a request
\* or a sender names was once uploaded, and an active rule uses a template that is there.
THEOREM FilesTypeCorrect == SpecFiles => []TypeOKFiles
<1> DEFINE Numbered == asks \in Nat /\ storageFaults \in Nat
           Inv == FilesTyped /\ NamesKnown /\ Numbered
<1>1. InitFiles => Inv
  BY InitFilesInv DEF FilesInv, InitFiles, NamesKnown, Given, NoTpl, NoMsg, NoAsk, NoSender, TplRows
<1>2. Inv /\ [NextFiles]_fileVars => Inv'
  <2> SUFFICES ASSUME Inv, [NextFiles]_fileVars PROVE asks' \in Nat /\ storageFaults' \in Nat
    BY StepFilesTyped, StepNamesKnown
  <2>1. asks' \in {asks, asks + 1}
    <3>1. ASSUME NEW q \in Askers, AskCreate(q) \/ AskCopy(q) \/ AskUpdate(q) \/ AskDelete(q)
          PROVE  asks' = asks + 1
      BY <3>1 DEF AskCreate, AskCopy, AskUpdate, AskDelete, Ask
    <3>2. ASSUME NEW q \in Askers, InsertTpl(q) \/ PatchTpl(q) \/ EraseTpl(q) \/ CountRefs(q) \/ RemoveFile(q)
                                   \/ AskFails(q)
          PROVE  asks' = asks
      BY <3>2 DEF InsertTpl, PatchTpl, EraseTpl, CountRefs, RemoveFile, AskFails, Asking
    <3>3. ASSUME NEW s \in Senders, FireRule(s) \/ SendTemplate(s) \/ SendFiles(s) \/ EnqueueMsg(s) \/ SenderEnds(s)
          PROVE  asks' = asks
      BY <3>3 DEF FireRule, SendTemplate, SendFiles, EnqueueMsg, SenderEnds, Sends
    <3>4. (\E t \in TplIds : SetRuled(t)) => asks' = asks + 1
      BY DEF SetRuled
    <3>5. UploadFile \/ (\E m \in MsgIds : MsgLeaves(m)) \/ UNCHANGED fileVars => asks' = asks
      BY DEF UploadFile, MsgLeaves, fileVars
    <3> QED
      BY <3>1, <3>2, <3>3, <3>4, <3>5 DEF NextFiles
  <2>2. storageFaults' \in {storageFaults, storageFaults + 1}
    <3>1. ASSUME NEW q \in Askers, AskCreate(q) \/ AskCopy(q) \/ AskUpdate(q) \/ AskDelete(q)
          PROVE  storageFaults' = storageFaults
      BY <3>1 DEF AskCreate, AskCopy, AskUpdate, AskDelete
    <3>2. ASSUME NEW q \in Askers, InsertTpl(q) \/ PatchTpl(q) \/ EraseTpl(q) \/ CountRefs(q) \/ RemoveFile(q)
          PROVE  storageFaults' = storageFaults
      BY <3>2 DEF InsertTpl, PatchTpl, EraseTpl, CountRefs, RemoveFile
    <3>3. ASSUME NEW s \in Senders, FireRule(s) \/ SendTemplate(s) \/ SendFiles(s) \/ EnqueueMsg(s) \/ SenderEnds(s)
          PROVE  storageFaults' = storageFaults
      BY <3>3 DEF FireRule, SendTemplate, SendFiles, EnqueueMsg, SenderEnds, Sends
    <3>4. (\E q \in Askers : AskFails(q)) => storageFaults' = storageFaults + 1
      BY DEF AskFails
    <3>5. UploadFile \/ (\E t \in TplIds : SetRuled(t)) \/ (\E m \in MsgIds : MsgLeaves(m))
            \/ UNCHANGED fileVars => storageFaults' = storageFaults
      BY DEF UploadFile, SetRuled, MsgLeaves, fileVars
    <3> QED
      BY <3>1, <3>2, <3>3, <3>4, <3>5 DEF NextFiles
  <2> QED
    BY <2>1, <2>2
<1>3. ASSUME Inv PROVE TypeOKFiles
  <2>1. tpl \in [TplIds -> [is : {"free", "row", "gone"}, file : uploaded \cup {None}]]
    BY <1>3 DEF FilesTyped, NamesKnown, Tpl, Given
  <2>2. msg \in [MsgIds -> [is : {"free", "pending", "done"}, file : uploaded \cup {None}, path : BOOLEAN]]
    BY <1>3 DEF FilesTyped, NamesKnown, Msg, Given
  <2>3. /\ store \subseteq uploaded /\ uploaded \subseteq FileIds
        /\ ruled \subseteq TplRows /\ exposed \subseteq TplIds \cup MsgIds
    BY <1>3 DEF FilesTyped, NamesKnown
  <2>4. ask \in [Askers -> [at : {"idle", "create", "patch", "erase", "count", "remove"},
                            tpl : TplIds \cup {None}, file : Files, old : Files]]
    BY <1>3 DEF FilesTyped, AskRow
  <2>5. sender \in [Senders -> [at : {"idle", "send"}, file : Files, path : BOOLEAN]]
    BY <1>3 DEF FilesTyped, FileSend
  <2> QED
    BY <1>3, <2>1, <2>2, <2>3, <2>4, <2>5 DEF TypeOKFiles
<1> QED
  BY <1>1, <1>2, <1>3, PTL DEF SpecFiles

-----------------------------------------------------------------------------
(* Templates and where they belong: TemplateHomes. *)

Letter == [is : {"free", "row", "gone"}, home : Lands \cup {None}, box : Boxes \cup {None}]
Pen == [at : {"idle", "insert", "rules", "update", "employ"}, letter : Letters \cup {None},
        duty : Duties \cup {None}, home : Lands \cup {None}, row : Letter,
        patch : [home : Lands \cup {None, Keep}, box : Boxes \cup {None, Keep}], stale : BOOLEAN]

HomesTyped ==
  /\ lands \subseteq Lands /\ boxes \subseteq Boxes /\ crossed \subseteq Letters \cup {None}
  /\ letter \in [Letters -> Letter]
  /\ duty \in [Duties -> [is : {"free", "row", "gone"}, home : Lands \cup {None}, letter : Letters \cup {None}]]
  /\ pen \in [Pens -> Pen] /\ pens \in 0 .. MaxPens

Fits(b, h) == b # None => BoxHome[b] = h

\* What a request has checked of what it is about to write, and, as long as no other write
\* overtook it, that the template is still as it was read.
Checked(p) ==
  /\ p.at = "insert" => p.row.is = "row" /\ Fits(p.row.box, p.row.home)
  /\ p.at \in {"rules", "update"} =>
       /\ p.letter \in Letters
       /\ p.patch.box # Keep => Fits(p.patch.box, Or(p.patch.home, p.row.home))
       /\ ~p.stale =>
            /\ p.row.is = "row" /\ letter[p.letter] = p.row
            /\ p.at = "update" /\ p.patch.home \notin {Keep, p.row.home} => ~Used(p.letter)
  /\ p.at = "employ" =>
       /\ p.letter \in Letters
       /\ ~p.stale => letter[p.letter].is = "row" /\ letter[p.letter].home = p.home

HomesInv == HomesTyped /\ (\A q \in Pens : Checked(pen[q])) /\ TemplatesAreAtHome

-----------------------------------------------------------------------------
LEMMA PlainPen ==
  /\ NoPen \in Pen /\ Checked(NoPen) /\ NoPen.patch = NoPatch /\ NoPen.at = "idle"
BY DEF NoPen, NoLetter, NoPatch, Pen, Letter, Checked

LEMMA InitHomesInv == InitHomes => HomesInv
<1> SUFFICES ASSUME InitHomes PROVE HomesInv
  OBVIOUS
<1>1. letter \in [Letters -> Letter]
  BY DEF InitHomes, NoLetter, Letter
<1>2. duty \in [Duties -> [is : {"free", "row", "gone"}, home : Lands \cup {None}, letter : Letters \cup {None}]]
  BY DEF InitHomes, NoDuty, Written
<1>3. HomesTyped
  BY <1>1, <1>2, PlainPen, HomesAssumption DEF InitHomes, HomesTyped
<1>4. \A q \in Pens : Checked(pen[q])
  BY PlainPen DEF InitHomes
<1>5. \A t \in Written : InBox(letter[t].box, letter[t].home)
  BY DEF InitHomes, Written, NoLetter
<1>6. \A d \in Duties : duty[d].is = "row" =>
        duty[d].letter \in Written /\ letter[duty[d].letter].home = duty[d].home
  BY DEF InitHomes, NoDuty
<1> QED
  BY <1>3, <1>4, <1>5, <1>6 DEF HomesInv, TemplatesAreAtHome

\* What a write does to the requests in flight: the one that wrote is answered, and those
\* that read what it wrote know nothing any more.
LEMMA TouchedPens ==
  ASSUME HomesTyped, NEW q, NEW ts, Touches(q, ts)
  PROVE  /\ pen' \in [Pens -> Pen]
         /\ \A r \in Pens : \/ pen'[r] = NoPen
                            \/ /\ pen'[r] = [pen[r] EXCEPT !.stale = pen'[r].stale]
                               /\ pen[r].stale \/ pen[r].letter \in ts => pen'[r].stale
                               /\ ~pen'[r].stale => pen'[r] = pen[r]
         /\ crossed' \subseteq Letters \cup {None} /\ crossed \subseteq crossed'
         /\ q \in Pens /\ pen[q].stale => pen[q].letter \in crossed'
<1>1. pen \in [Pens -> Pen] /\ crossed \subseteq Letters \cup {None}
  BY DEF HomesTyped
<1>2. \A r \in Pens : pen'[r] \in Pen /\
        \/ pen'[r] = NoPen
        \/ /\ pen'[r] = [pen[r] EXCEPT !.stale = pen'[r].stale]
           /\ pen[r].stale \/ pen[r].letter \in ts => pen'[r].stale
           /\ ~pen'[r].stale => pen'[r] = pen[r]
  <2> SUFFICES ASSUME NEW r \in Pens
               PROVE  pen'[r] \in Pen /\
                      \/ pen'[r] = NoPen
                      \/ /\ pen'[r] = [pen[r] EXCEPT !.stale = pen'[r].stale]
                         /\ pen[r].stale \/ pen[r].letter \in ts => pen'[r].stale
                         /\ ~pen'[r].stale => pen'[r] = pen[r]
    OBVIOUS
  <2>1. CASE r = q
    BY <2>1, PlainPen DEF Touches
  <2>2. CASE r # q
    <3> DEFINE b == pen[r].stale \/ pen[r].letter \in ts
    <3>1. pen'[r] = [pen[r] EXCEPT !.stale = b]
      BY <2>2 DEF Touches
    <3>2. pen[r] \in Pen /\ b \in BOOLEAN
      BY <1>1 DEF Pen
    <3> HIDE DEF b
    <3>3. pen'[r] \in Pen /\ pen'[r].stale = b
      BY <3>1, <3>2 DEF Pen
    <3>4. ~b => [pen[r] EXCEPT !.stale = b] = pen[r]
      <4> SUFFICES ASSUME ~b PROVE [pen[r] EXCEPT !.stale = b] = pen[r]
        OBVIOUS
      <4>1. pen[r].stale = b
        BY <3>2 DEF Pen, b
      <4> QED
        BY <3>2, <4>1 DEF Pen
    <3> QED
      BY <3>1, <3>3, <3>4 DEF b
  <2> QED
    BY <2>1, <2>2
<1>3. pen' = [r \in Pens |-> pen'[r]]
  BY DEF Touches
<1>4. q \in Pens => pen[q].letter \in Letters \cup {None}
  BY <1>1 DEF Pen
<1> QED
  BY <1>1, <1>2, <1>3, <1>4 DEF Touches

\* A request that goes on, or ends, without a write.
LEMMA PenMoves ==
  ASSUME HomesInv, NEW q \in Pens, NEW p \in Pen, Checked(p), pen' = [pen EXCEPT ![q] = p],
         UNCHANGED <<lands, boxes, letter, duty, crossed>>, pens' \in 0 .. MaxPens
  PROVE  HomesInv'
<1>1. HomesTyped /\ (\A r \in Pens : Checked(pen[r])) /\ TemplatesAreAtHome
  BY DEF HomesInv
<1>2. HomesTyped'
  BY <1>1 DEF HomesTyped
<1>3. ASSUME NEW r \in Pens PROVE Checked(pen[r])'
  <2>1. Checked(pen'[r])
    BY <1>1 DEF HomesTyped
  <2> QED
    BY <2>1 DEF Checked, Used
<1>4. TemplatesAreAtHome'
  BY <1>1 DEF TemplatesAreAtHome, Written, InBox
<1> QED
  BY <1>2, <1>3, <1>4 DEF HomesInv

\* A write about the templates ts.
LEMMA PenWrites ==
  ASSUME HomesInv, NEW q, NEW ts, Touches(q, ts),
         lands' \subseteq lands, boxes' \subseteq boxes, letter' \in [Letters -> Letter],
         duty' \in [Duties -> [is : {"free", "row", "gone"}, home : Lands \cup {None}, letter : Letters \cup {None}]],
         pens' \in 0 .. MaxPens,
         \A t \in Letters \ ts : letter[t].is = "row" => letter'[t] = letter[t] /\ (Used(t)' => Used(t)),
         TemplatesAreAtHome'
  PROVE  HomesInv'
<1>1. HomesTyped /\ \A r \in Pens : Checked(pen[r])
  BY DEF HomesInv
<1>2. HomesTyped'
  BY <1>1, TouchedPens DEF HomesTyped
<1>3. ASSUME NEW r \in Pens PROVE Checked(pen[r])'
  <2>1. CASE pen'[r] = NoPen
    BY <2>1 DEF NoPen, Checked
  <2>2. CASE /\ pen'[r] = [pen[r] EXCEPT !.stale = pen'[r].stale]
             /\ pen[r].stale \/ pen[r].letter \in ts => pen'[r].stale
             /\ ~pen'[r].stale => pen'[r] = pen[r]
    <3>1. Checked(pen[r]) /\ pen[r] \in Pen
      BY <1>1 DEF HomesTyped
    <3>2. CASE pen'[r].stale
      <4> DEFINE p == pen'[r]
      <4>1. /\ p.at = pen[r].at /\ p.row = pen[r].row /\ p.letter = pen[r].letter
            /\ p.patch = pen[r].patch /\ p.home = pen[r].home
        BY <2>2, <3>1 DEF Pen
      <4> QED
        BY <3>1, <3>2, <4>1 DEF Checked
    <3>3. CASE ~pen'[r].stale
      <4>1. pen'[r] = pen[r] /\ pen[r].letter \notin ts /\ ~pen[r].stale
        BY <2>2, <3>3
      <4>0. PICK t : t = pen[r].letter
        OBVIOUS
      <4>2. CASE pen[r].at \in {"rules", "update", "employ"}
        <5>1. t \in Letters \ ts /\ letter[t].is = "row"
          BY <3>1, <4>0, <4>1, <4>2 DEF Checked
        <5>2. letter'[t] = letter[t] /\ (Used(t)' => Used(t))
          BY <5>1
        <5> QED
          BY <3>1, <4>0, <4>1, <5>2 DEF Checked
      <4>3. CASE pen[r].at \notin {"rules", "update", "employ"}
        BY <3>1, <4>1, <4>3 DEF Checked
      <4> QED
        BY <4>2, <4>3
    <3> QED
      BY <3>2, <3>3
  <2> QED
    BY <1>1, <2>1, <2>2, TouchedPens
<1> QED
  BY <1>2, <1>3 DEF HomesInv

-----------------------------------------------------------------------------
\* The requests that begin.
LEMMA PenTaken ==
  ASSUME HomesInv, NEW q \in Pens, NEW p, Takes(q, p), p \in Pen, Checked(p)
  PROVE  HomesInv'
<1>1. pens' \in 0 .. MaxPens
  BY HomesAssumption DEF HomesInv, HomesTyped, Takes
<1> QED
  BY <1>1, PenMoves DEF Takes

LEMMA StepCompose ==
  ASSUME HomesInv, NEW q \in Pens, Compose(q) \/ CreateDuty(q) \/ PatchDuty(q)
  PROVE  HomesInv'
<1>1. /\ letter \in [Letters -> Letter] /\ lands \subseteq Lands /\ boxes \subseteq Boxes
      /\ duty \in [Duties -> [is : {"free", "row", "gone"}, home : Lands \cup {None}, letter : Letters \cup {None}]]
  BY DEF HomesInv, HomesTyped
<1>2. CASE Compose(q)
  <2>1. PICK h \in EventAccessible, b \in boxes \cup {None} :
          InBox(b, h) /\ Takes(q, [NoPen EXCEPT !.at = "insert", !.row = [is |-> "row", home |-> h, box |-> b]])
    BY <1>2 DEF Compose
  <2> DEFINE p == [NoPen EXCEPT !.at = "insert", !.row = [is |-> "row", home |-> h, box |-> b]]
  <2>2. p \in Pen /\ p.at = "insert" /\ p.row = [is |-> "row", home |-> h, box |-> b]
    BY <1>1, PlainPen DEF NoPen, Pen, Letter, EventAccessible
  <2> HIDE DEF p
  <2>3. Checked(p)
    BY <2>1, <2>2 DEF Checked, Fits, InBox
  <2> QED
    BY <2>1, <2>2, <2>3, PenTaken DEF p
<1>3. CASE CreateDuty(q)
  <2>1. PICK h \in lands, t \in Letters :
          templateById(t, h) /\ Takes(q, [NoPen EXCEPT !.at = "employ", !.home = h, !.letter = t])
    BY <1>3 DEF CreateDuty
  <2> DEFINE p == [NoPen EXCEPT !.at = "employ", !.home = h, !.letter = t]
  <2>2. p \in Pen /\ p.at = "employ" /\ p.home = h /\ p.letter = t
    BY <1>1, PlainPen DEF NoPen, Pen
  <2> HIDE DEF p
  <2>3. Checked(p)
    BY <2>1, <2>2 DEF Checked, templateById, Written
  <2> QED
    BY <2>1, <2>2, <2>3, PenTaken DEF p
<1>4. CASE PatchDuty(q)
  <2>1. PICK d \in Duties, t \in Letters :
          /\ duty[d].is = "row" /\ templateById(t, duty[d].home)
          /\ Takes(q, [NoPen EXCEPT !.at = "employ", !.duty = d, !.home = duty[d].home, !.letter = t])
    BY <1>4 DEF PatchDuty
  <2> DEFINE p == [NoPen EXCEPT !.at = "employ", !.duty = d, !.home = duty[d].home, !.letter = t]
  <2>2. p \in Pen /\ p.at = "employ" /\ p.home = duty[d].home /\ p.letter = t
    BY <1>1, PlainPen DEF NoPen, Pen
  <2> HIDE DEF p
  <2>3. Checked(p)
    BY <2>1, <2>2 DEF Checked, templateById, Written
  <2> QED
    BY <2>1, <2>2, <2>3, PenTaken DEF p
<1> QED
  BY <1>2, <1>3, <1>4

LEMMA StepRevise ==
  ASSUME HomesInv, NEW q \in Pens, Revise(q)
  PROVE  HomesInv'
<1>1. letter \in [Letters -> Letter] /\ lands \subseteq Lands /\ boxes \subseteq Boxes
  BY DEF HomesInv, HomesTyped
<1>2. PICK t \in Written, h \in EventAccessible \cup {Keep}, b \in boxes \cup {None, Keep} :
        /\ b # Keep => InBox(b, Or(h, letter[t].home))
        /\ Takes(q, [NoPen EXCEPT !.at = IF h \in {Keep, letter[t].home} THEN "update" ELSE "rules",
                                  !.letter = t, !.row = letter[t], !.patch = [home |-> h, box |-> b]])
  BY DEF Revise
<1> DEFINE next == IF h \in {Keep, letter[t].home} THEN "update" ELSE "rules"
           patch == [home |-> h, box |-> b]
           old == letter[t]
           p == [NoPen EXCEPT !.at = next, !.letter = t, !.row = old, !.patch = patch]
<1>3. /\ t \in Letters /\ letter[t].is = "row" /\ letter[t] \in Letter
      /\ h \in Lands \cup {None, Keep} /\ b \in Boxes \cup {None, Keep}
  BY <1>1 DEF Written, EventAccessible
<1>4. /\ next \in {"update", "rules"} /\ old \in Letter
      /\ patch \in [home : Lands \cup {None, Keep}, box : Boxes \cup {None, Keep}]
  BY <1>3
<1> HIDE DEF next, patch, old
<1>6. /\ p \in Pen /\ p.letter = t /\ p.row = old /\ p.patch = patch /\ p.at = next
  BY <1>3, <1>4, PlainPen DEF NoPen, Pen
<1> HIDE DEF p
<1>5. Checked(p)
  BY <1>2, <1>3, <1>6 DEF Checked, Fits, InBox, next, patch, old
<1> QED
  BY <1>2, <1>5, <1>6, PenTaken DEF p, next, patch, old

LEMMA StepPenGoes ==
  ASSUME HomesInv, NEW q \in Pens, hasRuleForTemplate(q) \/ PenFails(q)
  PROVE  HomesInv'
<1>1. pen[q] \in Pen /\ Checked(pen[q]) /\ pens \in 0 .. MaxPens
  BY DEF HomesInv, HomesTyped
<1>2. CASE Drops(q)
  BY <1>1, <1>2, PlainPen, PenMoves DEF Drops
<1>3. CASE /\ pen[q].at = "rules" /\ ~Used(pen[q].letter)
           /\ pen' = [pen EXCEPT ![q].at = "update"]
           /\ UNCHANGED <<lands, boxes, letter, duty, pens, crossed>>
  <2> DEFINE p == [pen[q] EXCEPT !.at = "update"]
  <2>1. /\ p \in Pen /\ p.at = "update" /\ p.letter = pen[q].letter /\ p.row = pen[q].row
        /\ p.patch = pen[q].patch /\ p.stale = pen[q].stale
    BY <1>1 DEF Pen
  <2>2. pen' = [pen EXCEPT ![q] = p]
    BY <1>3
  <2> HIDE DEF p
  <2>3. Checked(p)
    BY <1>1, <1>3, <2>1 DEF Checked
  <2> QED
    BY <1>1, <1>3, <2>1, <2>2, <2>3, PenMoves
<1> QED
  BY <1>2, <1>3 DEF hasRuleForTemplate, PenFails

-----------------------------------------------------------------------------
\* The writes.
LEMMA AtHome ==
  ASSUME HomesInv
  PROVE  /\ HomesTyped
         /\ \A t \in Letters \ crossed : letter[t].is = "row" => InBox(letter[t].box, letter[t].home)
         /\ \A d \in Duties : duty[d].is = "row" /\ duty[d].letter \notin crossed =>
              /\ duty[d].letter \in Letters /\ letter[duty[d].letter].is = "row"
              /\ letter[duty[d].letter].home = duty[d].home
BY DEF HomesInv, TemplatesAreAtHome, Written

LEMMA StepInsertLetter ==
  ASSUME HomesInv, NEW q \in Pens, InsertLetter(q)
  PROVE  HomesInv'
<1>1. PICK t \in Letters :
        /\ pen[q].at = "insert" /\ Referable(pen[q].row) /\ letter[t].is = "free"
        /\ letter' = [letter EXCEPT ![t] = pen[q].row]
        /\ Touches(q, {}) /\ UNCHANGED <<lands, boxes, duty, pens>>
  BY DEF InsertLetter
<1>2. HomesTyped /\ crossed \subseteq crossed' /\ pen[q] \in Pen /\ Checked(pen[q])
  BY <1>1, TouchedPens DEF HomesInv, HomesTyped
<1>3. pen[q].row \in Letter
  BY <1>2 DEF Pen
<1>4. /\ letter' \in [Letters -> Letter] /\ letter'[t] = pen[q].row
      /\ \A o \in Letters \ {t} : letter'[o] = letter[o]
  BY <1>1, <1>2, <1>3 DEF HomesTyped
<1>5. ASSUME NEW o \in Letters \ crossed', letter'[o].is = "row"
      PROVE  letter'[o].box # None => letter'[o].box \in boxes' /\ BoxHome[letter'[o].box] = letter'[o].home
  <2>1. CASE o = t
    BY <1>1, <1>2, <1>4, <2>1 DEF Checked, Fits, Referable
  <2>2. CASE o # t
    BY <1>1, <1>2, <1>4, <1>5, <2>2, AtHome DEF InBox
  <2> QED
    BY <2>1, <2>2
<1>6. TemplatesAreAtHome'
  BY <1>1, <1>2, <1>4, <1>5, AtHome DEF TemplatesAreAtHome, Written, InBox
<1> QED
  BY <1>1, <1>2, <1>4, <1>6, PenWrites DEF HomesTyped, Used

LEMMA StepUpdateLetter ==
  ASSUME HomesInv, NEW q \in Pens, UpdateLetter(q)
  PROVE  HomesInv'
<1> DEFINE p == pen[q]
           t == p.letter
           home == Or(p.patch.home, letter[t].home)
           box == Or(resolveFolderId(p.patch, p.row), letter[t].box)
           kept == [is |-> "row", home |-> home, box |-> box]
<1>1. /\ p.at = "update" /\ t \in Letters /\ letter[t].is = "row" /\ Referable(kept)
      /\ letter' = [letter EXCEPT ![t] = kept]
      /\ Touches(q, {t}) /\ UNCHANGED <<lands, boxes, duty, pens>>
  BY DEF UpdateLetter, Written
<1>2. /\ HomesTyped /\ crossed \subseteq crossed' /\ p \in Pen /\ Checked(p)
      /\ p.stale => t \in crossed'
  BY <1>1, TouchedPens DEF HomesInv, HomesTyped
<1>3. home \in Lands \cup {None} /\ box \in Boxes \cup {None}
  BY <1>1, <1>2 DEF HomesTyped, Referable
<1>4. kept \in Letter
  BY <1>3 DEF Letter
<1>5. ~p.stale => letter[t] = p.row
  BY <1>1, <1>2 DEF Checked
<1>6. ~p.stale /\ t \notin crossed => Fits(box, home)
  <2> SUFFICES ASSUME ~p.stale, t \notin crossed PROVE Fits(box, home)
    OBVIOUS
  <2>1. p.patch.box # Keep => Fits(p.patch.box, Or(p.patch.home, p.row.home))
    BY <1>1, <1>2 DEF Checked
  <2>2. letter[t].box # None => BoxHome[letter[t].box] = letter[t].home
    BY <1>1, AtHome DEF InBox
  <2>3. letter[t] = p.row /\ None # Keep
    BY <1>5, HomesAssumption
  <2>4. p.patch.home # Keep => home = p.patch.home
    BY DEF Or
  <2>5. p.patch.home = Keep => home = p.row.home
    BY <2>3 DEF Or
  <2> QED
    BY <2>1, <2>2, <2>3, <2>4, <2>5 DEF Or, Fits, resolveFolderId
<1>7. ~p.stale /\ home # letter[t].home => ~Used(t)
  BY <1>1, <1>2, <1>5 DEF Checked, Or
<1> HIDE DEF kept, home, box, t, p
<1>8. /\ letter' \in [Letters -> Letter] /\ letter'[t] = kept
      /\ \A o \in Letters \ {t} : letter'[o] = letter[o]
  BY <1>1, <1>2, <1>4 DEF HomesTyped
<1>9. kept.is = "row" /\ kept.home = home /\ kept.box = box
  BY DEF kept
<1>10. ASSUME NEW o \in Letters \ crossed', letter'[o].is = "row"
       PROVE  letter'[o].box # None => letter'[o].box \in boxes' /\ BoxHome[letter'[o].box] = letter'[o].home
  <2>1. CASE o = t
    BY <1>1, <1>2, <1>6, <1>8, <1>9, <2>1 DEF Fits, Referable
  <2>2. CASE o # t
    BY <1>1, <1>2, <1>8, <1>10, <2>2, AtHome DEF InBox
  <2> QED
    BY <2>1, <2>2
<1>11. ASSUME NEW d \in Duties, duty'[d].is = "row", duty'[d].letter \notin crossed'
       PROVE  /\ duty'[d].letter \in Letters /\ letter'[duty'[d].letter].is = "row"
              /\ letter'[duty'[d].letter].home = duty'[d].home
  <2>1. /\ duty[d].is = "row" /\ duty[d].letter \in Letters /\ letter[duty[d].letter].is = "row"
        /\ letter[duty[d].letter].home = duty[d].home /\ duty' = duty
    BY <1>1, <1>2, <1>11, AtHome
  <2>2. CASE duty[d].letter = t
    <3>1. Used(t)
      BY <2>1, <2>2 DEF Used
    <3>2. home = letter[t].home
      BY <1>2, <1>7, <1>11, <2>1, <2>2, <3>1
    <3> QED
      BY <1>8, <1>9, <2>1, <2>2, <3>2
  <2>3. CASE duty[d].letter # t
    BY <1>8, <2>1, <2>3
  <2> QED
    BY <2>2, <2>3
<1>12. TemplatesAreAtHome'
  BY <1>10, <1>11 DEF TemplatesAreAtHome, Written, InBox
<1> QED
  BY <1>1, <1>2, <1>8, <1>12, PenWrites DEF HomesTyped, Used

LEMMA StepWriteDuty ==
  ASSUME HomesInv, NEW q \in Pens, WriteDuty(q)
  PROVE  HomesInv'
<1> DEFINE p == pen[q]
           t == p.letter
           kept == [is |-> "row", home |-> p.home, letter |-> t]
<1>1. PICK d \in Duties :
        /\ p.at = "employ" /\ t \in Letters /\ letter[t].is = "row" /\ p.home \in lands
        /\ duty' = [duty EXCEPT ![d] = kept]
        /\ Touches(q, {t}) /\ UNCHANGED <<lands, boxes, letter, pens>>
  BY DEF WriteDuty, Written
<1>2. /\ HomesTyped /\ crossed \subseteq crossed' /\ Checked(p)
      /\ p.stale => t \in crossed'
  BY <1>1, TouchedPens DEF HomesInv, HomesTyped
<1>3. ~p.stale => letter[t].home = p.home
  BY <1>1, <1>2 DEF Checked
<1>4. p.home \in Lands
  BY <1>1, <1>2 DEF HomesTyped
<1>5. kept \in [is : {"free", "row", "gone"}, home : Lands \cup {None}, letter : Letters \cup {None}]
  BY <1>1, <1>4
<1>6. kept.is = "row" /\ kept.home = p.home /\ kept.letter = t
  OBVIOUS
<1> HIDE DEF kept, t, p
<1>7. /\ duty' \in [Duties -> [is : {"free", "row", "gone"}, home : Lands \cup {None}, letter : Letters \cup {None}]]
      /\ duty'[d] = kept /\ \A o \in Duties \ {d} : duty'[o] = duty[o]
  BY <1>1, <1>2, <1>5 DEF HomesTyped
<1>8. ASSUME NEW o \in Duties, duty'[o].is = "row", duty'[o].letter \notin crossed'
      PROVE  /\ duty'[o].letter \in Letters /\ letter[duty'[o].letter].is = "row"
             /\ letter[duty'[o].letter].home = duty'[o].home
  <2>1. CASE o = d
    BY <1>1, <1>2, <1>3, <1>6, <1>7, <1>8, <2>1
  <2>2. CASE o # d
    BY <1>2, <1>7, <1>8, <2>2, AtHome
  <2> QED
    BY <2>1, <2>2
<1>9. TemplatesAreAtHome'
  BY <1>1, <1>2, <1>8, AtHome DEF TemplatesAreAtHome, Written, InBox
<1>10. \A o \in Letters \ {t} : Used(o)' => Used(o)
  BY <1>6, <1>7 DEF Used
<1> QED
  BY <1>1, <1>2, <1>7, <1>9, <1>10, PenWrites DEF HomesTyped

LEMMA StepDeleteLetter ==
  ASSUME HomesInv, NEW t \in Letters, DeleteLetter(t)
  PROVE  HomesInv'
<1>1. /\ letter[t].is = "row" /\ pens < MaxPens /\ pens' = pens + 1
      /\ letter' = [letter EXCEPT ![t].is = "gone"]
      /\ duty' = [d \in Duties |-> IF duty[d].letter = t THEN [duty[d] EXCEPT !.is = "gone"] ELSE duty[d]]
      /\ Touches(None, {t}) /\ UNCHANGED <<lands, boxes>>
  BY DEF DeleteLetter, Written
<1>2. HomesTyped /\ crossed \subseteq crossed'
  BY <1>1, TouchedPens DEF HomesInv
<1>3. /\ letter' \in [Letters -> Letter] /\ letter'[t].is = "gone"
      /\ \A o \in Letters \ {t} : letter'[o] = letter[o]
  BY <1>1, <1>2 DEF HomesTyped, Letter
<1>4. duty' \in [Duties -> [is : {"free", "row", "gone"}, home : Lands \cup {None}, letter : Letters \cup {None}]]
  BY <1>1, <1>2 DEF HomesTyped
<1>5. \A d \in Duties : duty'[d].is = "row" => duty'[d] = duty[d] /\ duty[d].letter # t
  BY <1>1, <1>2 DEF HomesTyped
<1>6. TemplatesAreAtHome'
  BY <1>1, <1>2, <1>3, <1>5, AtHome DEF TemplatesAreAtHome, Written, InBox
<1>7. \A o \in Letters \ {t} : Used(o)' => Used(o)
  BY <1>5 DEF Used
<1>8. pens' \in 0 .. MaxPens
  BY <1>1, <1>2, HomesAssumption DEF HomesTyped
<1> QED
  BY <1>1, <1>3, <1>4, <1>6, <1>7, <1>8, PenWrites

LEMMA StepDeleteDuty ==
  ASSUME HomesInv, NEW d \in Duties, DeleteDuty(d)
  PROVE  HomesInv'
<1>1. /\ pens < MaxPens /\ pens' = pens + 1 /\ duty' = [duty EXCEPT ![d].is = "gone"]
      /\ UNCHANGED <<lands, boxes, letter, pen, crossed>>
  BY DEF DeleteDuty
<1>2. HomesTyped /\ (\A q \in Pens : Checked(pen[q]))
  BY DEF HomesInv
<1>3. duty' \in [Duties -> [is : {"free", "row", "gone"}, home : Lands \cup {None}, letter : Letters \cup {None}]]
  BY <1>1, <1>2 DEF HomesTyped
<1>4. \A o \in Duties : duty'[o].is = "row" => duty'[o] = duty[o]
  BY <1>1, <1>2 DEF HomesTyped
<1>5. pens' \in 0 .. MaxPens
  BY <1>1, <1>2, HomesAssumption DEF HomesTyped
<1>6. HomesTyped'
  BY <1>1, <1>2, <1>3, <1>5 DEF HomesTyped
<1>7. \A o \in Letters : Used(o)' => Used(o)
  BY <1>4 DEF Used
<1>8. ASSUME NEW q \in Pens PROVE Checked(pen[q])'
  BY <1>1, <1>2, <1>7 DEF Checked
<1>9. TemplatesAreAtHome'
  BY <1>1, <1>4, AtHome DEF TemplatesAreAtHome, Written, InBox
<1> QED
  BY <1>6, <1>8, <1>9 DEF HomesInv

LEMMA StepDeleteBox ==
  ASSUME HomesInv, NEW b \in Boxes, DeleteBox(b)
  PROVE  HomesInv'
<1> DEFINE inside == {t \in Written : letter[t].box = b}
<1>1. /\ pens < MaxPens /\ pens' = pens + 1 /\ boxes' = boxes \ {b}
      /\ letter' = [t \in Letters |-> IF t \in inside THEN [letter[t] EXCEPT !.box = None] ELSE letter[t]]
      /\ Touches(None, inside) /\ UNCHANGED <<lands, duty>>
  BY DEF DeleteBox
<1>2. HomesTyped /\ crossed \subseteq crossed'
  BY <1>1, TouchedPens DEF HomesInv
<1>3. /\ letter' \in [Letters -> Letter]
      /\ \A t \in Letters : /\ letter'[t].is = letter[t].is /\ letter'[t].home = letter[t].home
                            /\ t \in inside => letter'[t].box = None
                            /\ t \notin inside => letter'[t] = letter[t]
  BY <1>1, <1>2 DEF HomesTyped, Letter
<1>4. \A t \in Letters \ inside : letter[t].is = "row" => letter[t].box # b
  BY DEF Written
<1> HIDE DEF inside
<1>5. TemplatesAreAtHome'
  BY <1>1, <1>2, <1>3, <1>4, AtHome DEF TemplatesAreAtHome, Written, InBox
<1>6. pens' \in 0 .. MaxPens
  BY <1>1, <1>2, HomesAssumption DEF HomesTyped
<1>7. boxes' \subseteq boxes
  BY <1>1
<1> QED
  BY <1>1, <1>2, <1>3, <1>5, <1>6, <1>7, PenWrites DEF HomesTyped, Used

LEMMA StepDeleteLand ==
  ASSUME HomesInv, NEW e \in Lands, DeleteLand(e)
  PROVE  HomesInv'
<1> DEFINE gone == {b \in boxes : BoxHome[b] = e}
           its == {t \in Written : letter[t].home = e \/ letter[t].box \in gone}
<1>1. /\ e \in lands /\ pens < MaxPens /\ pens' = pens + 1
      /\ lands' = lands \ {e} /\ boxes' = boxes \ gone
      /\ letter' = [t \in Letters |->
           IF t \notin its THEN letter[t]
           ELSE [letter[t] EXCEPT !.home = IF @ = e THEN None ELSE @, !.box = IF @ \in gone THEN None ELSE @]]
      /\ duty' = [d \in Duties |-> IF duty[d].home = e THEN [duty[d] EXCEPT !.is = "gone"] ELSE duty[d]]
      /\ Touches(None, its)
  BY DEF DeleteLand
<1>2. HomesTyped /\ crossed \subseteq crossed'
  BY <1>1, TouchedPens DEF HomesInv
<1>3. ASSUME NEW t \in Letters
      PROVE  /\ letter'[t] \in Letter /\ letter'[t].is = letter[t].is
             /\ t \notin its => letter'[t] = letter[t]
             /\ t \in its => /\ letter'[t].home = (IF letter[t].home = e THEN None ELSE letter[t].home)
                             /\ letter'[t].box = (IF letter[t].box \in gone THEN None ELSE letter[t].box)
  <2>1. letter[t] \in Letter
    BY <1>2 DEF HomesTyped
  <2>2. CASE t \notin its
    BY <1>1, <2>1, <2>2
  <2>3. CASE t \in its
    <3> DEFINE h == IF letter[t].home = e THEN None ELSE letter[t].home
               b == IF letter[t].box \in gone THEN None ELSE letter[t].box
    <3>1. letter'[t] = [letter[t] EXCEPT !.home = h, !.box = b]
      BY <1>1, <2>3
    <3>2. h \in Lands \cup {None} /\ b \in Boxes \cup {None}
      BY <2>1 DEF Letter
    <3> HIDE DEF h, b, its
    <3>3. letter'[t] \in Letter /\ letter'[t].is = letter[t].is /\ letter'[t].home = h /\ letter'[t].box = b
      BY <2>1, <3>1, <3>2 DEF Letter
    <3> QED
      BY <2>3, <3>3 DEF h, b
  <2> QED
    BY <2>2, <2>3
<1>4. letter' \in [Letters -> Letter]
  BY <1>1, <1>3
<1>5. duty' \in [Duties -> [is : {"free", "row", "gone"}, home : Lands \cup {None}, letter : Letters \cup {None}]]
  BY <1>1, <1>2 DEF HomesTyped
<1>6. \A d \in Duties : duty'[d].is = "row" => duty'[d] = duty[d] /\ duty[d].home # e
  BY <1>1, <1>2 DEF HomesTyped
<1>7. \A t \in Letters \ its : letter[t].is = "row" => letter[t].home # e /\ letter[t].box \notin gone
  BY DEF Written
<1>8. \A b \in boxes : b \in gone <=> BoxHome[b] = e
  OBVIOUS
<1> HIDE DEF gone, its
<1>9. /\ lands' \subseteq lands /\ boxes' \subseteq boxes /\ boxes' = boxes \ gone
      /\ None \notin boxes /\ None # e
  <2>1. lands' \subseteq lands /\ boxes' \subseteq boxes /\ boxes' = boxes \ gone
    BY <1>1
  <2>2. boxes \subseteq Boxes
    BY <1>2 DEF HomesTyped
  <2>3. None \notin Boxes /\ None \notin Lands
    BY HomesAssumption
  <2>4. None # e
    BY <2>3
  <2> QED
    BY <2>1, <2>2, <2>3, <2>4
<1>10. ASSUME NEW t \in Letters \ crossed', letter'[t].is = "row"
       PROVE  letter'[t].box # None => letter'[t].box \in boxes' /\ BoxHome[letter'[t].box] = letter'[t].home
  <2>1. letter[t].box # None => letter[t].box \in boxes /\ BoxHome[letter[t].box] = letter[t].home
    BY <1>2, <1>3, <1>10, AtHome DEF InBox
  <2>2. CASE t \in its
    BY <1>3, <1>8, <1>9, <2>1, <2>2
  <2>3. CASE t \notin its
    BY <1>3, <1>7, <1>9, <1>10, <2>1, <2>3
  <2> QED
    BY <2>2, <2>3
<1>11. ASSUME NEW d \in Duties, duty'[d].is = "row", duty'[d].letter \notin crossed'
       PROVE  /\ duty'[d].letter \in Letters /\ letter'[duty'[d].letter].is = "row"
              /\ letter'[duty'[d].letter].home = duty'[d].home
  <2>1. /\ duty'[d] = duty[d] /\ duty[d].home # e /\ duty[d].letter \in Letters
        /\ letter[duty[d].letter].is = "row" /\ letter[duty[d].letter].home = duty[d].home
    BY <1>2, <1>6, <1>11, AtHome
  <2> QED
    BY <1>3, <2>1
<1>12. TemplatesAreAtHome'
  BY <1>10, <1>11 DEF TemplatesAreAtHome, Written, InBox
<1>13. pens' \in 0 .. MaxPens
  <2>1. pens < MaxPens /\ pens' = pens + 1
    BY <1>1
  <2>2. pens \in 0 .. MaxPens /\ MaxPens \in Nat
    BY <1>2, HomesAssumption DEF HomesTyped
  <2> QED
    BY <2>1, <2>2
<1>14. \A o \in Letters : Used(o)' => Used(o)
  BY <1>6 DEF Used
<1> QED
  BY <1>1, <1>3, <1>4, <1>5, <1>9, <1>12, <1>13, <1>14, PenWrites

LEMMA StepHomes == HomesInv /\ [NextHomes]_homeVars => HomesInv'
<1> SUFFICES ASSUME HomesInv, [NextHomes]_homeVars PROVE HomesInv'
  OBVIOUS
<1>1. CASE UNCHANGED homeVars
  BY <1>1 DEF homeVars, HomesInv, HomesTyped, Checked, Used, TemplatesAreAtHome, Written, InBox
<1>2. CASE NextHomes
  BY <1>2, StepCompose, StepRevise, StepPenGoes, StepInsertLetter, StepUpdateLetter, StepWriteDuty,
     StepDeleteLetter, StepDeleteDuty, StepDeleteBox, StepDeleteLand DEF NextHomes
<1> QED
  BY <1>1, <1>2

LEMMA HomesAlways == SpecHomes => []HomesInv
  BY InitHomesInv, StepHomes, PTL DEF SpecHomes

\* The templates, the rules that use them and the requests keep their types.
THEOREM HomesTypeCorrect == SpecHomes => []TypeOKHomes
<1>1. HomesInv => TypeOKHomes
  BY DEF HomesInv, HomesTyped, TypeOKHomes, Letter, Pen
<1> QED
  BY <1>1, HomesAlways, PTL

\* A template is in a folder of its own event and is used by rules of its own event, whatever
\* partial patches, rules and deletions overlap, unless a request wrote after another had
\* written what it had read.
THEOREM TemplatesBelong == SpecHomes => []TemplatesAreAtHome
<1>1. HomesInv => TemplatesAreAtHome
  BY DEF HomesInv
<1> QED
  BY <1>1, HomesAlways, PTL

-----------------------------------------------------------------------------
(* The panel of an event and the pictures: EventPanel. *)

Card == [is : {"free", "row", "gone"}, owner : Faces \cup {None}, slug : Chosen \cup Drawn \cup {None},
         status : DOMAIN STATUS_TRANSITIONS, shown : BOOLEAN]
Face == [is : {"free", "row"}, shown : BOOLEAN]
Click == [at : {"idle", "sign up", "insert", "check slug", "update", "status", "delete", "leave",
                "upsert", "upload", "show", "remove", "hide"},
          what : Cards \cup Faces \cup {None}, user : Faces \cup {None},
          slug : Chosen \cup {None} \cup Roles, status : DOMAIN STATUS_TRANSITIONS,
          tries : 0 .. MAX_RETRIES - 1, shown : BOOLEAN]

\* What a request holds by the step it is at.
Apt(c) ==
  /\ c.at = "insert" => c.slug \in Chosen \cup {None}
  /\ c.at \in {"check slug", "update"} => c.slug \in Chosen
  /\ c.at = "upsert" => c.slug \in Roles
  /\ c.at = "show" => c.shown
  /\ c.at \in Removing => ~c.shown
  /\ c.at \in Uploading \cup Removing => c.what # None

PanelTyped ==
  /\ card \in [Cards -> Card] /\ face \in [Faces -> Face]
  /\ role \in [Cards -> [Faces -> Roles \cup {None}]]
  /\ pictures \subseteq Cards \cup Faces /\ tangled \subseteq Cards \cup Faces
  /\ click \in [Clicks -> Click] /\ \A q \in Clicks : Apt(click[q])
  /\ clicks \in 0 .. MaxClicks /\ blips \in 0 .. MaxBlips

\* A profile starts without a photo.
FacesStartBare == \A u \in Faces : face[u].is = "free" => ~face[u].shown

\* An upload that is about to show a picture has left it in the storage, and so has the one
\* that showed it; but while a removal is about to hide it.
PictureHolds(x) ==
  x \notin tangled =>
    /\ \A q \in Clicks : click[q].what = x /\ click[q].at = "show" => x \in pictures
    /\ x \in Pictured /\ Shown(x) => x \in pictures \/ Handling(x, {"hide"})

PanelInv == PanelTyped /\ FacesStartBare /\ \A x \in Cards \cup Faces : PictureHolds(x)

-----------------------------------------------------------------------------
LEMMA Statuses4 == DOMAIN STATUS_TRANSITIONS = {"draft", "published", "cancelled", "ended"}
  BY DEF STATUS_TRANSITIONS

LEMMA PlainClick == /\ NoClick \in Click /\ Apt(NoClick) /\ NoClick.at = "idle" /\ NoClick.shown = FALSE
                    /\ NoCard \in Card /\ NoCard.shown = FALSE /\ NoFace \in Face
  BY Statuses4 DEF NoClick, Click, Apt, Uploading, Removing, MAX_RETRIES, NoCard, Card, NoFace, Face

LEMMA InitPanelInv == InitPanel => PanelInv
<1> SUFFICES ASSUME InitPanel PROVE PanelInv
  OBVIOUS
<1>1. PanelTyped
  BY PlainClick, PanelAssumption DEF InitPanel, PanelTyped
<1>2. FacesStartBare
  BY DEF InitPanel, FacesStartBare, NoFace
<1>3. Pictured = {}
  BY DEF InitPanel, Pictured, Carded, Faced, NoCard, NoFace
<1>4. \A q \in Clicks : click[q].at = "idle"
  BY PlainClick DEF InitPanel
<1> QED
  BY <1>1, <1>2, <1>3, <1>4 DEF PanelInv, PictureHolds

-----------------------------------------------------------------------------
\* A step that neither stores nor removes an object, nor shows or hides a picture.
LEMMA PanelAside ==
  ASSUME PanelInv, PanelTyped', FacesStartBare', UNCHANGED <<pictures, tangled>>,
         \A q \in Clicks : \/ click'[q] = click[q]
                           \/ click[q].at # "hide" /\ click'[q].at # "show",
         \A x \in Cards \cup Faces : (x \in Pictured /\ Shown(x))' => x \in Pictured /\ Shown(x)
  PROVE  PanelInv'
<1>1. ASSUME NEW x \in Cards \cup Faces PROVE PictureHolds(x)'
  <2> SUFFICES ASSUME x \notin tangled
               PROVE  /\ \A q \in Clicks : click'[q].what = x /\ click'[q].at = "show" => x \in pictures
                      /\ (x \in Pictured /\ Shown(x))' => x \in pictures \/ Handling(x, {"hide"})'
    BY DEF PictureHolds
  <2>1. PictureHolds(x)
    BY DEF PanelInv
  <2>2. Handling(x, {"hide"}) => Handling(x, {"hide"})'
    BY DEF Handling
  <2> QED
    BY <2>1, <2>2 DEF PictureHolds
<1> QED
  BY <1>1 DEF PanelInv

LEMMA PanelTypes ==
  ASSUME PanelInv
  PROVE  /\ card \in [Cards -> Card] /\ face \in [Faces -> Face]
         /\ role \in [Cards -> [Faces -> Roles \cup {None}]]
         /\ pictures \subseteq Cards \cup Faces /\ tangled \subseteq Cards \cup Faces
         /\ click \in [Clicks -> Click] /\ \A q \in Clicks : Apt(click[q])
         /\ clicks \in 0 .. MaxClicks /\ blips \in 0 .. MaxBlips
BY DEF PanelInv, PanelTyped

\* A request that arrives, or goes on, or ends without touching the pictures.
LEMMA ClickGoes ==
  ASSUME PanelInv, NEW q \in Clicks, NEW c \in Click, Apt(c), click' = [click EXCEPT ![q] = c],
         click[q].at # "hide", c.at # "show", UNCHANGED <<pictures, tangled>>,
         card' \in [Cards -> Card], face' \in [Faces -> Face],
         role' \in [Cards -> [Faces -> Roles \cup {None}]], FacesStartBare',
         clicks' \in 0 .. MaxClicks, blips' \in 0 .. MaxBlips,
         \A x \in Cards \cup Faces : (x \in Pictured /\ Shown(x))' => x \in Pictured /\ Shown(x)
  PROVE  PanelInv'
<1>1. PanelTyped'
  BY PanelTypes DEF PanelTyped
<1>2. \A o \in Clicks : \/ click'[o] = click[o]
                        \/ click[o].at # "hide" /\ click'[o].at # "show"
  BY PanelTypes
<1> QED
  BY <1>1, <1>2, PanelAside

LEMMA ClickArrives ==
  ASSUME PanelInv, NEW q \in Clicks, NEW c \in Click, Apt(c), c.at # "show", Arrives(q, c)
  PROVE  PanelInv'
<1>1. /\ click[q].at = "idle" /\ clicks' \in 0 .. MaxClicks
      /\ click' = [click EXCEPT ![q] = c]
      /\ UNCHANGED <<card, face, role, pictures, blips, tangled>>
  BY PanelAssumption, PanelTypes DEF Arrives
<1>2. FacesStartBare'
  BY <1>1 DEF PanelInv, FacesStartBare
<1>3. \A x \in Cards \cup Faces : (x \in Pictured /\ Shown(x))' => x \in Pictured /\ Shown(x)
  BY <1>1 DEF Pictured, Carded, Faced, Shown
<1> QED
  BY <1>1, <1>2, <1>3, PanelTypes, ClickGoes

LEMMA StepArrives ==
  ASSUME PanelInv, NEW q \in Clicks,
         \/ Ensure(q) \/ CreateEvent(q) \/ UpdateEvent(q) \/ UpdateStatus(q) \/ DeleteEvent(q)
         \/ AddCollaborator(q) \/ UploadPicture(q) \/ RemovePicture(q)
  PROVE  PanelInv'
<1>1. card \in [Cards -> Card]
  BY PanelTypes
<1> DEFINE Begins == \E c \in Click : Apt(c) /\ c.at # "show" /\ Arrives(q, c)
<1> SUFFICES Begins
  BY ClickArrives
<1>2. CASE Ensure(q)
  <2>1. PICK u \in Faces : Arrives(q, [NoClick EXCEPT !.at = "sign up", !.user = u])
    BY <1>2 DEF Ensure
  <2> DEFINE c == [NoClick EXCEPT !.at = "sign up", !.user = u]
  <2>2. c \in Click /\ Apt(c) /\ c.at # "show"
    BY PlainClick DEF Click, Apt, Uploading, Removing
  <2> QED
    BY <2>1, <2>2
<1>3. CASE CreateEvent(q)
  <2>1. PICK u \in Faced, s \in Chosen \cup {None} :
          Arrives(q, [NoClick EXCEPT !.at = "insert", !.user = u, !.slug = s])
    BY <1>3 DEF CreateEvent
  <2> DEFINE c == [NoClick EXCEPT !.at = "insert", !.user = u, !.slug = s]
  <2>2. c \in Click /\ Apt(c) /\ c.at # "show"
    BY PlainClick DEF Click, Apt, Uploading, Removing, Faced
  <2> QED
    BY <2>1, <2>2
<1>4. CASE UpdateEvent(q)
  <2>1. PICK e \in Carded, s \in Chosen :
          Arrives(q, [NoClick EXCEPT !.at = "check slug", !.what = e, !.slug = s])
    BY <1>4 DEF UpdateEvent
  <2> DEFINE c == [NoClick EXCEPT !.at = "check slug", !.what = e, !.slug = s]
  <2>2. c \in Click /\ Apt(c) /\ c.at # "show"
    BY PlainClick DEF Click, Apt, Uploading, Removing, Carded
  <2> QED
    BY <2>1, <2>2
<1>5. CASE UpdateStatus(q)
  <2>1. PICK e \in Carded : \E t \in STATUS_TRANSITIONS[card[e].status] :
          Arrives(q, [NoClick EXCEPT !.at = "status", !.what = e, !.status = t])
    BY <1>5 DEF UpdateStatus
  <2>2. PICK t \in STATUS_TRANSITIONS[card[e].status] :
          Arrives(q, [NoClick EXCEPT !.at = "status", !.what = e, !.status = t])
    BY <2>1
  <2>3. e \in Cards /\ card[e].status \in DOMAIN STATUS_TRANSITIONS
    BY <1>1 DEF Carded, Card
  <2>4. t \in DOMAIN STATUS_TRANSITIONS
    BY <2>3, Statuses4 DEF STATUS_TRANSITIONS
  <2> DEFINE c == [NoClick EXCEPT !.at = "status", !.what = e, !.status = t]
  <2>5. c \in Click /\ Apt(c) /\ c.at # "show"
    BY <2>3, <2>4, PlainClick DEF Click, Apt, Uploading, Removing
  <2> QED
    BY <2>2, <2>5
<1>6. CASE DeleteEvent(q)
  <2>1. PICK e \in Carded, u \in Faced :
          Arrives(q, [NoClick EXCEPT !.what = e, !.user = u,
            !.at = IF card[e].owner = u \/ role[e][u] = "admin" THEN "delete" ELSE "leave"])
    BY <1>6 DEF DeleteEvent
  <2>2. PICK a \in {"delete", "leave"} : Arrives(q, [NoClick EXCEPT !.what = e, !.user = u, !.at = a])
    BY <2>1
  <2> DEFINE c == [NoClick EXCEPT !.what = e, !.user = u, !.at = a]
  <2>3. c \in Click /\ Apt(c) /\ c.at # "show"
    BY PlainClick DEF Click, Apt, Uploading, Removing, Carded, Faced
  <2> QED
    BY <2>2, <2>3
<1>7. CASE AddCollaborator(q)
  <2>1. PICK e \in Carded, u \in Faced, r \in Roles :
          Arrives(q, [NoClick EXCEPT !.at = "upsert", !.what = e, !.user = u, !.slug = r])
    BY <1>7 DEF AddCollaborator
  <2> DEFINE c == [NoClick EXCEPT !.at = "upsert", !.what = e, !.user = u, !.slug = r]
  <2>2. c \in Click /\ Apt(c) /\ c.at # "show"
    BY PlainClick DEF Click, Apt, Uploading, Removing, Carded, Faced
  <2> QED
    BY <2>1, <2>2
<1>8. CASE UploadPicture(q) \/ RemovePicture(q)
  <2>1. PICK x \in Pictured, a \in {"upload", "remove", "hide"} :
          Arrives(q, [NoClick EXCEPT !.at = a, !.what = x])
    <3>1. CASE UploadPicture(q)
      BY <3>1 DEF UploadPicture
    <3>2. CASE RemovePicture(q)
      <4>1. PICK x \in Pictured : Arrives(q, [NoClick EXCEPT !.at = IF Shown(x) THEN "remove" ELSE "hide", !.what = x])
        BY <3>2 DEF RemovePicture
      <4> QED
        BY <4>1
    <3> QED
      BY <1>8, <3>1, <3>2
  <2> DEFINE c == [NoClick EXCEPT !.at = a, !.what = x]
  <2>2. x \in Cards \cup Faces /\ x # None
    BY PanelAssumption DEF Pictured, Carded, Faced
  <2>3. c \in Click /\ c.at = a /\ c.what = x /\ c.shown = FALSE
    BY <2>2, PlainClick DEF Click
  <2> HIDE DEF c
  <2>4. Apt(c)
    BY <2>2, <2>3 DEF Apt
  <2> QED
    BY <2>1, <2>3, <2>4 DEF c
<1> QED
  BY <1>2, <1>3, <1>4, <1>5, <1>6, <1>7, <1>8

LEMMA PanelSame ==
  ASSUME PanelInv,
         \A e \in Cards : (card'[e].is = "row" /\ card'[e].shown) => card[e].is = "row" /\ card[e].shown,
         \A u \in Faces : (face'[u].is = "row" /\ face'[u].shown) => face[u].is = "row" /\ face[u].shown
  PROVE  \A x \in Cards \cup Faces : (x \in Pictured /\ Shown(x))' => x \in Pictured /\ Shown(x)
BY PanelAssumption DEF Pictured, Carded, Faced, Shown

\* A request that ends and, at most, writes rows that show no picture they did not show.
LEMMA ClickEnds ==
  ASSUME PanelInv, NEW q \in Clicks, click[q].at # "hide", Over(q), Stays,
         UNCHANGED <<pictures, tangled>>,
         card' \in [Cards -> Card], face' \in [Faces -> Face],
         role' \in [Cards -> [Faces -> Roles \cup {None}]],
         \A e \in Cards : (card'[e].is = "row" /\ card'[e].shown) => card[e].is = "row" /\ card[e].shown,
         \A u \in Faces : face'[u] = face[u] \/ (face[u].is = "free" /\ face'[u].is = "row" /\ face'[u].shown = face[u].shown)
  PROVE  PanelInv'
<1>1. FacesStartBare'
  BY DEF PanelInv, FacesStartBare
<1>2. \A u \in Faces : (face'[u].is = "row" /\ face'[u].shown) => face[u].is = "row" /\ face[u].shown
  BY DEF PanelInv, FacesStartBare
<1>3. \A x \in Cards \cup Faces : (x \in Pictured /\ Shown(x))' => x \in Pictured /\ Shown(x)
  BY <1>2, PanelSame
<1>4. click' = [click EXCEPT ![q] = NoClick] /\ clicks' \in 0 .. MaxClicks /\ blips' \in 0 .. MaxBlips
  BY PanelTypes DEF Over, Stays
<1>5. NoClick.at # "show"
  BY PlainClick
<1> QED
  BY <1>1, <1>3, <1>4, <1>5, PlainClick, ClickGoes

\* A row rewritten that shows what it showed.
LEMMA CardRewritten ==
  ASSUME PanelInv, NEW e \in Cards, NEW r \in Card, r.shown = card[e].shown, r.is \in {card[e].is, "gone"},
         card' = [card EXCEPT ![e] = r]
  PROVE  /\ card' \in [Cards -> Card]
         /\ \A o \in Cards : (card'[o].is = "row" /\ card'[o].shown) => card[o].is = "row" /\ card[o].shown
<1>1. card \in [Cards -> Card]
  BY PanelTypes
<1> QED
  BY <1>1

LEMMA StepWrites ==
  ASSUME PanelInv, NEW q \in Clicks,
         \/ CreateProfile(q) \/ WriteUpdate(q) \/ WriteStatus(q) \/ EventGoes(q) \/ LeavesEvent(q) \/ Upserts(q)
  PROVE  PanelInv'
<1> USE PanelTypes
<1>0. click[q] \in Click /\ Apt(click[q])
  OBVIOUS
<1>1. CASE CreateProfile(q)
  <2>1. /\ click[q].at # "hide" /\ Over(q) /\ Stays /\ UNCHANGED <<card, role, pictures, tangled>>
        /\ \A u \in Faces : face'[u] = face[u] \/ (face[u].is = "free" /\ face'[u].is = "row" /\ face'[u].shown = face[u].shown)
        /\ face' \in [Faces -> Face]
    BY <1>1 DEF CreateProfile, Faced, Face
  <2> QED
    BY <2>1, ClickEnds
<1>2. CASE WriteUpdate(q)
  <2>1. /\ click[q].at # "hide" /\ Over(q) /\ Stays /\ UNCHANGED <<face, role, pictures, tangled>>
        /\ click[q].slug \in Chosen
    BY <1>0, <1>2 DEF WriteUpdate, Apt
  <2>2. /\ card' \in [Cards -> Card]
        /\ \A e \in Cards : (card'[e].is = "row" /\ card'[e].shown) => card[e].is = "row" /\ card[e].shown
    <3> DEFINE e == click[q].what
               r == [card[e] EXCEPT !.slug = click[q].slug]
    <3>1. card' = card \/ (e \in Carded /\ card' = [card EXCEPT ![e] = r])
      BY <1>2 DEF WriteUpdate
    <3>2. CASE card' = card
      BY <3>2
    <3>3. CASE e \in Carded /\ card' = [card EXCEPT ![e] = r]
      <4>1. e \in Cards /\ card[e] \in Card
        BY <3>3 DEF Carded
      <4>2. r \in Card /\ r.shown = card[e].shown /\ r.is \in {card[e].is, "gone"}
        BY <4>1, <2>1 DEF Card
      <4> HIDE DEF r, e
      <4> QED
        BY <3>3, <4>1, <4>2, CardRewritten
    <3> QED
      BY <3>1, <3>2, <3>3
  <2> QED
    BY <2>1, <2>2, ClickEnds
<1>3. CASE WriteStatus(q)
  <2>1. /\ click[q].at # "hide" /\ Over(q) /\ Stays /\ UNCHANGED <<face, role, pictures, tangled>>
        /\ click[q].status \in DOMAIN STATUS_TRANSITIONS
    BY <1>0, <1>3 DEF WriteStatus, Click
  <2>2. /\ card' \in [Cards -> Card]
        /\ \A e \in Cards : (card'[e].is = "row" /\ card'[e].shown) => card[e].is = "row" /\ card[e].shown
    <3> DEFINE e == click[q].what
               r == [card[e] EXCEPT !.status = click[q].status]
    <3>1. card' = card \/ (e \in Carded /\ card' = [card EXCEPT ![e] = r])
      BY <1>3 DEF WriteStatus
    <3>2. CASE card' = card
      BY <3>2
    <3>3. CASE e \in Carded /\ card' = [card EXCEPT ![e] = r]
      <4>1. e \in Cards /\ card[e] \in Card
        BY <3>3 DEF Carded
      <4>2. r \in Card /\ r.shown = card[e].shown /\ r.is \in {card[e].is, "gone"}
        BY <4>1, <2>1 DEF Card
      <4> HIDE DEF r, e
      <4> QED
        BY <3>3, <4>1, <4>2, CardRewritten
    <3> QED
      BY <3>1, <3>2, <3>3
  <2> QED
    BY <2>1, <2>2, ClickEnds
<1>4. CASE EventGoes(q)
  <2>1. click[q].at # "hide" /\ Over(q) /\ Stays /\ UNCHANGED <<face, pictures, tangled>>
    BY <1>4 DEF EventGoes
  <2>2. /\ card' \in [Cards -> Card]
        /\ \A e \in Cards : (card'[e].is = "row" /\ card'[e].shown) => card[e].is = "row" /\ card[e].shown
    <3> DEFINE e == click[q].what
               r == [card[e] EXCEPT !.is = "gone"]
    <3>1. card' = card \/ (e \in Carded /\ card' = [card EXCEPT ![e] = r])
      BY <1>4 DEF EventGoes
    <3>2. CASE card' = card
      BY <3>2
    <3>3. CASE e \in Carded /\ card' = [card EXCEPT ![e] = r]
      <4>1. e \in Cards /\ card[e] \in Card
        BY <3>3 DEF Carded
      <4>2. r \in Card /\ r.shown = card[e].shown /\ r.is \in {card[e].is, "gone"}
        BY <4>1 DEF Card
      <4> HIDE DEF r, e
      <4> QED
        BY <3>3, <4>1, <4>2, CardRewritten
    <3> QED
      BY <3>1, <3>2, <3>3
  <2>3. role' \in [Cards -> [Faces -> Roles \cup {None}]]
    BY <1>4 DEF EventGoes
  <2> QED
    BY <2>1, <2>2, <2>3, ClickEnds
<1>5. CASE LeavesEvent(q)
  <2>1. /\ click[q].at # "hide" /\ Over(q) /\ Stays /\ UNCHANGED <<card, face, pictures, tangled>>
        /\ role' \in [Cards -> [Faces -> Roles \cup {None}]]
    BY <1>5 DEF LeavesEvent
  <2> QED
    BY <2>1, ClickEnds
<1>6. CASE Upserts(q)
  <2>1. /\ click[q].at # "hide" /\ Over(q) /\ Stays /\ UNCHANGED <<card, face, pictures, tangled>>
        /\ click[q].slug \in Roles
    BY <1>0, <1>6 DEF Upserts, Apt
  <2>2. role' \in [Cards -> [Faces -> Roles \cup {None}]]
    BY <1>6, <2>1 DEF Upserts
  <2> QED
    BY <2>1, <2>2, ClickEnds
<1> QED
  BY <1>1, <1>2, <1>3, <1>4, <1>5, <1>6

LEMMA StepInsertEvent == ASSUME PanelInv, NEW q \in Clicks, InsertEvent(q) PROVE PanelInv'
<1>1. PICK s \in IF click[q].slug = None THEN Drawn ELSE {click[q].slug} :
    /\ click[q].at = "insert" /\ Stays
    /\ IF s \notin SlugsTaken
       THEN /\ \E e \in Cards : /\ card[e].is = "free" /\ e = CHOOSE o \in Cards : card[o].is = "free"
                                /\ card' = [card EXCEPT ![e] = [NoCard EXCEPT !.is = "row", !.owner = click[q].user, !.slug = s]]
            /\ Over(q)
       ELSE /\ IF click[q].slug = None /\ click[q].tries < MAX_RETRIES - 1
               THEN click' = [click EXCEPT ![q].tries = @ + 1] ELSE Over(q)
            /\ UNCHANGED card
    /\ UNCHANGED <<face, role, pictures, tangled>>
  BY DEF InsertEvent
<1>2. click[q] \in Click /\ Apt(click[q])
  BY PanelTypes
<1>3. s \in Chosen \cup Drawn /\ click[q].user \in Faces \cup {None}
  BY <1>1, <1>2 DEF Apt, Click
<1>4. CASE s \notin SlugsTaken
  <2>1. PICK e \in Cards : /\ card[e].is = "free"
                           /\ card' = [card EXCEPT ![e] = [NoCard EXCEPT !.is = "row", !.owner = click[q].user, !.slug = s]]
    BY <1>1, <1>4
  <2> DEFINE r == [NoCard EXCEPT !.is = "row", !.owner = click[q].user, !.slug = s]
  <2>2. r \in Card /\ r.shown = FALSE
    BY <1>3, PlainClick DEF Card
  <2> HIDE DEF r
  <2>3. card' \in [Cards -> Card]
    BY <2>1, <2>2, PanelTypes DEF r
  <2>4. \A o \in Cards : (card'[o].is = "row" /\ card'[o].shown) => card[o].is = "row" /\ card[o].shown
    BY <2>1, <2>2, PanelTypes DEF r
  <2>5. Over(q) /\ Stays /\ UNCHANGED <<face, role, pictures, tangled>> /\ click[q].at # "hide"
    BY <1>1, <1>4
  <2> QED
    BY <2>3, <2>4, <2>5, PanelTypes, ClickEnds
<1>5. CASE s \in SlugsTaken /\ click[q].slug = None /\ click[q].tries < MAX_RETRIES - 1
  <2> DEFINE c == [click[q] EXCEPT !.tries = @ + 1]
  <2>1. click' = [click EXCEPT ![q] = c]
    BY <1>1, <1>5
  <2>2. c \in Click /\ c.at = "insert" /\ c.slug = None
    <3>0. click[q].tries \in 0 .. MAX_RETRIES - 1 /\ click[q].tries < MAX_RETRIES - 1
      BY <1>2, <1>5 DEF Click
    <3>1. click[q].tries \in 0 .. 2 /\ click[q].tries < 2
      BY <3>0 DEF MAX_RETRIES
    <3>2. click[q].tries + 1 \in 0 .. MAX_RETRIES - 1
      BY <3>1 DEF MAX_RETRIES
    <3> QED
      BY <1>1, <1>2, <1>5, <3>2 DEF Click
  <2> HIDE DEF c
  <2>3. Apt(c) /\ c.at # "show" /\ click[q].at # "hide"
    BY <1>1, <2>2 DEF Apt, Uploading, Removing
  <2>4. UNCHANGED <<card, face, role, pictures, tangled, clicks, blips>>
    BY <1>1, <1>5 DEF Stays
  <2>5. FacesStartBare'
    BY <2>4 DEF PanelInv, FacesStartBare
  <2>6. \A x \in Cards \cup Faces : (x \in Pictured /\ Shown(x))' => x \in Pictured /\ Shown(x)
    BY <2>4, PanelSame
  <2> QED
    BY <2>1, <2>2, <2>3, <2>4, <2>5, <2>6, PanelTypes, ClickGoes
<1>6. CASE s \in SlugsTaken /\ ~(click[q].slug = None /\ click[q].tries < MAX_RETRIES - 1)
  <2>1. Over(q) /\ Stays /\ UNCHANGED <<card, face, role, pictures, tangled>> /\ click[q].at # "hide"
    BY <1>1, <1>6
  <2> QED
    BY <2>1, PanelTypes, ClickEnds
<1> QED
  BY <1>4, <1>5, <1>6

LEMMA StepChecksSlug == ASSUME PanelInv, NEW q \in Clicks, ChecksSlug(q) PROVE PanelInv'
<1>1. /\ click[q].at = "check slug" /\ Stays /\ UNCHANGED <<card, face, role, pictures, tangled>>
      /\ Over(q) \/ click' = [click EXCEPT ![q].at = "update"]
  BY DEF ChecksSlug
<1>2. click[q] \in Click /\ Apt(click[q])
  BY PanelTypes
<1>3. CASE Over(q)
  <2>1. click[q].at # "hide"
    BY <1>1
  <2> QED
    BY <1>1, <1>3, <2>1, PanelTypes, ClickEnds
<1>4. CASE click' = [click EXCEPT ![q].at = "update"]
  <2> DEFINE c == [click[q] EXCEPT !.at = "update"]
  <2>1. click' = [click EXCEPT ![q] = c]
    BY <1>4
  <2>2. c \in Click /\ c.at = "update" /\ c.slug = click[q].slug
    BY <1>2 DEF Click
  <2> HIDE DEF c
  <2>3. Apt(c) /\ c.at # "show" /\ click[q].at # "hide"
    BY <1>1, <1>2, <2>2 DEF Apt, Uploading, Removing
  <2>4. UNCHANGED <<card, face, role, pictures, tangled, clicks, blips>>
    BY <1>1 DEF Stays
  <2>5. FacesStartBare'
    BY <2>4 DEF PanelInv, FacesStartBare
  <2>6. \A x \in Cards \cup Faces : (x \in Pictured /\ Shown(x))' => x \in Pictured /\ Shown(x)
    BY <2>4, PanelSame
  <2> QED
    BY <2>1, <2>2, <2>3, <2>4, <2>5, <2>6, PanelTypes, ClickGoes
<1> QED
  BY <1>1, <1>3, <1>4

LEMMA StepStatement == ASSUME PanelInv, UpdateRole \/ RemoveCollaborator PROVE PanelInv'
<1>1. PICK e \in Cards, u \in Faces, r \in Roles \cup {None} : OneStatement([role EXCEPT ![e][u] = r])
  BY DEF UpdateRole, RemoveCollaborator, Carded, Faced
<1>2. /\ role' = [role EXCEPT ![e][u] = r] /\ UNCHANGED <<card, face, pictures, click, blips, tangled>>
      /\ clicks' \in 0 .. MaxClicks
  BY <1>1, PanelTypes, PanelAssumption DEF OneStatement
<1>3. PanelTyped'
  BY <1>2, PanelTypes DEF PanelTyped
<1>4. FacesStartBare'
  BY <1>2 DEF PanelInv, FacesStartBare
<1>5. \A x \in Cards \cup Faces : (x \in Pictured /\ Shown(x))' => x \in Pictured /\ Shown(x)
  BY <1>2, PanelSame
<1> QED
  BY <1>2, <1>3, <1>4, <1>5, PanelAside

-----------------------------------------------------------------------------
(* The steps that upload, remove, show and hide a picture. *)

\* Whatever a request about another picture does, and does not do, leaves a picture as it was.
LEMMA OtherPictures ==
  ASSUME PanelInv, NEW q \in Clicks, NEW c \in Click, click' = [click EXCEPT ![q] = c],
         c.what \in {click[q].what, None}, c.what = None => c.at = "idle",
         NEW x \in Cards \cup Faces, x # click[q].what,
         x \in tangled' <=> x \in tangled, x \in pictures' <=> x \in pictures,
         (x \in Pictured /\ Shown(x))' => x \in Pictured /\ Shown(x)
  PROVE  PictureHolds(x)'
<1>1. PictureHolds(x) /\ click \in [Clicks -> Click]
  BY PanelTypes DEF PanelInv
<1>2. \A o \in Clicks : click'[o].what = x => o # q /\ click'[o] = click[o]
  BY <1>1, PanelAssumption
<1>3. \A o \in Clicks : click[o].what = x => click'[o] = click[o]
  BY <1>1
<1>4. Handling(x, {"hide"}) => Handling(x, {"hide"})'
  BY <1>3 DEF Handling
<1>5. \A o \in Clicks : click'[o].what = x /\ click'[o].at = "show" => click[o].what = x /\ click[o].at = "show"
  BY <1>2
<1> QED
  BY <1>1, <1>4, <1>5 DEF PictureHolds

\* What an entangled picture is.
LEMMA TangleGrows ==
  ASSUME PanelInv, NEW x \in Cards \cup Faces, Tangles(x)
  PROVE  /\ tangled' \subseteq Cards \cup Faces
         /\ \A y : y # x => (y \in tangled' <=> y \in tangled)
         /\ x \notin tangled' => x \notin tangled /\ ~(Handling(x, Uploading) /\ Handling(x, Removing))
BY PanelTypes DEF Tangles

LEMMA StepStoresObject == ASSUME PanelInv, NEW q \in Clicks, StoresObject(q) PROVE PanelInv'
<1>0. PICK x : x = click[q].what
  OBVIOUS
<1>1. click[q] \in Click /\ Apt(click[q]) /\ click \in [Clicks -> Click]
  BY PanelTypes
<1>2. /\ click[q].at = "upload" /\ Tangles(x) /\ UNCHANGED <<card, face, role>>
      /\ \/ Stays /\ pictures' = pictures \cup {x} /\ click' = [click EXCEPT ![q].at = "show", ![q].shown = TRUE]
         \/ Blip /\ Over(q) /\ UNCHANGED pictures
  BY <1>0 DEF StoresObject
<1>3. x \in Cards \cup Faces
  BY <1>0, <1>1, <1>2 DEF Apt, Uploading, Click
<1>4. clicks' \in 0 .. MaxClicks /\ blips' \in 0 .. MaxBlips
  BY <1>2, PanelTypes, PanelAssumption DEF Stays, Blip
<1>5. FacesStartBare'
  BY <1>2 DEF PanelInv, FacesStartBare
<1>6. \A y \in Cards \cup Faces : (y \in Pictured /\ Shown(y))' => y \in Pictured /\ Shown(y)
  BY <1>2, PanelSame
<1>7. PICK c \in Click : /\ click' = [click EXCEPT ![q] = c] /\ Apt(c)
                         /\ \/ c.at = "show" /\ c.what = x /\ pictures' = pictures \cup {x}
                            \/ c.at = "idle" /\ c.what = None /\ pictures' = pictures
  <2>1. CASE pictures' = pictures \cup {x} /\ click' = [click EXCEPT ![q].at = "show", ![q].shown = TRUE]
    <3> DEFINE c == [click[q] EXCEPT !.at = "show", !.shown = TRUE]
    <3>1. click' = [click EXCEPT ![q] = c]
      BY <1>1, <2>1
    <3>2. c \in Click /\ c.at = "show" /\ c.shown /\ c.what = x
      BY <1>0, <1>1 DEF Click
    <3> HIDE DEF c
    <3>3. Apt(c)
      BY <1>3, <3>2, PanelAssumption DEF Apt, Removing
    <3> QED
      BY <2>1, <3>1, <3>2, <3>3
  <2>2. CASE Over(q) /\ UNCHANGED pictures
    BY <2>2, PlainClick DEF Over, NoClick
  <2> QED
    BY <1>2, <2>1, <2>2
<1>8. pictures' \subseteq Cards \cup Faces /\ \A y : y # x => (y \in pictures' <=> y \in pictures)
  BY <1>3, <1>7, PanelTypes
<1>9. PanelTyped'
  BY <1>2, <1>3, <1>4, <1>7, <1>8, TangleGrows, PanelTypes DEF PanelTyped
<1>10. ASSUME NEW y \in Cards \cup Faces, y # x PROVE PictureHolds(y)'
  BY <1>0, <1>1, <1>2, <1>3, <1>6, <1>7, <1>8, <1>10, PanelAssumption, TangleGrows, OtherPictures
<1>11. PictureHolds(x)'
  <2> SUFFICES ASSUME x \notin tangled'
               PROVE  /\ \A o \in Clicks : click'[o].what = x /\ click'[o].at = "show" => x \in pictures'
                      /\ (x \in Pictured /\ Shown(x))' => x \in pictures' \/ Handling(x, {"hide"})'
    BY DEF PictureHolds
  <2>1. PictureHolds(x) /\ x \notin tangled
    BY <1>2, <1>3, TangleGrows DEF PanelInv
  <2>2. CASE x \in pictures'
    BY <2>2
  <2>3. CASE x \notin pictures'
    <3>1. c.at = "idle" /\ pictures' = pictures
      BY <1>7, <2>3
    <3>2. Handling(x, {"hide"}) => Handling(x, {"hide"})'
      BY <1>1, <1>2, <1>7 DEF Handling
    <3> QED
      BY <1>1, <1>3, <1>6, <1>7, <2>1, <3>1, <3>2 DEF PictureHolds
  <2> QED
    BY <2>2, <2>3
<1> QED
  BY <1>5, <1>9, <1>10, <1>11 DEF PanelInv

LEMMA StepRemovesObject == ASSUME PanelInv, NEW q \in Clicks, RemovesObject(q) PROVE PanelInv'
<1>0. PICK x, c : x = click[q].what /\ c = [click[q] EXCEPT !.at = "hide"]
  OBVIOUS
<1>1. click[q] \in Click /\ Apt(click[q]) /\ click \in [Clicks -> Click]
  BY PanelTypes
<1>2. /\ click[q].at = "remove" /\ Tangles(x) /\ UNCHANGED <<card, face, role>>
      /\ click' = [click EXCEPT ![q] = c]
      /\ pictures' \in {pictures, pictures \ {x}}
  BY <1>0 DEF RemovesObject
<1>3. x \in Cards \cup Faces
  BY <1>0, <1>1, <1>2 DEF Apt, Removing, Click
<1>4. clicks' \in 0 .. MaxClicks /\ blips' \in 0 .. MaxBlips
  BY PanelTypes, PanelAssumption DEF RemovesObject, Stays, Blip
<1>5. FacesStartBare'
  BY <1>2 DEF PanelInv, FacesStartBare
<1>6. \A y \in Cards \cup Faces : (y \in Pictured /\ Shown(y))' => y \in Pictured /\ Shown(y)
  BY <1>2, PanelSame
<1>7. c \in Click /\ c.at = "hide" /\ c.what = x /\ c.shown = click[q].shown
  BY <1>0, <1>1 DEF Click
<1>8. pictures' \subseteq Cards \cup Faces /\ \A y : y # x => (y \in pictures' <=> y \in pictures)
  BY <1>2, PanelTypes
<1>9. PanelTyped'
  <2>1. Apt(c)
    BY <1>1, <1>2, <1>3, <1>7, PanelAssumption DEF Apt, Removing
  <2> QED
    BY <1>2, <1>3, <1>4, <1>7, <1>8, <2>1, TangleGrows, PanelTypes DEF PanelTyped
<1>10. ASSUME NEW y \in Cards \cup Faces, y # x PROVE PictureHolds(y)'
  BY <1>1, <1>2, <1>3, <1>6, <1>7, <1>8, <1>10, TangleGrows, OtherPictures, PanelAssumption, <1>0
<1>11. PictureHolds(x)'
  <2> SUFFICES ASSUME x \notin tangled'
               PROVE  /\ \A o \in Clicks : click'[o].what = x /\ click'[o].at = "show" => x \in pictures'
                      /\ (x \in Pictured /\ Shown(x))' => x \in pictures' \/ Handling(x, {"hide"})'
    BY DEF PictureHolds
  <2>1. ~Handling(x, Uploading)
    <3>1. Handling(x, Removing)
      BY <1>0, <1>2 DEF Handling, Removing
    <3> QED
      BY <1>2, <1>3, <3>1, TangleGrows
  <2>2. \A o \in Clicks : click[o].what = x => click[o].at # "show"
    BY <2>1 DEF Handling, Uploading
  <2>3. \A o \in Clicks : click'[o].what = x => click'[o].at # "show"
    BY <1>1, <1>2, <1>7, <2>2
  <2>4. Handling(x, {"hide"})'
    BY <1>1, <1>2, <1>7 DEF Handling
  <2> QED
    BY <2>3, <2>4
<1> QED
  BY <1>5, <1>9, <1>10, <1>11 DEF PanelInv

LEMMA StepWritesUrl == ASSUME PanelInv, NEW q \in Clicks, WritesUrl(q) PROVE PanelInv'
<1>0. PICK x, v : x = click[q].what /\ v = click[q].shown
  OBVIOUS
<1>1. click[q] \in Click /\ Apt(click[q]) /\ click \in [Clicks -> Click]
  BY PanelTypes
<1>2. /\ click[q].at \in {"show", "hide"} /\ Over(q) /\ Stays /\ Tangles(x) /\ UNCHANGED <<role, pictures>>
      /\ card' = IF x \in Carded THEN [card EXCEPT ![x].shown = v] ELSE card
      /\ face' = IF x \in Faced THEN [face EXCEPT ![x].shown = v] ELSE face
  BY <1>0 DEF WritesUrl
<1>3. x \in Cards \cup Faces /\ v \in BOOLEAN
  BY <1>0, <1>1, <1>2 DEF Apt, Uploading, Removing, Click
<1>4. clicks' \in 0 .. MaxClicks /\ blips' \in 0 .. MaxBlips
  BY <1>2, PanelTypes DEF Stays
<1>5. /\ card' \in [Cards -> Card] /\ \A e \in Cards : /\ card'[e].is = card[e].is
                                                    /\ card'[e].shown = IF e = x /\ e \in Carded THEN v ELSE card[e].shown
  <2>1. card \in [Cards -> Card]
    BY PanelTypes
  <2>2. CASE x \in Carded
    <3> DEFINE r == [card[x] EXCEPT !.shown = v]
    <3>1. card' = [card EXCEPT ![x] = r] /\ x \in Cards
      BY <1>2, <2>2 DEF Carded
    <3>2. r \in Card /\ r.is = card[x].is /\ r.shown = v
      BY <1>3, <2>1, <3>1 DEF Card
    <3> HIDE DEF r
    <3> QED
      BY <2>1, <2>2, <3>1, <3>2
  <2>3. CASE x \notin Carded
    BY <1>2, <2>1, <2>3
  <2> QED
    BY <2>2, <2>3
<1>6. /\ face' \in [Faces -> Face] /\ \A u \in Faces : /\ face'[u].is = face[u].is
                                                    /\ face'[u].shown = IF u = x /\ u \in Faced THEN v ELSE face[u].shown
  <2>1. face \in [Faces -> Face]
    BY PanelTypes
  <2>2. CASE x \in Faced
    <3> DEFINE r == [face[x] EXCEPT !.shown = v]
    <3>1. face' = [face EXCEPT ![x] = r] /\ x \in Faces
      BY <1>2, <2>2 DEF Faced
    <3>2. r \in Face /\ r.is = face[x].is /\ r.shown = v
      BY <1>3, <2>1, <3>1 DEF Face
    <3> HIDE DEF r
    <3> QED
      BY <2>1, <2>2, <3>1, <3>2
  <2>3. CASE x \notin Faced
    BY <1>2, <2>1, <2>3
  <2> QED
    BY <2>2, <2>3
<1>7. FacesStartBare'
  BY <1>6 DEF PanelInv, FacesStartBare, Faced
<1>8. PanelTyped'
  BY <1>2, <1>3, <1>4, <1>5, <1>6, TangleGrows, PanelTypes, PlainClick DEF PanelTyped, Over
<1>9. /\ \A y \in Cards \cup Faces : y # x => ((y \in Pictured /\ Shown(y))' => y \in Pictured /\ Shown(y))
      /\ (x \in Pictured /\ Shown(x))' => v
  BY <1>5, <1>6, PanelAssumption DEF Pictured, Carded, Faced, Shown
<1>10. click' = [click EXCEPT ![q] = NoClick] /\ NoClick \in Click /\ NoClick.at = "idle" /\ NoClick.what = None
  BY <1>2, PlainClick DEF Over, NoClick
<1>11. ASSUME NEW y \in Cards \cup Faces, y # x PROVE PictureHolds(y)'
  BY <1>1, <1>2, <1>3, <1>9, <1>10, <1>11, TangleGrows, OtherPictures, <1>0
<1>12. PictureHolds(x)'
  <2> SUFFICES ASSUME x \notin tangled'
               PROVE  /\ \A o \in Clicks : click'[o].what = x /\ click'[o].at = "show" => x \in pictures
                      /\ (x \in Pictured /\ Shown(x))' => x \in pictures
    BY <1>2 DEF PictureHolds
  <2>1. PictureHolds(x) /\ x \notin tangled
    BY <1>2, <1>3, TangleGrows DEF PanelInv
  <2>2. \A o \in Clicks : click'[o].what = x /\ click'[o].at = "show" => click[o].what = x /\ click[o].at = "show"
    BY <1>1, <1>10
  <2>3. v => click[q].at = "show"
    BY <1>0, <1>1, <1>2 DEF Apt, Removing
  <2>4. (x \in Pictured /\ Shown(x))' => x \in pictures
    BY <1>0, <1>9, <2>1, <2>3 DEF PictureHolds
  <2> QED
    BY <2>1, <2>2, <2>4 DEF PictureHolds
<1> QED
  BY <1>7, <1>8, <1>11, <1>12 DEF PanelInv

LEMMA StepClickLost == ASSUME PanelInv, NEW q \in Clicks, WriteLost(q) PROVE PanelInv'
<1>1. click[q] \in Click /\ Apt(click[q]) /\ click \in [Clicks -> Click]
  BY PanelTypes
<1>2. /\ click' = [click EXCEPT ![q] = NoClick] /\ UNCHANGED <<card, face, role, pictures>>
      /\ tangled' = IF click[q].at = "hide" THEN tangled \cup {click[q].what} ELSE tangled
      /\ NoClick \in Click /\ NoClick.at = "idle" /\ NoClick.what = None
  BY PlainClick DEF WriteLost, Over, NoClick
<1>3. clicks' \in 0 .. MaxClicks /\ blips' \in 0 .. MaxBlips
  BY PanelTypes, PanelAssumption DEF WriteLost, Blip
<1>4. click[q].at = "hide" => click[q].what \in Cards \cup Faces
  BY <1>1 DEF Apt, Removing, Click
<1>5. PanelTyped'
  BY <1>2, <1>3, <1>4, PanelTypes, PlainClick DEF PanelTyped
<1>6. FacesStartBare'
  BY <1>2 DEF PanelInv, FacesStartBare
<1>7. \A y \in Cards \cup Faces : (y \in Pictured /\ Shown(y))' => y \in Pictured /\ Shown(y)
  BY <1>2, PanelSame
<1>8. ASSUME NEW x \in Cards \cup Faces PROVE PictureHolds(x)'
  <2> SUFFICES ASSUME x \notin tangled'
               PROVE  /\ \A o \in Clicks : click'[o].what = x /\ click'[o].at = "show" => x \in pictures
                      /\ (x \in Pictured /\ Shown(x))' => x \in pictures \/ Handling(x, {"hide"})'
    BY <1>2 DEF PictureHolds
  <2>1. PictureHolds(x) /\ x \notin tangled
    BY <1>2 DEF PanelInv
  <2>2. \A o \in Clicks : click'[o].what = x /\ click'[o].at = "show" => click[o].what = x /\ click[o].at = "show"
    BY <1>1, <1>2
  <2>3. ~(click[q].at = "hide" /\ click[q].what = x)
    BY <1>2
  <2>4. Handling(x, {"hide"}) => Handling(x, {"hide"})'
    BY <1>1, <1>2, <2>3 DEF Handling
  <2> QED
    BY <1>7, <2>1, <2>2, <2>4 DEF PictureHolds
<1> QED
  BY <1>5, <1>6, <1>8 DEF PanelInv

LEMMA StepPanel == PanelInv /\ [NextPanel]_panelVars => PanelInv'
<1> SUFFICES ASSUME PanelInv, [NextPanel]_panelVars PROVE PanelInv'
  OBVIOUS
<1>1. CASE UNCHANGED panelVars
  BY <1>1 DEF panelVars, PanelInv, PanelTyped, FacesStartBare, PictureHolds, Pictured, Carded, Faced, Shown, Handling
<1>2. CASE UpdateRole \/ RemoveCollaborator
  BY <1>2, StepStatement
<1>3. ASSUME NEW q \in Clicks,
         \/ Ensure(q) \/ CreateProfile(q) \/ CreateEvent(q) \/ InsertEvent(q)
         \/ UpdateEvent(q) \/ ChecksSlug(q) \/ WriteUpdate(q) \/ UpdateStatus(q) \/ WriteStatus(q)
         \/ DeleteEvent(q) \/ EventGoes(q) \/ LeavesEvent(q) \/ AddCollaborator(q) \/ Upserts(q)
         \/ UploadPicture(q) \/ RemovePicture(q) \/ StoresObject(q) \/ RemovesObject(q) \/ WritesUrl(q) \/ WriteLost(q)
      PROVE PanelInv'
  BY <1>3, StepArrives, StepWrites, StepInsertEvent, StepChecksSlug, StepStoresObject, StepRemovesObject,
     StepWritesUrl, StepClickLost
<1> QED
  BY <1>1, <1>2, <1>3 DEF NextPanel

LEMMA PanelAlways == SpecPanel => []PanelInv
BY InitPanelInv, StepPanel, PTL DEF SpecPanel

\* Every variable of the panel of an event keeps its type.
THEOREM PanelTypeCorrect == SpecPanel => []TypeOKPanel
<1>1. PanelInv => TypeOKPanel
  BY DEF PanelInv, PanelTyped, TypeOKPanel, Card, Face, Click
<1> QED
  BY <1>1, PanelAlways, PTL

\* The picture that is shown is in the storage, whichever call fails and whoever uploads and
\* removes, but for the races that ShownPicturesExist names (event.service.ts and
\* profile.service.ts, uploadCover, deleteCover, uploadPhoto, deletePhoto).
THEOREM PicturesAreThere == SpecPanel => []ShownPicturesExist
<1>1. PanelInv => ShownPicturesExist
  BY DEF PanelInv, PictureHolds, ShownPicturesExist, Pictured, Carded, Faced
<1> QED
  BY <1>1, PanelAlways, PTL

-----------------------------------------------------------------------------
(* Display order: DisplayOrder. *)

\* Rows that a listing can sort: no two were created at once.
Datable(r, S) ==
  /\ \A x \in S : r[x].order \in Nat /\ r[x].born \in Nat
  /\ \A x, y \in S : r[x].born = r[y].born => x = y

\* No element twice.
Distinct(s) == \A i, j \in 1 .. Len(s) : s[i] = s[j] => i = j

\* s lists S as the column and the creation of r say.
InListing(r, newest, S, s) ==
  /\ s \in Seq(S) /\ Range(s) = S
  /\ Distinct(s)
  /\ \A i, j \in 1 .. Len(s) : i < j => Precedes(r, newest, s[i], s[j])

\* A listing sorts by a strict total order.
LEMMA PrecedesOrders ==
  ASSUME NEW r, NEW S, Datable(r, S), NEW newest \in BOOLEAN
  PROVE  /\ \A x \in S : ~Precedes(r, newest, x, x)
         /\ \A x, y \in S : x # y => Precedes(r, newest, x, y) \/ Precedes(r, newest, y, x)
         /\ \A x, y \in S : Precedes(r, newest, x, y) => ~Precedes(r, newest, y, x)
         /\ \A x, y, z \in S : Precedes(r, newest, x, y) /\ Precedes(r, newest, y, z)
                                 => Precedes(r, newest, x, z)
<1>1. CASE newest
  BY <1>1 DEF Datable, Precedes
<1>2. CASE ~newest
  BY <1>2 DEF Datable, Precedes
<1> QED
  BY <1>1, <1>2

\* A sequence of each element of a finite set once is an injection onto the set.
LEMMA SeqsCover ==
  ASSUME NEW S, IsFiniteSet(S), NEW s \in SetToSeqs(S)
  PROVE  /\ s \in Seq(S) /\ Len(s) = Cardinality(S) /\ DOMAIN s = 1 .. Len(s) /\ Range(s) = S
         /\ Distinct(s)
<1> DEFINE n == Cardinality(S)
<1>1. n \in Nat
  BY FS_CardinalityType
<1>2. s \in [1 .. n -> S] /\ \A i, j \in 1 .. n : i # j => s[i] # s[j]
  BY DEF SetToSeqs
<1>3. s \in Seq(S) /\ Len(s) = n /\ DOMAIN s = 1 .. n
  BY <1>1, <1>2
<1>4. s \in Injection(1 .. n, S)
  BY <1>2 DEF Injection, IsInjective
<1>5. Cardinality(1 .. n) = n
  BY <1>1, FS_Interval
<1>6. s \in Surjection(1 .. n, S)
  BY <1>4, <1>5, FS_Injection
<1>7. Range(s) = S
  BY <1>3, <1>6 DEF Surjection, Range
<1> QED
  BY <1>2, <1>3, <1>7 DEF Distinct

\* Finitely many rows can be sorted: each goes after those that precede it.
LEMMA SortingExists ==
  ASSUME NEW r, NEW S, IsFiniteSet(S), Datable(r, S), NEW newest \in BOOLEAN
  PROVE  \E s \in SetToSeqs(S) : \A i, j \in DOMAIN s : i < j => Precedes(r, newest, s[i], s[j])
<1> DEFINE n == Cardinality(S)
           ahead(x) == {y \in S : Precedes(r, newest, y, x)}
           rank == [x \in S |-> Cardinality(ahead(x)) + 1]
<1>1. n \in Nat /\ IsFiniteSet(1 .. n) /\ Cardinality(1 .. n) = n
  BY FS_CardinalityType, FS_Interval
<1>2. ASSUME NEW x \in S
      PROVE  rank[x] \in 1 .. n
  <2>1. ahead(x) \in SUBSET (S \ {x})
    BY PrecedesOrders
  <2>2. IsFiniteSet(S \ {x}) /\ Cardinality(S \ {x}) = n - 1
    BY FS_RemoveElement
  <2>3. IsFiniteSet(ahead(x)) /\ Cardinality(ahead(x)) <= n - 1
    BY <2>1, <2>2, FS_Subset
  <2>4. Cardinality(ahead(x)) \in Nat
    BY <2>3, FS_CardinalityType
  <2> QED
    BY <1>1, <2>3, <2>4
<1>3. ASSUME NEW x \in S, NEW y \in S, Precedes(r, newest, x, y)
      PROVE  rank[x] < rank[y]
  <2>1. ahead(x) \in SUBSET ahead(y) /\ x \in ahead(y) /\ x \notin ahead(x)
    BY <1>3, PrecedesOrders
  <2>2. IsFiniteSet(ahead(y)) /\ IsFiniteSet(ahead(x))
    BY FS_Subset
  <2>3. Cardinality(ahead(x)) <= Cardinality(ahead(y)) /\ Cardinality(ahead(y)) # Cardinality(ahead(x))
    BY <2>1, <2>2, FS_Subset
  <2>4. Cardinality(ahead(x)) \in Nat /\ Cardinality(ahead(y)) \in Nat
    BY <2>2, FS_CardinalityType
  <2> QED
    BY <2>3, <2>4
<1> HIDE DEF rank
<1>4. rank \in [S -> 1 .. n]
  BY <1>2 DEF rank
<1>5. \A x, y \in S : rank[x] = rank[y] => x = y
  BY <1>3, <1>4, <1>1, PrecedesOrders
<1>6. rank \in Surjection(S, 1 .. n)
  <2>1. rank \in Injection(S, 1 .. n)
    BY <1>4, <1>5 DEF Injection, IsInjective
  <2> QED
    BY <1>1, <2>1, FS_Injection
<1> DEFINE s == [i \in 1 .. n |-> CHOOSE x \in S : rank[x] = i]
<1>7. \A i \in 1 .. n : s[i] \in S /\ rank[s[i]] = i
  BY <1>6 DEF Surjection
<1>8. s \in SetToSeqs(S) /\ DOMAIN s = 1 .. n
  BY <1>7 DEF SetToSeqs
<1> HIDE DEF s
<1>9. ASSUME NEW i \in 1 .. n, NEW j \in 1 .. n, i < j
      PROVE  Precedes(r, newest, s[i], s[j])
  <2>1. s[i] # s[j]
    BY <1>7, <1>9
  <2>2. ~Precedes(r, newest, s[j], s[i])
    BY <1>1, <1>3, <1>7, <1>9
  <2> QED
    BY <1>7, <2>1, <2>2, PrecedesOrders
<1> QED
  BY <1>8, <1>9

\* The rows there have been.
EverBorn == {x \in Items : row[x].is # "free"}

\* They are finitely many, and none was created after as many as there are.
RowsCounted ==
  /\ IsFiniteSet(EverBorn) /\ Datable(row, EverBorn)
  /\ \A x \in EverBorn : row[x].born <= Cardinality(EverBorn)

LEMMA HereSorts ==
  ASSUME RowsCounted, NEW S \in SUBSET Items, NEW h
  PROVE  IsFiniteSet(Here(S, h)) /\ Datable(row, Here(S, h))
<1>1. Here(S, h) \in SUBSET EverBorn
  BY DEF Here, EverBorn
<1> QED
  BY <1>1, FS_Subset DEF RowsCounted, Datable

\* What a request reads is the rows it may see, in their order.
LEMMA ListedInOrder ==
  ASSUME OrderAssumption, RowsCounted, NEW u \in Users, NEW h
  PROVE  InListing(row, Newest, Here(Mine(u), h), Listed(u, h))
<1> DEFINE S == Here(Mine(u), h)
           s == Listed(u, h)
<1>1. Mine(u) \in SUBSET Items
  BY DEF OrderAssumption, Mine
<1>2. IsFiniteSet(S) /\ Datable(row, S)
  BY <1>1, HereSorts
<1>3. Newest \in BOOLEAN
  BY DEF Newest
<1>4. \E t \in SetToSeqs(S) : \A i, j \in DOMAIN t : i < j => Precedes(row, Newest, t[i], t[j])
  BY <1>2, <1>3, SortingExists
<1>5. s = CHOOSE t \in SetToSeqs(S) : \A i, j \in DOMAIN t : i < j => Precedes(row, Newest, t[i], t[j])
  <2>1. CASE listing \in {"events", "templates"}
    <3>1. Newest = TRUE /\ Mine(u) = Sees[u]
      BY <2>1 DEF Newest, Mine
    <3>2. s = InOrder(S, TRUE)
      BY <2>1, <3>1 DEF Listed, EventsShown, TemplatesShown
    <3> QED
      BY <3>1, <3>2 DEF InOrder
  <2>2. CASE listing \notin {"events", "templates"}
    <3>1. Newest = FALSE /\ Mine(u) = Items
      BY <2>2 DEF Newest, Mine
    <3>2. s = InOrder(S, FALSE)
      BY <2>2, <3>1 DEF Listed, RulesShown
    <3> QED
      BY <3>1, <3>2 DEF InOrder
  <2> QED
    BY <2>1, <2>2
<1> HIDE DEF S, s
<1>6. s \in SetToSeqs(S) /\ \A i, j \in DOMAIN s : i < j => Precedes(row, Newest, s[i], s[j])
  BY <1>4, <1>5
<1>7. /\ s \in Seq(S) /\ DOMAIN s = 1 .. Len(s) /\ Range(s) = S
      /\ Distinct(s)
  BY <1>2, <1>6, SeqsCover
<1>8. InListing(row, Newest, S, s)
  BY <1>6, <1>7 DEF InListing
<1> QED
  BY <1>8 DEF S, s

LEMMA InRange ==
  ASSUME NEW S, NEW s \in Seq(S)
  PROVE  \A y : y \in Range(s) <=> \E i \in 1 .. Len(s) : y = s[i]
<1>1. DOMAIN s = 1 .. Len(s)
  OBVIOUS
<1> QED
  BY <1>1 DEF Range

\* Where an element is in a sequence that has it.
LEMMA PlaceFound ==
  ASSUME NEW S, NEW s \in Seq(S), NEW x \in Range(s)
  PROVE  Place(s, x) \in 1 .. Len(s) /\ s[Place(s, x)] = x
<1>1. DOMAIN s = 1 .. Len(s)
  OBVIOUS
<1>2. \E i \in DOMAIN s : s[i] = x
  BY DEF Range
<1> QED
  BY <1>1, <1>2 DEF Place

\* What RemoveFirst and InsertAt make of a sequence, index by index.
LEMMA RemoveFirstIs ==
  ASSUME NEW S, NEW s \in Seq(S), NEW x
  PROVE  /\ RemoveFirst(s, x) \in Seq(S)
         /\ \A k \in 1 .. Len(s) : s[k] = x /\ Distinct(s) =>
              /\ Len(RemoveFirst(s, x)) = Len(s) - 1
              /\ \A i \in 1 .. Len(s) - 1 : RemoveFirst(s, x)[i] = IF i < k THEN s[i] ELSE s[i + 1]
<1>1. CASE ~ \E i \in 1 .. Len(s) : s[i] = x
  BY <1>1 DEF RemoveFirst
<1>2. CASE \E i \in 1 .. Len(s) : s[i] = x
  <2> DEFINE I == {i \in 1 .. Len(s) : s[i] = x}
             m == Min(I)
  <2>1. \A i \in I : i \in Nat
    OBVIOUS
  <2>2. \E p \in I : \A o \in I : p <= o
    BY <1>2, <2>1, LeastNumber
  <2>3. m \in I
    BY <2>2 DEF Min
  <2>4. RemoveFirst(s, x) = RemoveAt(s, m)
    BY <1>2 DEF RemoveFirst, SelectInSeq
  <2> HIDE DEF m
  <2>5. m \in 1 .. Len(s) /\ s[m] = x
    BY <2>3
  <2> DEFINE a == SubSeq(s, 1, m - 1)
             b == SubSeq(s, m + 1, Len(s))
  <2>6. /\ a \in Seq(S) /\ Len(a) = m - 1 /\ \A i \in 1 .. m - 1 : a[i] = s[i]
        /\ b \in Seq(S) /\ Len(b) = Len(s) - m /\ \A i \in 1 .. Len(s) - m : b[i] = s[m + i]
    BY <2>5
  <2>7. RemoveFirst(s, x) = a \o b
    BY <2>4 DEF RemoveAt
  <2> HIDE DEF a, b
  <2>8. /\ a \o b \in Seq(S) /\ Len(a \o b) = Len(s) - 1
        /\ \A i \in 1 .. Len(s) - 1 : (a \o b)[i] = IF i < m THEN s[i] ELSE s[i + 1]
    <3>1. a \o b \in Seq(S) /\ Len(a \o b) = Len(a) + Len(b)
      <4>1. a \in Seq(S) /\ b \in Seq(S)
        BY <2>6
      <4> QED
        BY <4>1
    <3>2. a \o b \in Seq(S) /\ Len(a \o b) = Len(s) - 1
      <4>1. Len(s) \in Nat /\ m \in Nat
        BY <2>5
      <4> QED
        BY <2>6, <3>1, <4>1
    <3>3. ASSUME NEW i \in 1 .. Len(s) - 1
          PROVE  (a \o b)[i] = IF i < m THEN s[i] ELSE s[i + 1]
      <4>1. (a \o b)[i] = IF i < m THEN a[i] ELSE b[i - m + 1]
        BY <2>5, <2>6
      <4>2. CASE i < m
        BY <2>5, <2>6, <4>1, <4>2
      <4>3. CASE ~(i < m)
        <5>1. i - m + 1 \in 1 .. Len(s) - m /\ m + (i - m + 1) = i + 1
          BY <2>5, <4>3
        <5> QED
          BY <2>6, <4>1, <4>3, <5>1
      <4> QED
        BY <4>2, <4>3
    <3> QED
      BY <3>2, <3>3
  <2> QED
    BY <2>5, <2>7, <2>8 DEF Distinct
<1> QED
  BY <1>1, <1>2

LEMMA InsertAtIs ==
  ASSUME NEW S, NEW s \in Seq(S), NEW a \in 1 .. Len(s) + 1, NEW x \in S
  PROVE  /\ InsertAt(s, a, x) \in Seq(S) /\ Len(InsertAt(s, a, x)) = Len(s) + 1
         /\ InsertAt(s, a, x)[a] = x
         /\ \A i \in 1 .. Len(s) : InsertAt(s, a, x)[IF i < a THEN i ELSE i + 1] = s[i]
<1> DEFINE b == SubSeq(s, 1, a - 1)
           c == SubSeq(s, a, Len(s))
           d == b \o <<x>>
<1>1. /\ b \in Seq(S) /\ Len(b) = a - 1 /\ \A i \in 1 .. a - 1 : b[i] = s[i]
      /\ c \in Seq(S) /\ Len(c) = Len(s) - a + 1 /\ \A i \in 1 .. Len(s) - a + 1 : c[i] = s[a + i - 1]
  OBVIOUS
<1> HIDE DEF b, c
<1>2. d \in Seq(S) /\ Len(d) = a /\ d[a] = x /\ \A i \in 1 .. a - 1 : d[i] = s[i]
  BY <1>1
<1>3. InsertAt(s, a, x) = d \o c
  BY DEF InsertAt, b, c
<1> HIDE DEF d
<1>4. /\ d \o c \in Seq(S) /\ Len(d \o c) = Len(s) + 1
      /\ \A i \in 1 .. a : (d \o c)[i] = d[i]
      /\ \A i \in a .. Len(s) : (d \o c)[i + 1] = s[i]
  BY <1>1, <1>2
<1>5. ASSUME NEW i \in 1 .. Len(s)
      PROVE  (d \o c)[IF i < a THEN i ELSE i + 1] = s[i]
  <2>1. CASE i < a
    BY <1>2, <1>4, <2>1
  <2>2. CASE ~(i < a)
    BY <1>4, <2>2, SMTT(20)
  <2> QED
    BY <2>1, <2>2
<1> QED
  BY <1>2, <1>3, <1>4, <1>5

LEMMA PlaceIs ==
  ASSUME NEW S, NEW s \in Seq(S), Distinct(s), NEW i \in 1 .. Len(s)
  PROVE  Place(s, s[i]) = i
<1>1. s[i] \in Range(s)
  BY DEF Range
<1> QED
  BY <1>1, PlaceFound DEF Distinct

\* The item is where it was dropped, and the others are in the order they had.
LEMMA ResequenceMoves ==
  ASSUME NEW S, NEW s \in Seq(S), Distinct(s), NEW x \in Range(s), NEW b, b # x,
         NEW t, t = Resequence(s, x, b)
  PROVE  /\ t \in Seq(S) /\ Distinct(t) /\ Range(t) = Range(s)
         /\ \A y, z \in Range(s) \ {x} : Place(t, y) < Place(t, z) <=> Place(s, y) < Place(s, z)
         /\ b \in Range(s) => Place(t, b) = Place(t, x) + 1
         /\ b \notin Range(s) => \A y \in Range(s) \ {x} : Place(t, y) < Place(t, x)
<1> DEFINE n == Len(s)
           k == Place(s, x)
           w == RemoveFirst(s, x)
           a == IF b \in Range(w) THEN Place(w, b) ELSE Len(w) + 1
           old(i) == IF i < k THEN i ELSE i + 1
           new(i) == IF i < a THEN i ELSE i + 1
<1>1. n \in Nat /\ k \in 1 .. n /\ s[k] = x /\ x \in S
  <2>1. k \in 1 .. n /\ s[k] = x
    BY PlaceFound
  <2> QED
    BY <2>1
<1> HIDE DEF k
<1>2. w \in Seq(S) /\ Len(w) = n - 1 /\ \A i \in 1 .. n - 1 : w[i] = s[old(i)]
  <2>1. w \in Seq(S) /\ Len(w) = n - 1 /\ \A i \in 1 .. n - 1 : w[i] = IF i < k THEN s[i] ELSE s[i + 1]
    BY <1>1, RemoveFirstIs, SMTT(30)
  <2> QED
    BY <1>1, <2>1
<1> HIDE DEF w
<1>3. \A i \in 1 .. n - 1 : old(i) \in 1 .. n /\ old(i) # k
  BY <1>1
<1>4. Distinct(w)
  <2> SUFFICES ASSUME NEW i \in 1 .. n - 1, NEW j \in 1 .. n - 1, w[i] = w[j]
               PROVE  i = j
    BY <1>2 DEF Distinct
  <2>1. old(i) = old(j)
    BY <1>2, <1>3 DEF Distinct
  <2> QED
    BY <1>1, <2>1
<1>5. Range(w) = Range(s) \ {x}
  <2>1. ASSUME NEW i \in 1 .. n - 1 PROVE w[i] \in Range(s) \ {x}
    <3>1. w[i] = s[old(i)] /\ old(i) \in 1 .. n /\ old(i) # k
      BY <1>2, <1>3
    <3>2. w[i] # x
      BY <1>1, <3>1 DEF Distinct
    <3> QED
      BY <3>1, <3>2, InRange
  <2>2. ASSUME NEW j \in 1 .. n, j # k PROVE s[j] \in Range(w)
    <3> DEFINE i == IF j < k THEN j ELSE j - 1
    <3>1. i \in 1 .. n - 1 /\ old(i) = j
      BY <1>1, <2>2
    <3> QED
      BY <1>2, <3>1, InRange
  <2>3. \A y \in Range(w) : \E i \in 1 .. n - 1 : y = w[i]
    BY <1>2, InRange
  <2>4. \A y \in Range(s) : \E j \in 1 .. n : y = s[j]
    BY InRange
  <2> QED
    BY <1>1, <2>1, <2>2, <2>3, <2>4
<1>6. a \in 1 .. n /\ (b \in Range(w) => w[a] = b /\ a <= n - 1) /\ (b \notin Range(w) => a = n)
  BY <1>1, <1>2, PlaceFound
<1> HIDE DEF a
<1>7. t = InsertAt(w, a, x)
  BY DEF Resequence, w, a
<1>8. /\ t \in Seq(S) /\ Len(t) = n /\ t[a] = x
      /\ \A i \in 1 .. n - 1 : t[new(i)] = w[i]
  <2>1. a \in 1 .. Len(w) + 1 /\ Len(w) + 1 = n
    BY <1>1, <1>2, <1>6
  <2>2. w \in Seq(S) /\ x \in S
    BY <1>1, <1>2
  <2>3. /\ InsertAt(w, a, x) \in Seq(S) /\ Len(InsertAt(w, a, x)) = Len(w) + 1
        /\ InsertAt(w, a, x)[a] = x
        /\ \A i \in 1 .. Len(w) : InsertAt(w, a, x)[new(i)] = w[i]
    BY <2>1, <2>2, InsertAtIs
  <2> QED
    BY <1>1, <1>2, <1>7, <2>3
<1>9. \A i \in 1 .. n - 1 : new(i) \in 1 .. n /\ new(i) # a
  BY <1>1, <1>6
<1>10. ASSUME NEW j \in 1 .. n, j # a
       PROVE  \E i \in 1 .. n - 1 : new(i) = j
  <2> DEFINE i == IF j < a THEN j ELSE j - 1
  <2>1. i \in 1 .. n - 1 /\ new(i) = j
    BY <1>1, <1>6, <1>10
  <2> QED
    BY <2>1
<1>11. \A i \in 1 .. n - 1 : w[i] # x /\ w[i] \in Range(s)
  BY <1>2, <1>5, InRange
<1>12. Distinct(t)
  <2> SUFFICES ASSUME NEW i \in 1 .. n, NEW j \in 1 .. n, t[i] = t[j]
               PROVE  i = j
    BY <1>8 DEF Distinct
  <2>1. CASE i = a \/ j = a
    BY <1>8, <1>10, <1>11, <2>1
  <2>2. CASE i # a /\ j # a
    <3>1. PICK i1 \in 1 .. n - 1 : new(i1) = i
      BY <1>10, <2>2
    <3>2. PICK j1 \in 1 .. n - 1 : new(j1) = j
      BY <1>10, <2>2
    <3>3. w[i1] = w[j1]
      BY <1>8, <3>1, <3>2
    <3> QED
      BY <1>2, <1>4, <3>1, <3>2, <3>3 DEF Distinct
  <2> QED
    BY <2>1, <2>2
<1>13. Range(t) = Range(s)
  <2>1. \A y \in Range(t) : \E j \in 1 .. n : y = t[j]
    BY <1>8, InRange
  <2>2. \A j \in 1 .. n : t[j] \in Range(s)
    BY <1>8, <1>10, <1>11
  <2>3. \A y \in Range(s) \ {x} : \E i \in 1 .. n - 1 : y = w[i]
    BY <1>2, <1>5, InRange
  <2>4. \A j \in 1 .. n : t[j] \in Range(t)
    BY <1>8, InRange
  <2>5. \A i \in 1 .. n - 1 : w[i] \in Range(t)
    BY <1>8, <1>9, <2>4
  <2>6. x \in Range(t)
    BY <1>6, <1>8, <2>4
  <2>7. Range(t) \subseteq Range(s)
    BY <2>1, <2>2
  <2>8. Range(s) \subseteq Range(t)
    BY <2>3, <2>5, <2>6
  <2> QED
    BY <2>7, <2>8
<1>14. ASSUME NEW y \in Range(s) \ {x}
       PROVE  \E i \in 1 .. n - 1 : y = w[i] /\ Place(s, y) = old(i) /\ Place(t, y) = new(i)
  <2>1. PICK i \in 1 .. n - 1 : y = w[i]
    BY <1>2, <1>5, InRange
  <2>2. Place(s, y) = old(i)
    BY <1>2, <1>3, <2>1, PlaceIs
  <2>3. Place(t, y) = new(i)
    BY <1>8, <1>9, <1>12, <2>1, PlaceIs
  <2> QED
    BY <2>1, <2>2, <2>3
<1>15. Place(t, x) = a
  BY <1>6, <1>8, <1>12, PlaceIs
<1>16. \A y, z \in Range(s) \ {x} : Place(t, y) < Place(t, z) <=> Place(s, y) < Place(s, z)
  <2> SUFFICES ASSUME NEW y \in Range(s) \ {x}, NEW z \in Range(s) \ {x}
               PROVE  Place(t, y) < Place(t, z) <=> Place(s, y) < Place(s, z)
    OBVIOUS
  <2>1. PICK i \in 1 .. n - 1 : Place(s, y) = old(i) /\ Place(t, y) = new(i)
    BY <1>14
  <2>2. PICK j \in 1 .. n - 1 : Place(s, z) = old(j) /\ Place(t, z) = new(j)
    BY <1>14
  <2> QED
    BY <1>1, <1>6, <2>1, <2>2
<1>17. ASSUME b \in Range(s) PROVE Place(t, b) = Place(t, x) + 1
  <2>1. b \in Range(w)
    BY <1>5, <1>17
  <2>2. a \in 1 .. n - 1 /\ w[a] = b
    BY <1>1, <1>6, <2>1
  <2>3. t[a + 1] = b /\ a + 1 \in 1 .. n
    BY <1>1, <1>8, <2>2
  <2> QED
    BY <1>8, <1>12, <1>15, <2>3, PlaceIs
<1>18. ASSUME b \notin Range(s), NEW y \in Range(s) \ {x} PROVE Place(t, y) < Place(t, x)
  <2>1. a = n
    BY <1>5, <1>6, <1>18
  <2>2. PICK i \in 1 .. n - 1 : Place(t, y) = new(i)
    BY <1>14
  <2> QED
    BY <1>1, <1>15, <2>1, <2>2
<1> QED
  BY <1>8, <1>12, <1>13, <1>16, <1>17, <1>18

\* Whatever is dropped before whatever, the sequence is one of ids.
LEMMA ResequenceTyped ==
  ASSUME NEW S, NEW s \in Seq(S), NEW x \in S, NEW b
  PROVE  Resequence(s, x, b) \in Seq(S)
<1> DEFINE w == RemoveFirst(s, x)
           a == IF b \in Range(w) THEN Place(w, b) ELSE Len(w) + 1
<1>1. w \in Seq(S)
  BY RemoveFirstIs
<1> HIDE DEF w
<1>2. a \in 1 .. Len(w) + 1
  <2>1. b \in Range(w) => Place(w, b) \in 1 .. Len(w)
    BY <1>1, PlaceFound
  <2> QED
    BY <1>1, <2>1
<1> HIDE DEF a
<1>3. Resequence(s, x, b) = IF b = x THEN s ELSE InsertAt(w, a, x)
  BY DEF Resequence, w, a
<1>4. InsertAt(w, a, x) \in Seq(S)
  BY <1>1, <1>2, InsertAtIs
<1> QED
  BY <1>3, <1>4

Writes == UNION {[D -> Nat] : D \in SUBSET Items}
DragRec == [at : {"idle", "list", "write", "append"}, user : Users, item : Items \cup {None},
            before : Items \cup {None}, home : Homes, order : Nat, writes : Writes,
            quiet : BOOLEAN]
ItemRow == [is : {"free", "row", "gone"}, home : Homes, order : Nat, born : Nat]

OrderTypes ==
  /\ listing \in Unsorted \cup Appended /\ row \in [Items -> ItemRow]
  /\ drag \in [Drags -> DragRec] /\ changes \in 0 .. MaxChanges

\* With these writes each row that is listed has its place in the new sequence.
Aims(d) ==
  LET S == Here(Mine(d.user), d.home) IN
  \E s \in Seq(S) :
    /\ InListing(row, Newest, S, s)
    /\ DOMAIN d.writes \subseteq S
    /\ \A y \in S : (IF y \in DOMAIN d.writes THEN d.writes[y] ELSE row[y].order)
                      = Place(Resequence(s, d.item, d.before), y) - 1

\* What a request is about, and what it knows if no write overtook it.
Knows(d) ==
  /\ d.at \in {"list", "write"} => listing \in Unsorted /\ d.item \in Items
  /\ d.at = "append" => listing \in Appended
  /\ d.quiet =>
       /\ d.at \in {"list", "write"} => d.item \in Here(Mine(d.user), d.home)
       /\ d.at = "write" => /\ d.before \in Here(Mine(d.user), d.home) \cup {None}
                            /\ Aims(d)
       /\ d.at = "append" => \A x \in Here(Items, d.home) : row[x].order < d.order

OrderInv == OrderTypes /\ RowsCounted /\ \A q \in Drags : Knows(drag[q])

-----------------------------------------------------------------------------

LEMMA NoDragKnown == OrderAssumption => NoDrag \in DragRec /\ NoDrag.at = "idle"
<1> SUFFICES ASSUME OrderAssumption PROVE NoDrag \in DragRec /\ NoDrag.at = "idle"
  OBVIOUS
<1>1. (CHOOSE u \in Users : TRUE) \in Users
  BY DEF OrderAssumption
<1>2. <<>> \in Writes
  <2>1. <<>> \in [{} -> Nat]
    OBVIOUS
  <2> QED
    BY <2>1 DEF Writes
<1> QED
  BY <1>1, <1>2 DEF NoDrag, DragRec, OrderAssumption

LEMMA IdleKnows == ASSUME NEW d, d.at = "idle" PROVE Knows(d)
  BY DEF Knows

\* Whatever is read and wherever the item goes, what is written are positions of rows.
LEMMA WritesTyped ==
  ASSUME NEW s, NEW t \in Seq(Items), NEW x
  PROVE  WritesFor(s, t, x) \in Writes
<1> DEFINE place == [y \in Range(t) |-> Place(t, y) - 1]
           D == {z \in DOMAIN place : z \notin Range(s) \/ row[z].order # place[z]}
<1>1. Range(t) \subseteq Items
  BY InRange
<1>2. \A y \in Range(t) : Place(t, y) - 1 \in Nat
  BY PlaceFound
<1>3. D \in SUBSET Items /\ \A y \in D : place[y] \in Nat
  BY <1>1, <1>2
<1>4. WritesFor(s, t, x) = [y \in D |-> place[y]]
  BY DEF WritesFor
<1> HIDE DEF D, place
<1>5. [y \in D |-> place[y]] \in [D -> Nat]
  BY <1>3
<1> QED
  BY <1>3, <1>4, <1>5 DEF Writes

\* What MoveLists works out puts every row that it read in its new place.
LEMMA WritesAim ==
  ASSUME NEW S, NEW s \in Seq(S), InListing(row, Newest, S, s), NEW x \in S, NEW b,
         NEW t, t = Resequence(s, x, b), NEW w, w = WritesFor(s, t, x)
  PROVE  /\ DOMAIN w \subseteq S
         /\ \A y \in S : (IF y \in DOMAIN w THEN w[y] ELSE row[y].order) = Place(t, y) - 1
<1>1. Range(t) = S
  <2>1. CASE b = x
    BY <2>1 DEF Resequence, InListing
  <2>2. CASE b # x
    BY <2>2, ResequenceMoves DEF InListing
  <2> QED
    BY <2>1, <2>2
<1>2. Range(s) = S
  BY DEF InListing
<1> DEFINE D == {z \in S : row[z].order # Place(t, z) - 1}
<1>3. w = [y \in D |-> Place(t, y) - 1]
  <2> DEFINE place == [y \in Range(t) |-> Place(t, y) - 1]
             E == {z \in DOMAIN place : z \notin Range(s) \/ row[z].order # place[z]}
  <2>1. w = [y \in E |-> place[y]]
    BY DEF WritesFor
  <2>2. E = D
    BY <1>1, <1>2
  <2>3. \A y \in D : place[y] = Place(t, y) - 1
    BY <1>1
  <2> HIDE DEF place, E, D
  <2> QED
    BY <2>1, <2>2, <2>3
<1> QED
  BY <1>3

\* There is room after the last row of a listing.
LEMMA AfterLastIs ==
  ASSUME OrderAssumption, OrderTypes, RowsCounted, NEW h
  PROVE  AfterLast(h) \in Nat /\ \A x \in Here(Items, h) : row[x].order < AfterLast(h)
<1> DEFINE S == Here(Items, h)
           orders == {row[x].order : x \in S}
           IsLast(n) == n \in orders /\ \A m \in orders : m <= n
<1>1. \A x \in S : row[x].order \in Nat
  BY DEF OrderTypes, ItemRow, Here
<1>2. CASE S = {}
  BY <1>2 DEF AfterLast
<1>3. CASE S # {}
  <2>1. IsFiniteSet(S) /\ Datable(row, S)
    BY HereSorts
  <2>2. PICK s \in SetToSeqs(S) : \A i, j \in DOMAIN s : i < j => Precedes(row, FALSE, s[i], s[j])
    BY <2>1, SortingExists
  <2>3. s \in Seq(S) /\ DOMAIN s = 1 .. Len(s) /\ Range(s) = S
    BY <2>1, SeqsCover
  <2> DEFINE l == Len(s)
  <2>4. \A x \in S : \E i \in 1 .. l : x = s[i]
    BY <2>3, InRange
  <2>5. l \in Nat /\ l \in 1 .. l /\ s[l] \in S
    BY <1>3, <2>3, <2>4
  <2> HIDE DEF l, S
  <2>6. ASSUME NEW x \in S PROVE row[x].order <= row[s[l]].order
    <3>1. PICK i \in 1 .. l : x = s[i]
      BY <2>4
    <3>2. CASE i = l
      BY <1>1, <2>5, <3>1, <3>2
    <3>3. CASE i < l
      <4>1. Precedes(row, FALSE, x, s[l])
        BY <2>2, <2>3, <2>5, <3>1, <3>3 DEF l
      <4>2. row[x].order < row[s[l]].order \/ row[x].order = row[s[l]].order
        BY <4>1 DEF Precedes
      <4> QED
        BY <1>1, <2>5, <4>2
    <3> QED
      BY <2>5, <3>1, <3>2, <3>3
  <2>7. IsLast(row[s[l]].order)
    BY <2>5, <2>6
  <2>8. orders # {}
    BY <2>7
  <2> DEFINE n == CHOOSE n \in orders : \A m \in orders : m <= n
  <2>9. IsLast(n)
    BY <2>7
  <2>10. AfterLast(h) = 1 + n
    BY <2>8 DEF AfterLast, S
  <2> HIDE DEF n
  <2>11. n \in Nat
    BY <1>1, <2>9
  <2>12. \A x \in S : row[x].order <= n
    BY <2>9
  <2> QED
    BY <1>1, <2>10, <2>11, <2>12 DEF S
<1> QED
  BY <1>2, <1>3

-----------------------------------------------------------------------------
(* Steps. *)

\* Rows that keep their creation can still be sorted.
LEMMA CountKept ==
  ASSUME RowsCounted, row' \in [Items -> ItemRow],
         \A x \in Items : (row'[x].is = "free" <=> row[x].is = "free") /\ row'[x].born = row[x].born
  PROVE  RowsCounted'
<1>1. EverBorn' = EverBorn
  BY DEF EverBorn
<1>2. \A x \in EverBorn : x \in Items /\ row'[x].order \in Nat /\ row'[x].born \in Nat
  BY DEF EverBorn, ItemRow
<1>3. \A x \in EverBorn : row'[x].born = row[x].born
  BY DEF EverBorn
<1> QED
  BY <1>1, <1>2, <1>3 DEF RowsCounted, Datable

\* A new row is the youngest.
LEMMA CountGrows ==
  ASSUME OrderTypes, RowsCounted, NEW x \in Items, row[x].is = "free", NEW h \in Homes, NEW n \in Nat,
         row' = [row EXCEPT ![x] = Newborn(h, n)]
  PROVE  RowsCounted' /\ row' \in [Items -> ItemRow]
<1> DEFINE c == Cardinality(EverBorn)
<1>1. c \in Nat /\ IsFiniteSet(EverBorn) /\ x \notin EverBorn
  BY FS_CardinalityType DEF RowsCounted, EverBorn
<1>2. Newborn(h, n) = [is |-> "row", home |-> h, order |-> n, born |-> c + 1]
  BY DEF Newborn, EverBorn
<1> HIDE DEF c
<1>3. row' \in [Items -> ItemRow]
  BY <1>1, <1>2 DEF OrderTypes, ItemRow
<1>4. row'[x] = [is |-> "row", home |-> h, order |-> n, born |-> c + 1]
      /\ \A y \in Items : y # x => row'[y] = row[y]
  BY <1>2 DEF OrderTypes
<1>5. EverBorn' = EverBorn \cup {x}
  BY <1>4 DEF EverBorn
<1>6. IsFiniteSet(EverBorn') /\ Cardinality(EverBorn') = c + 1
  BY <1>1, <1>5, FS_AddElement DEF c
<1>7. \A y \in EverBorn : row'[y] = row[y] /\ row[y].born <= c
  BY <1>1, <1>4 DEF RowsCounted, c, EverBorn
<1>8. \A y \in EverBorn' : row'[y].order \in Nat /\ row'[y].born \in Nat /\ row'[y].born <= c + 1
  BY <1>1, <1>4, <1>5, <1>7 DEF RowsCounted, Datable
<1>9. \A y, z \in EverBorn' : row'[y].born = row'[z].born => y = z
  BY <1>1, <1>4, <1>5, <1>7 DEF RowsCounted, Datable
<1> QED
  BY <1>3, <1>6, <1>8, <1>9 DEF RowsCounted, Datable

\* What a request knows stays true while no row changes.
LEMMA KnowsKept ==
  ASSUME row' = row, listing' = listing, NEW q, NEW d, Knows(d), drag'[q] = d
  PROVE  Knows(drag[q])'
<1>1. \A S, h : {x \in S : row'[x].is = "row" /\ row'[x].home = h} = Here(S, h)
  BY DEF Here
<1>2. Newest' = Newest /\ \A u : (IF Newest' THEN Sees[u] ELSE Items) = Mine(u)
  BY DEF Newest, Mine
<1>3. Aims(drag[q])' <=> Aims(d)
  BY <1>1, <1>2 DEF Aims, Here, Mine
<1> QED
  BY <1>1, <1>2, <1>3 DEF Knows, Here, Mine

\* A write makes every other request in flight forget what it read.
LEMMA OvertakenForget ==
  ASSUME OrderAssumption, OrderInv, NEW q, Overtakes(q, NoDrag), listing' = listing,
         changes' \in 0 .. MaxChanges, row' \in [Items -> ItemRow], RowsCounted'
  PROVE  OrderInv'
<1>1. NoDrag \in DragRec /\ NoDrag.at = "idle"
  BY NoDragKnown
<1>2. ASSUME NEW p \in Drags
      PROVE  drag'[p] \in DragRec /\ Knows(drag[p])'
  <2>1. CASE p = q
    <3>1. drag'[p] = NoDrag
      BY <2>1 DEF Overtakes
    <3> QED
      BY <1>1, <3>1 DEF Knows
  <2>2. CASE p # q
    <3> DEFINE d == drag[p]
               e == drag'[p]
    <3>1. e = [d EXCEPT !.quiet = @ /\ d.at = "idle"]
      BY <2>2 DEF Overtakes
    <3>2. d \in DragRec /\ Knows(d)
      BY DEF OrderInv, OrderTypes
    <3> HIDE DEF d, e
    <3>3. e \in DragRec /\ e.at = d.at /\ e.item = d.item /\ (e.at = "idle" \/ ~e.quiet)
      BY <3>1, <3>2 DEF DragRec
    <3>4. CASE e.at = "idle"
      BY <3>3, <3>4 DEF Knows, e
    <3>5. CASE ~e.quiet
      BY <3>2, <3>3, <3>5 DEF Knows, e
    <3> QED
      BY <3>3, <3>4, <3>5 DEF e
  <2> QED
    BY <2>1, <2>2
<1>3. drag' \in [Drags -> DragRec]
  BY <1>2 DEF Overtakes
<1> QED
  BY <1>2, <1>3 DEF OrderInv, OrderTypes

\* A step of one request that writes no row.
LEMMA OneDragKnows ==
  ASSUME OrderInv, NEW q \in Drags, NEW d \in DragRec, Knows(d), drag' = [drag EXCEPT ![q] = d],
         listing' = listing, row' = row, changes' \in 0 .. MaxChanges
  PROVE  OrderInv'
<1>1. ASSUME NEW p \in Drags
      PROVE  drag'[p] \in DragRec /\ Knows(drag[p])'
  <2>1. drag'[p] = IF p = q THEN d ELSE drag[p]
    BY DEF OrderInv, OrderTypes
  <2>2. Knows(drag[p]) /\ drag[p] \in DragRec
    BY DEF OrderInv, OrderTypes
  <2>3. Knows(drag[p])'
    BY <2>1, <2>2, KnowsKept
  <2> QED
    BY <2>1, <2>2, <2>3
<1>2. RowsCounted'
  BY DEF OrderInv, RowsCounted, EverBorn, Datable
<1> QED
  BY <1>1, <1>2 DEF OrderInv, OrderTypes

LEMMA BeginKeeps ==
  ASSUME OrderAssumption, OrderInv, NEW q \in Drags, NEW d \in DragRec, Knows(d), Begin(q, d)
  PROVE  OrderInv'
<1>1. changes' \in 0 .. MaxChanges
  BY DEF Begin, OrderAssumption, OrderInv, OrderTypes
<1>2. drag' = [drag EXCEPT ![q] = d] /\ listing' = listing /\ row' = row
  BY DEF Begin
<1> QED
  BY <1>1, <1>2, OneDragKnows

LEMMA AtOnceKeeps ==
  ASSUME OrderAssumption, OrderInv, NEW new \in [Items -> ItemRow], AtOnce(new),
         \A x \in Items : (new[x].is = "free" <=> row[x].is = "free") /\ new[x].born = row[x].born
  PROVE  OrderInv'
<1>1. changes' \in 0 .. MaxChanges
  BY DEF AtOnce, OrderAssumption, OrderInv, OrderTypes
<1>2. row' = new /\ Overtakes(None, NoDrag) /\ listing' = listing
  BY DEF AtOnce
<1>3. RowsCounted'
  BY <1>2, CountKept DEF OrderInv
<1> QED
  BY <1>1, <1>2, <1>3, OvertakenForget

LEMMA DraggingKeeps ==
  ASSUME OrderAssumption, OrderInv, NEW q \in Drags, NEW u \in Users, NEW x \in Mine(u),
         NEW b \in Items \cup {None}, listing \in Unsorted, row[x].is = "row", Dragging(q, u, x, b)
  PROVE  OrderInv'
<1> DEFINE d == [NoDrag EXCEPT !.at = "list", !.user = u, !.item = x, !.before = b, !.home = row[x].home]
<1>1. x \in Items
  BY DEF Mine, OrderAssumption
<1>2. row[x].home \in Homes
  BY <1>1 DEF OrderInv, OrderTypes, ItemRow
<1>3. NoDrag \in DragRec
  BY NoDragKnown
<1>4. d \in DragRec
  BY <1>1, <1>2, <1>3 DEF DragRec
<1>5. d.at = "list" /\ d.user = u /\ d.item = x /\ d.home = row[x].home
  BY DEF NoDrag
<1>6. Begin(q, d)
  BY DEF Dragging
<1> HIDE DEF d
<1>7. Knows(d)
  BY <1>1, <1>5 DEF Knows, Here
<1> QED
  BY <1>4, <1>6, <1>7, BeginKeeps

LEMMA DraggedKeeps ==
  ASSUME OrderAssumption, OrderInv, NEW q \in Drags, MoveEvent(q) \/ MoveTemplate(q) \/ MoveRule(q)
  PROVE  OrderInv'
<1>1. CASE MoveEvent(q)
  <2>1. listing \in Unsorted /\ Newest
    BY <1>1 DEF MoveEvent, Unsorted, Newest
  <2>2. PICK u \in Users : \E x \in Sees[u], b \in Items \cup {None} :
          row[x].is = "row" /\ Dragging(q, u, x, b)
    BY <1>1 DEF MoveEvent
  <2>3. Mine(u) = Sees[u]
    BY <2>1 DEF Mine
  <2> QED
    BY <2>1, <2>2, <2>3, DraggingKeeps
<1>2. CASE MoveTemplate(q)
  <2>1. listing \in Unsorted /\ Newest
    BY <1>2 DEF MoveTemplate, Unsorted, Newest
  <2>2. PICK u \in Users : \E x \in Sees[u], b \in Items \cup {None} :
          row[x].is = "row" /\ Dragging(q, u, x, b)
    BY <1>2 DEF MoveTemplate
  <2>3. Mine(u) = Sees[u]
    BY <2>1 DEF Mine
  <2> QED
    BY <2>1, <2>2, <2>3, DraggingKeeps
<1>3. CASE MoveRule(q)
  <2>1. listing \in Unsorted /\ ~Newest
    BY <1>3 DEF MoveRule, Unsorted, Newest
  <2>2. PICK x \in Items, b \in Items \cup {None} :
          row[x].is = "row" /\ Dragging(q, NoDrag.user, x, b)
    BY <1>3 DEF MoveRule
  <2>3. Mine(NoDrag.user) = Items
    BY <2>1 DEF Mine
  <2>4. NoDrag.user \in Users
    BY NoDragKnown DEF DragRec
  <2> QED
    BY <2>1, <2>2, <2>3, <2>4, DraggingKeeps
<1> QED
  BY <1>1, <1>2, <1>3

LEMMA MoveListsKeeps ==
  ASSUME OrderAssumption, OrderInv, NEW q \in Drags, MoveLists(q)
  PROVE  OrderInv'
<1> DEFINE d == drag[q]
           S == Here(Mine(d.user), d.home)
           s == Listed(d.user, d.home)
           t == Resequence(s, d.item, d.before)
           w == WritesFor(s, t, d.item)
           e == [d EXCEPT !.at = "write", !.writes = w]
<1>1. d \in DragRec /\ Knows(d) /\ d.at = "list"
  BY DEF OrderInv, OrderTypes, MoveLists
<1>2. d.user \in Users /\ d.item \in Items /\ listing \in Unsorted
  BY <1>1 DEF DragRec, Knows
<1>3. InListing(row, Newest, S, s)
  BY <1>2, ListedInOrder DEF OrderInv
<1>4. S \subseteq Items
  BY <1>2 DEF Here, Mine, OrderAssumption
<1>5. drag' = [drag EXCEPT ![q] = IF d.before # None /\ d.before \notin Range(s) THEN NoDrag ELSE e]
      /\ listing' = listing /\ row' = row /\ changes' \in 0 .. MaxChanges
  BY DEF MoveLists, OrderInv, OrderTypes
<1> HIDE DEF d, S, s, t, w
<1>6. CASE d.before # None /\ d.before \notin Range(s)
  BY <1>5, <1>6, NoDragKnown, IdleKnows, OneDragKnows
<1>7. CASE ~(d.before # None /\ d.before \notin Range(s))
  <2>1. w \in Writes
    <3>1. s \in Seq(Items)
      BY <1>3, <1>4 DEF InListing
    <3>2. t \in Seq(Items)
      BY <1>2, <3>1, ResequenceTyped DEF t
    <3> QED
      BY <3>2, WritesTyped DEF w
  <2>2. e \in DragRec
    BY <1>1, <2>1 DEF DragRec
  <2>3. /\ e.at = "write" /\ e.user = d.user /\ e.home = d.home /\ e.item = d.item
        /\ e.before = d.before /\ e.quiet = d.quiet /\ e.writes = w
    BY <1>1 DEF DragRec
  <2> HIDE DEF e
  <2>4. ASSUME e.quiet
        PROVE  e.item \in S /\ e.before \in S \cup {None} /\ Aims(e)
    <3>1. d.item \in S
      BY <1>1, <2>3, <2>4 DEF Knows, S
    <3>2. s \in Seq(S) /\ Range(s) = S
      BY <1>3 DEF InListing
    <3>3. /\ DOMAIN w \subseteq S
          /\ \A y \in S : (IF y \in DOMAIN w THEN w[y] ELSE row[y].order) = Place(t, y) - 1
      BY <1>3, <3>1, <3>2, WritesAim DEF t, w
    <3>4. Aims(e)
      BY <1>3, <2>3, <3>2, <3>3 DEF Aims, S, t
    <3> QED
      BY <1>7, <2>3, <3>1, <3>2, <3>4
  <2>5. Knows(e)
    BY <1>2, <2>3, <2>4 DEF Knows, S
  <2> QED
    BY <1>5, <1>7, <2>2, <2>5, OneDragKnows
<1> QED
  BY <1>6, <1>7

LEMMA MoveWritesKeeps ==
  ASSUME OrderAssumption, OrderInv, NEW q \in Drags, MoveWrites(q)
  PROVE  OrderInv'
<1> DEFINE w == drag[q].writes
           new == [x \in Items |-> IF x \in DOMAIN w THEN [row[x] EXCEPT !.order = w[x]] ELSE row[x]]
<1>1. listing' = listing /\ changes' \in 0 .. MaxChanges
  BY DEF MoveWrites, OrderInv, OrderTypes
<1>2. CASE drag' = [drag EXCEPT ![q] = NoDrag] /\ row' = row
  BY <1>1, <1>2, NoDragKnown, IdleKnows, OneDragKnows
<1>3. CASE row' = new /\ Overtakes(q, NoDrag)
  <2>1. w \in Writes
    BY DEF OrderInv, OrderTypes, DragRec
  <2>2. \A x \in DOMAIN w : w[x] \in Nat
    BY <2>1 DEF Writes
  <2> HIDE DEF w
  <2>3. new \in [Items -> ItemRow]
    BY <2>2 DEF OrderInv, OrderTypes, ItemRow
  <2>4. \A x \in Items : (new[x].is = "free" <=> row[x].is = "free") /\ new[x].born = row[x].born
    BY DEF OrderInv, OrderTypes, ItemRow
  <2>5. RowsCounted'
    BY <1>3, <2>3, <2>4, CountKept DEF OrderInv
  <2> QED
    BY <1>1, <1>3, <2>3, <2>5, OvertakenForget
<1> QED
  BY <1>2, <1>3 DEF MoveWrites

LEMMA AppendBeginsKeeps ==
  ASSUME OrderAssumption, OrderInv, NEW q \in Drags,
         AppendForm(q) \/ AppendFolder(q) \/ MoveFolder(q)
  PROVE  OrderInv'
<1>1. PICK h \in Homes, x \in Items \cup {None} :
        /\ listing \in Appended
        /\ Begin(q, [NoDrag EXCEPT !.at = "append", !.item = x, !.home = h, !.order = AfterLast(h)])
  <2>1. CASE AppendForm(q)
    <3>1. Top \in Homes /\ NoDrag.item = None /\ NoDrag.home = Top /\ NoDrag \in DragRec
      BY NoDragKnown DEF NoDrag, OrderAssumption
    <3>2. \A n : [NoDrag EXCEPT !.at = "append", !.order = n]
                   = [NoDrag EXCEPT !.at = "append", !.item = None, !.home = Top, !.order = n]
      BY <3>1 DEF DragRec
    <3> QED
      BY <2>1, <3>1, <3>2 DEF AppendForm, Appended
  <2>2. CASE AppendFolder(q)
    <3>1. NoDrag.item = None /\ NoDrag \in DragRec
      BY NoDragKnown DEF NoDrag
    <3>2. \A h, n : [NoDrag EXCEPT !.at = "append", !.home = h, !.order = n]
                      = [NoDrag EXCEPT !.at = "append", !.item = None, !.home = h, !.order = n]
      BY <3>1 DEF DragRec
    <3>3. PICK h \in Homes : Begin(q, [NoDrag EXCEPT !.at = "append", !.home = h, !.order = AfterLast(h)])
      BY <2>2 DEF AppendFolder
    <3>4. listing \in Appended
      BY <2>2 DEF AppendFolder, Appended
    <3> DEFINE n == AfterLast(h)
    <3>5. Begin(q, [NoDrag EXCEPT !.at = "append", !.item = None, !.home = h, !.order = n])
      BY <3>2, <3>3
    <3> QED
      BY <3>4, <3>5
  <2>3. CASE MoveFolder(q)
    BY <2>3 DEF MoveFolder, Appended
  <2> QED
    BY <2>1, <2>2, <2>3
<1> DEFINE d == [NoDrag EXCEPT !.at = "append", !.item = x, !.home = h, !.order = AfterLast(h)]
<1>2. AfterLast(h) \in Nat /\ \A y \in Here(Items, h) : row[y].order < AfterLast(h)
  BY AfterLastIs DEF OrderInv
<1>3. d \in DragRec
  BY <1>2, NoDragKnown DEF DragRec
<1>4. d.at = "append" /\ d.home = h /\ d.order = AfterLast(h)
  BY DEF NoDrag
<1>5. Begin(q, d)
  BY <1>1
<1> HIDE DEF d
<1>6. Knows(d)
  BY <1>1, <1>2, <1>4 DEF Knows
<1> QED
  BY <1>3, <1>5, <1>6, BeginKeeps

LEMMA AppendWritesKeeps ==
  ASSUME OrderAssumption, OrderInv, NEW q \in Drags, AppendWrites(q)
  PROVE  OrderInv'
<1> DEFINE d == drag[q]
<1>1. d \in DragRec /\ d.home \in Homes /\ d.order \in Nat
  BY DEF OrderInv, OrderTypes, DragRec
<1>2. listing' = listing /\ changes' \in 0 .. MaxChanges /\ Overtakes(q, NoDrag)
  BY DEF AppendWrites, OrderInv, OrderTypes
<1>3. RowsCounted' /\ row' \in [Items -> ItemRow]
  <2>1. CASE d.item = None
    <3>1. PICK x \in Items : row[x].is = "free" /\ row' = [row EXCEPT ![x] = Newborn(d.home, d.order)]
      BY <2>1 DEF AppendWrites
    <3> QED
      BY <1>1, <3>1, CountGrows DEF OrderInv
  <2>2. CASE d.item # None
    <3>1. d.item \in Items
      BY <1>1, <2>2 DEF DragRec
    <3>2. row' = IF row[d.item].is = "row"
                 THEN [row EXCEPT ![d.item].home = d.home, ![d.item].order = d.order] ELSE row
      BY <2>2 DEF AppendWrites
    <3> HIDE DEF d
    <3>3. row \in [Items -> ItemRow]
      BY DEF OrderInv, OrderTypes
    <3>4. row' \in [Items -> ItemRow]
      <4>1. CASE row' = row
        BY <3>3, <4>1
      <4>2. CASE row' = [row EXCEPT ![d.item] = [row[d.item] EXCEPT !.home = d.home, !.order = d.order]]
        <5>1. [row[d.item] EXCEPT !.home = d.home, !.order = d.order] \in ItemRow
          BY <1>1, <3>1, <3>3 DEF ItemRow
        <5> QED
          BY <3>1, <3>3, <4>2, <5>1
      <4>3. row' = row \/ row' = [row EXCEPT ![d.item] = [row[d.item] EXCEPT !.home = d.home, !.order = d.order]]
        BY <3>1, <3>2, <3>3 DEF ItemRow
      <4> QED
        BY <4>1, <4>2, <4>3
    <3>5. \A x \in Items : (row'[x].is = "free" <=> row[x].is = "free") /\ row'[x].born = row[x].born
      BY <3>1, <3>2, <3>3 DEF ItemRow
    <3> QED
      BY <3>4, <3>5, CountKept DEF OrderInv
  <2> QED
    BY <2>1, <2>2
<1> QED
  BY <1>2, <1>3, OvertakenForget

LEMMA OrderedKeeps ==
  ASSUME OrderAssumption, OrderInv, NEW S, NEW s \in Pages, AtOnce(Ordered(S, s))
  PROVE  OrderInv'
<1>1. s \in Seq(Items)
  BY DEF Pages
<1>2. \A x \in Range(s) : Place(s, x) - 1 \in Nat
  BY <1>1, PlaceFound
<1>3. row \in [Items -> ItemRow]
  BY DEF OrderInv, OrderTypes
<1>4. Ordered(S, s) \in [Items -> ItemRow]
  BY <1>2, <1>3 DEF Ordered, ItemRow
<1>5. \A x \in Items : (Ordered(S, s)[x].is = "free" <=> row[x].is = "free")
                       /\ Ordered(S, s)[x].born = row[x].born
  BY <1>3 DEF Ordered, ItemRow
<1> QED
  BY <1>4, <1>5, AtOnceKeeps

LEMMA ReorderKeeps ==
  ASSUME OrderAssumption, OrderInv,
         ReorderEvents \/ ReorderTemplates \/ ReorderRules \/ ReorderForms \/ ReorderFolders
  PROVE  OrderInv'
<1>1. \E S : \E s \in Pages : AtOnce(Ordered(S, s))
  <2>1. CASE ReorderEvents
    BY <2>1 DEF ReorderEvents
  <2>2. CASE ReorderTemplates
    BY <2>2 DEF ReorderTemplates
  <2>3. CASE ReorderRules
    BY <2>3 DEF ReorderRules
  <2>4. CASE ReorderForms
    BY <2>4 DEF ReorderForms
  <2>5. CASE ReorderFolders
    BY <2>5 DEF ReorderFolders
  <2> QED
    BY <2>1, <2>2, <2>3, <2>4, <2>5
<1> QED
  BY <1>1, OrderedKeeps

LEMMA CreateKeeps ==
  ASSUME OrderAssumption, OrderInv, CreateUnsorted
  PROVE  OrderInv'
<1>1. PICK x \in Items, h \in Homes : row[x].is = "free" /\ AtOnce([row EXCEPT ![x] = Newborn(h, 0)])
  BY DEF CreateUnsorted
<1>2. /\ row' = [row EXCEPT ![x] = Newborn(h, 0)] /\ listing' = listing
      /\ Overtakes(None, NoDrag)
      /\ changes' \in 0 .. MaxChanges
  BY <1>1 DEF AtOnce, OrderAssumption, OrderInv, OrderTypes
<1>3. RowsCounted' /\ row' \in [Items -> ItemRow]
  BY <1>1, <1>2, CountGrows DEF OrderInv
<1> QED
  BY <1>2, <1>3, OvertakenForget

LEMMA FiledKeeps ==
  ASSUME OrderAssumption, OrderInv, FileElsewhere \/ DeleteItem \/ HomeGoes
  PROVE  OrderInv'
<1>1. row \in [Items -> ItemRow] /\ Top \in Homes
  BY DEF OrderInv, OrderTypes, OrderAssumption
<1>2. CASE FileElsewhere
  <2>1. PICK x \in Items, h \in Homes : AtOnce([row EXCEPT ![x].home = h])
    BY <1>2 DEF FileElsewhere
  <2> DEFINE new == [row EXCEPT ![x].home = h]
  <2>2. new \in [Items -> ItemRow]
        /\ \A y \in Items : (new[y].is = "free" <=> row[y].is = "free") /\ new[y].born = row[y].born
    BY <1>1 DEF ItemRow
  <2> QED
    BY <2>1, <2>2, AtOnceKeeps
<1>3. CASE DeleteItem
  <2>1. PICK x \in Items : row[x].is = "row" /\ AtOnce([row EXCEPT ![x].is = "gone"])
    BY <1>3 DEF DeleteItem
  <2> DEFINE new == [row EXCEPT ![x].is = "gone"]
  <2>2. new \in [Items -> ItemRow]
        /\ \A y \in Items : (new[y].is = "free" <=> row[y].is = "free") /\ new[y].born = row[y].born
    <3>1. \A y \in Items : new[y] = IF y = x THEN [row[y] EXCEPT !.is = "gone"] ELSE row[y]
      BY <1>1
    <3>2. ASSUME NEW y \in Items
          PROVE  /\ new[y] \in ItemRow /\ new[y].born = row[y].born
                 /\ (new[y].is = "free" <=> row[y].is = "free")
      <4>1. row[y] \in ItemRow
        BY <1>1
      <4>2. new[y] = IF y = x THEN [row[y] EXCEPT !.is = "gone"] ELSE row[y]
        BY <3>1
      <4> QED
        BY <2>1, <4>1, <4>2 DEF ItemRow
    <3>3. new \in [Items -> ItemRow]
      BY <1>1, <3>2
    <3> QED
      BY <3>2, <3>3
  <2> QED
    BY <2>1, <2>2, AtOnceKeeps
<1>4. CASE HomeGoes
  <2>1. PICK h \in Homes \ {Top} :
          AtOnce([x \in Items |-> IF row[x].home = h THEN [row[x] EXCEPT !.home = Top] ELSE row[x]])
    BY <1>4 DEF HomeGoes
  <2> DEFINE new == [x \in Items |-> IF row[x].home = h THEN [row[x] EXCEPT !.home = Top] ELSE row[x]]
  <2>2. new \in [Items -> ItemRow]
        /\ \A y \in Items : (new[y].is = "free" <=> row[y].is = "free") /\ new[y].born = row[y].born
    <3>1. \A y \in Items : new[y] = IF row[y].home = h THEN [row[y] EXCEPT !.home = Top] ELSE row[y]
      OBVIOUS
    <3>2. \A y \in Items : /\ new[y] \in ItemRow /\ new[y].born = row[y].born
                            /\ new[y].is = row[y].is
      BY <1>1, <3>1, SMTT(20) DEF ItemRow
    <3> QED
      BY <3>2
  <2> QED
    BY <2>1, <2>2, AtOnceKeeps
<1> QED
  BY <1>2, <1>3, <1>4

LEMMA InitOrderInv == OrderAssumption /\ InitOrder => OrderInv
<1> SUFFICES ASSUME OrderAssumption, InitOrder PROVE OrderInv
  OBVIOUS
<1>1. NoDrag \in DragRec /\ NoDrag.at = "idle"
  BY NoDragKnown
<1>2. drag \in [Drags -> DragRec] /\ \A q \in Drags : Knows(drag[q])
  BY <1>1, IdleKnows DEF InitOrder
<1>3. Old \in Seq(Items) /\ Distinct(Old) /\ DOMAIN Old = 1 .. Len(Old)
  <2>1. Old \in Seq(Items) /\ DOMAIN Old = 1 .. Len(Old)
    BY DEF OrderAssumption
  <2> QED
    BY <2>1 DEF OrderAssumption, Distinct
<1> DEFINE n == Len(Old)
           place(x) == Place(Old, x)
<1>4. n \in Nat /\ \A x \in Range(Old) : place(x) \in 1 .. n /\ Old[place(x)] = x
  BY <1>3, PlaceFound
<1>5. \A x \in Range(Old) :
        row[x] = [is |-> "row", home |-> Top, born |-> place(x),
                  order |-> IF listing \in Appended THEN place(x) - 1 ELSE 0]
  <2>1. Range(Old) \subseteq Items
    BY <1>3, InRange
  <2> QED
    BY <2>1 DEF InitOrder
<1>6. \A x \in Items \ Range(Old) : row[x] = NoItem
  BY DEF InitOrder
<1> HIDE DEF n, place
<1>7. ASSUME NEW x \in Range(Old)
      PROVE  row[x] \in ItemRow /\ row[x].is = "row" /\ row[x].born = place(x)
  <2>1. place(x) \in Nat /\ place(x) - 1 \in Nat
    BY <1>4
  <2> DEFINE o == IF listing \in Appended THEN place(x) - 1 ELSE 0
  <2>2. o \in Nat /\ row[x] = [is |-> "row", home |-> Top, born |-> place(x), order |-> o]
    BY <1>5, <2>1
  <2> HIDE DEF place, o
  <2>3. Top \in Homes
    BY DEF OrderAssumption
  <2> QED
    BY <2>1, <2>2, <2>3 DEF ItemRow
<1>8. NoItem \in ItemRow /\ NoItem.is = "free"
  BY DEF NoItem, ItemRow, OrderAssumption
<1>9. row \in [Items -> ItemRow]
  BY <1>6, <1>7, <1>8 DEF InitOrder
<1>10. RowsCounted
  <2>1. EverBorn = Range(Old)
    <3>1. Range(Old) \subseteq Items
      BY <1>3, InRange
    <3>2. \A x \in Items : row[x].is # "free" <=> x \in Range(Old)
      BY <1>6, <1>7, <1>8
    <3> QED
      BY <3>1, <3>2 DEF EverBorn
  <2>2. Old \in Bijection(1 .. n, EverBorn)
    <3>1. Old \in [1 .. n -> EverBorn]
      BY <1>3, <2>1, InRange DEF n
    <3>2. \A y \in EverBorn : \E i \in 1 .. n : Old[i] = y
      BY <1>3, <2>1, InRange DEF n
    <3> QED
      BY <1>3, <3>1, <3>2 DEF Bijection, Injection, IsInjective, Surjection, Distinct, n
  <2>3. IsFiniteSet(1 .. n) /\ Cardinality(1 .. n) = n
    BY <1>4, FS_Interval
  <2>4. IsFiniteSet(EverBorn) /\ Cardinality(EverBorn) = n
    BY <2>2, <2>3, FS_Bijection DEF ExistsBijection
  <2>5. \A x \in EverBorn : row[x].born = place(x) /\ place(x) \in 1 .. n /\ Old[place(x)] = x
    BY <1>4, <1>7, <2>1
  <2>6. \A x \in EverBorn : row[x].order \in Nat /\ row[x].born \in Nat
    BY <1>7, <2>1 DEF ItemRow
  <2>7. \A x \in EverBorn : row[x].born <= Cardinality(EverBorn)
    BY <1>4, <2>4, <2>5
  <2>8. \A x, y \in EverBorn : row[x].born = row[y].born => x = y
    BY <2>5
  <2> QED
    BY <2>4, <2>6, <2>7, <2>8 DEF RowsCounted, Datable
<1> QED
  BY <1>2, <1>9, <1>10 DEF OrderInv, OrderTypes, InitOrder, OrderAssumption

LEMMA OrderStepInv == OrderAssumption /\ OrderInv /\ [NextOrder]_orderVars => OrderInv'
<1> SUFFICES ASSUME OrderAssumption, OrderInv, [NextOrder]_orderVars PROVE OrderInv'
  OBVIOUS
<1>1. CASE UNCHANGED orderVars
  <2>1. drag' = drag /\ row' = row /\ listing' = listing /\ changes' = changes
    BY <1>1 DEF orderVars
  <2>2. \A q \in Drags : Knows(drag[q])'
    BY <2>1, KnowsKept DEF OrderInv
  <2> QED
    BY <2>1, <2>2 DEF OrderInv, OrderTypes, RowsCounted, EverBorn, Datable
<1>2. ASSUME NEW q \in Drags, MoveEvent(q) \/ MoveTemplate(q) \/ MoveRule(q) PROVE OrderInv'
  BY <1>2, DraggedKeeps
<1>3. ASSUME NEW q \in Drags, MoveLists(q) PROVE OrderInv'
  BY <1>3, MoveListsKeeps
<1>4. ASSUME NEW q \in Drags, MoveWrites(q) PROVE OrderInv'
  BY <1>4, MoveWritesKeeps
<1>5. ASSUME NEW q \in Drags, AppendForm(q) \/ AppendFolder(q) \/ MoveFolder(q) PROVE OrderInv'
  BY <1>5, AppendBeginsKeeps
<1>6. ASSUME NEW q \in Drags, AppendWrites(q) PROVE OrderInv'
  BY <1>6, AppendWritesKeeps
<1>7. CASE ReorderEvents \/ ReorderTemplates \/ ReorderRules \/ ReorderForms \/ ReorderFolders
  BY <1>7, ReorderKeeps
<1>8. CASE CreateUnsorted
  BY <1>8, CreateKeeps
<1>9. CASE FileElsewhere \/ DeleteItem \/ HomeGoes
  BY <1>9, FiledKeeps
<1> QED
  BY <1>1, <1>2, <1>3, <1>4, <1>5, <1>6, <1>7, <1>8, <1>9 DEF NextOrder

\* Sorted anew, the listing is the sequence that the drag made of it.
LEMMA DropLands ==
  ASSUME OrderAssumption, OrderInv, NEW q \in Drags, MoveWrites(q),
         NEW d, d = drag[q], d.quiet, d.before # d.item,
         NEW others, others = Here(Mine(d.user), d.home) \ {d.item}
  PROVE  /\ \A x, y \in others : Precedes(row, Newest, x, y) <=> Precedes(row', Newest, x, y)
         /\ d.before = None => \A x \in others : Precedes(row', Newest, x, d.item)
         /\ d.before # None =>
              /\ Precedes(row', Newest, d.item, d.before)
              /\ \A x \in others \ {d.before} :
                   ~(Precedes(row', Newest, d.item, x) /\ Precedes(row', Newest, x, d.before))
<1> DEFINE S == Here(Mine(d.user), d.home)
           w == d.writes
<1>1. d \in DragRec /\ Knows(d) /\ d.at = "write" /\ Newest \in BOOLEAN
  BY DEF OrderInv, OrderTypes, MoveWrites, Newest
<1>2. d.item \in S /\ d.before \in S \cup {None} /\ Aims(d)
  BY <1>1 DEF Knows
<1>3. S \subseteq Items /\ None \notin S /\ \A y \in S : row[y].is = "row"
  BY <1>1 DEF DragRec, Here, Mine, OrderAssumption
<1>4. PICK s \in Seq(S) :
        /\ InListing(row, Newest, S, s)
        /\ DOMAIN w \subseteq S
        /\ \A y \in S : (IF y \in DOMAIN w THEN w[y] ELSE row[y].order)
                          = Place(Resequence(s, d.item, d.before), y) - 1
  BY <1>2 DEF Aims
<1>5. IsFiniteSet(S) /\ Datable(row, S)
  <2>1. Mine(d.user) \in SUBSET Items
    BY <1>1 DEF DragRec, Mine, OrderAssumption
  <2> QED
    BY <2>1, HereSorts DEF OrderInv
<1>6. row' = [x \in Items |-> IF x \in DOMAIN w THEN [row[x] EXCEPT !.order = w[x]] ELSE row[x]]
  BY <1>3, <1>4 DEF MoveWrites
<1> DEFINE t == Resequence(s, d.item, d.before)
<1>7. \A y \in S : row'[y].order = Place(t, y) - 1
  <2>1. \A y \in S : row'[y].order = IF y \in DOMAIN w THEN w[y] ELSE row[y].order
    BY <1>3, <1>6 DEF OrderInv, OrderTypes, ItemRow
  <2> QED
    BY <1>4, <2>1
<1>8. Distinct(s) /\ Range(s) = S
      /\ \A i, j \in 1 .. Len(s) : i < j => Precedes(row, Newest, s[i], s[j])
  BY <1>4 DEF InListing
<1>9. /\ t \in Seq(S) /\ Distinct(t) /\ Range(t) = S
      /\ \A y, z \in S \ {d.item} : Place(t, y) < Place(t, z) <=> Place(s, y) < Place(s, z)
      /\ d.before \in S => Place(t, d.before) = Place(t, d.item) + 1
      /\ d.before \notin S => \A y \in S \ {d.item} : Place(t, y) < Place(t, d.item)
  <2>1. /\ s \in Seq(S) /\ Distinct(s) /\ Range(s) = S /\ d.item \in Range(s)
        /\ d.before # d.item /\ t = Resequence(s, d.item, d.before)
    BY <1>2, <1>4, <1>8
  <2> HIDE DEF S, t
  <2>2. t \in Seq(S) /\ Distinct(t) /\ Range(t) = Range(s)
    BY <2>1, ResequenceMoves
  <2>3. ASSUME NEW y \in Range(s) \ {d.item}, NEW z \in Range(s) \ {d.item}
        PROVE  Place(t, y) < Place(t, z) <=> Place(s, y) < Place(s, z)
    BY <2>1, ResequenceMoves, SMTT(60)
  <2>4. d.before \in Range(s) => Place(t, d.before) = Place(t, d.item) + 1
    BY <2>1, ResequenceMoves
  <2>5. d.before \notin Range(s) => \A y \in Range(s) \ {d.item} : Place(t, y) < Place(t, d.item)
    BY <2>1, ResequenceMoves, SMTT(40)
  <2> QED
    BY <2>1, <2>2, <2>3, <2>4, <2>5
<1> HIDE DEF t, S, w
<1>10. ASSUME NEW y \in S
       PROVE  /\ Place(s, y) \in 1 .. Len(s) /\ s[Place(s, y)] = y /\ Place(s, y) \in Nat
              /\ Place(t, y) \in 1 .. Len(t) /\ t[Place(t, y)] = y /\ Place(t, y) \in Nat
  <2>1. Place(s, y) \in 1 .. Len(s) /\ s[Place(s, y)] = y
    BY <1>4, <1>8, PlaceFound
  <2>2. Place(t, y) \in 1 .. Len(t) /\ t[Place(t, y)] = y
    BY <1>9, PlaceFound
  <2>3. Len(s) \in Nat /\ Len(t) \in Nat
    BY <1>4, <1>9
  <2> QED
    BY <2>1, <2>2, <2>3
<1>11. ASSUME NEW y \in S, NEW z \in S
       PROVE  Precedes(row, Newest, y, z) <=> Place(s, y) < Place(s, z)
  <2>1. ASSUME NEW u \in S, NEW v \in S, Place(s, u) < Place(s, v)
        PROVE  Precedes(row, Newest, u, v)
    <3>1. PICK i, j : i = Place(s, u) /\ j = Place(s, v)
      OBVIOUS
    <3>2. i \in 1 .. Len(s) /\ j \in 1 .. Len(s) /\ i < j /\ s[i] = u /\ s[j] = v
      BY <1>10, <2>1, <3>1
    <3> QED
      BY <1>8, <3>2
  <2>2. /\ Place(s, y) < Place(s, z) => Precedes(row, Newest, y, z)
        /\ Place(s, z) < Place(s, y) => Precedes(row, Newest, z, y)
    BY <2>1
  <2>3. /\ s[Place(s, y)] = y /\ s[Place(s, z)] = z
        /\ Place(s, y) \in Nat /\ Place(s, z) \in Nat
    BY <1>10, SMTT(20)
  <2>4. Place(s, y) = Place(s, z) => y = z
    BY <2>3
  <2> QED
    BY <1>1, <1>5, <2>2, <2>3, <2>4, PrecedesOrders
<1>12. ASSUME NEW y \in S, NEW z \in S, y # z
       PROVE  Precedes(row', Newest, y, z) <=> Place(t, y) < Place(t, z)
  <2>1. /\ t[Place(t, y)] = y /\ t[Place(t, z)] = z
        /\ Place(t, y) \in Nat /\ Place(t, z) \in Nat /\ Place(t, y) # Place(t, z)
    BY <1>10, <1>12, SMTT(40)
  <2>2. row'[y].order = Place(t, y) - 1 /\ row'[z].order = Place(t, z) - 1
    BY <1>7
  <2> QED
    BY <2>1, <2>2 DEF Precedes
<1>13. ASSUME NEW y \in S
       PROVE  ~Precedes(row, Newest, y, y) /\ ~Precedes(row', Newest, y, y)
  <2>1. row'[y].order \in Nat /\ row'[y].born = row[y].born /\ row[y].born \in Nat
    <3>1. row'[y].order = Place(t, y) - 1 /\ Place(t, y) \in 1 .. Len(t)
      BY <1>7, <1>10
    <3>2. row'[y].born = row[y].born
      BY <1>3, <1>6 DEF OrderInv, OrderTypes, ItemRow
    <3> QED
      BY <1>5, <3>1, <3>2 DEF Datable
  <2> QED
    BY <1>1, <1>5, <2>1, PrecedesOrders DEF Precedes
<1>14. others = S \ {d.item}
  BY DEF S
<1>15. \A x, y \in others : Precedes(row, Newest, x, y) <=> Precedes(row', Newest, x, y)
  BY <1>9, <1>11, <1>12, <1>13, <1>14
<1>16. d.before = None => \A x \in others : Precedes(row', Newest, x, d.item)
  BY <1>2, <1>3, <1>9, <1>12, <1>14 DEF S
<1>17. ASSUME d.before # None
       PROVE  /\ Precedes(row', Newest, d.item, d.before)
              /\ \A x \in others \ {d.before} :
                   ~(Precedes(row', Newest, d.item, x) /\ Precedes(row', Newest, x, d.before))
  <2>1. d.before \in S /\ d.item \in S
    BY <1>2, <1>17
  <2>2. Place(t, d.before) = Place(t, d.item) + 1 /\ Place(t, d.item) \in Nat
    BY <1>9, <1>10, <2>1
  <2>3. Precedes(row', Newest, d.item, d.before)
    BY <1>12, <2>1, <2>2
  <2>4. ASSUME NEW x \in others \ {d.before}
        PROVE  ~(Precedes(row', Newest, d.item, x) /\ Precedes(row', Newest, x, d.before))
    <3>1. x \in S /\ x # d.item /\ x # d.before
      BY <1>14
    <3>2. Place(t, x) \in Nat
      BY <1>10, <3>1
    <3> QED
      BY <1>12, <2>1, <2>2, <3>1, <3>2
  <2> QED
    BY <2>3, <2>4
<1> QED
  BY <1>15, <1>16, <1>17

\* What is appended is behind everything that is there.
LEMMA AppendLands ==
  ASSUME OrderAssumption, OrderInv, NEW q \in Drags, AppendWrites(q),
         NEW d, d = drag[q], d.quiet, NEW x \in Here(Mine(d.user), d.home) \ {d.item},
         NEW y \in Items, row'[y] # row[y]
  PROVE  Precedes(row', Newest, x, y)
<1>1. d \in DragRec /\ Knows(d) /\ d.at = "append"
  BY DEF OrderInv, OrderTypes, AppendWrites
<1>2. Mine(d.user) = Items /\ x \in Here(Items, d.home) /\ x # d.item
  <2>1. listing \in Appended
    BY <1>1 DEF Knows
  <2>2. ~Newest
    BY <2>1 DEF Newest, Appended
  <2> QED
    BY <2>2 DEF Mine
<1>3. x \in Items /\ row[x].is = "row" /\ row[x].order < d.order
  BY <1>1, <1>2 DEF Knows, Here
<1>4. row \in [Items -> ItemRow]
  BY DEF OrderInv, OrderTypes
<1>5. row'[x] = row[x] /\ row'[y].order = d.order
  <2>1. CASE d.item = None
    <3>1. PICK z \in Items : row[z].is = "free" /\ row' = [row EXCEPT ![z] = Newborn(d.home, d.order)]
      BY <2>1 DEF AppendWrites
    <3> QED
      BY <1>3, <1>4, <3>1 DEF Newborn
  <2>2. CASE d.item # None
    <3>1. row' = IF row[d.item].is = "row"
                 THEN [row EXCEPT ![d.item].home = d.home, ![d.item].order = d.order] ELSE row
      BY <2>2 DEF AppendWrites
    <3> QED
      BY <1>2, <1>3, <1>4, <3>1 DEF ItemRow
  <2> QED
    BY <2>1, <2>2
<1> QED
  BY <1>3, <1>5 DEF Precedes

LEMMA OrderInvType == OrderInv => TypeOKOrder
<1> SUFFICES ASSUME OrderInv PROVE TypeOKOrder
  OBVIOUS
<1>1. ASSUME NEW q \in Drags PROVE drag[q] \in DragRec /\ DOMAIN drag[q].writes \subseteq Items
  <2>1. drag[q] \in DragRec
    BY DEF OrderInv, OrderTypes
  <2>2. drag[q].writes \in Writes
    BY <2>1 DEF DragRec
  <2> QED
    BY <2>1, <2>2 DEF Writes
<1> QED
  BY <1>1 DEF OrderInv, OrderTypes, TypeOKOrder, DragRec, ItemRow

LEMMA OrderInvAlways == SpecOrder => []OrderInv
  BY OrderAssumption, InitOrderInv, OrderStepInv, PTL DEF SpecOrder

\* Each row keeps a home, a position and the instant of its creation, and each request in
\* flight locals of its kind (the rows and the locals of a move in the repositories).
THEOREM OrderTypeCorrect == SpecOrder => []TypeOKOrder
  BY OrderInvAlways, OrderInvType, PTL

\* A drag that nothing overlapped puts the item right where it was dropped and leaves the
\* rest in order, and what is appended is last (resequence, writesFor, nextOrder).
THEOREM DropsLand == SpecOrder => DropLandsWhereAimed
<1>1. OrderInv /\ [NextOrder]_orderVars => [\A q \in Drags : LandsWhereAimed(q)]_orderVars
  <2> SUFFICES ASSUME OrderInv, NEW q \in Drags PROVE LandsWhereAimed(q)
    OBVIOUS
  <2> DEFINE d == drag[q]
             others == Here(Mine(d.user), d.home) \ {d.item}
  <2>1. ASSUME MoveWrites(q), d.quiet, d.before # d.item
        PROVE  /\ \A x, y \in others : Precedes(row, Newest, x, y) <=> Precedes(row', Newest, x, y)
               /\ d.before = None => \A x \in others : Precedes(row', Newest, x, d.item)
               /\ d.before # None =>
                    /\ Precedes(row', Newest, d.item, d.before)
                    /\ \A x \in others \ {d.before} :
                         ~(Precedes(row', Newest, d.item, x) /\ Precedes(row', Newest, x, d.before))
    <3>1. d = drag[q]
      OBVIOUS
    <3>2. others = Here(Mine(d.user), d.home) \ {d.item}
      OBVIOUS
    <3> HIDE DEF d, others
    <3> QED
      BY <2>1, <3>1, <3>2, OrderAssumption, DropLands, SMTT(30)
  <2>2. ASSUME AppendWrites(q), d.quiet, NEW x \in others, NEW y \in Items, row'[y] # row[y]
        PROVE  Precedes(row', Newest, x, y)
    BY <2>2, OrderAssumption, AppendLands
  <2> QED
    BY <2>1, <2>2 DEF LandsWhereAimed
<1> QED
  BY <1>1, OrderInvAlways, PTL DEF SpecOrder, DropLandsWhereAimed

-----------------------------------------------------------------------------
(* The schedule of the recurring rules: RecurringRules. *)

RecurringRow == [is : {"free", "row", "gone"}, event : EventIds, template : Templates,
                 trigger : {"recurring", "other"}, cron : Schedule, active : BOOLEAN]
RecurringCall == [at : {"idle", "check", "write", "erase", "template", "sync"},
                  id : RuleIds \cup {None}, rule : RecurringRow, patch : RulePatches,
                  left : SUBSET RuleIds, wants : [RuleIds -> Schedule]]
RecurringBoot == [at : {"idle", "upsert", "prune"}, found : SUBSET RuleIds,
                  left : SUBSET RuleIds, wants : [RuleIds -> Schedule], clean : SUBSET RuleIds]

IsDue(r) == rrule[r].trigger = "recurring" /\ rrule[r].active

\* What holds of one rule.  An id not used yet has no scheduler, and nobody is about to make
\* it one.
FreeIsMute(r) ==
  rrule[r].is = "free" =>
    /\ sched[r] = None /\ \A q \in Sessions : ~Owes(q, r)
    /\ boot.at = "upsert" => r \notin boot.left

\* Whoever is to bring the scheduler of an undisturbed rule in line knows its row as it is;
\* when there is nobody, it is in line.
InLine(r) ==
  rrule[r].is = "row" /\ r \notin disturbed =>
    /\ \A q \in Sessions : Owes(q, r) => call[q].wants[r] = Wanted(rrule[r])
    /\ (\A q \in Sessions : ~Owes(q, r)) => sched[r] = Wanted(rrule[r])

\* A boot knows the rows that nobody has written since it read them, and takes off the
\* schedule only what it did not find.
BootKnows(r) ==
  /\ boot.at # "idle" /\ rrule[r].is = "row" /\ (r \notin disturbed \/ r \in boot.clean) =>
       /\ boot.wants[r] = Wanted(rrule[r])
       /\ r \in boot.found <=> IsDue(r)
  /\ boot.at = "prune" /\ r \in boot.left => r \notin boot.found

\* What a boot will vouch for: nobody else is at its scheduler, and it is in line or still
\* on the list of the boot.
BootVouches(r) ==
  boot.at # "idle" /\ rrule[r].is = "row" /\ r \in boot.clean =>
    /\ \A q \in Sessions : ~Owes(q, r)
    /\ boot.at = "upsert" => r \notin boot.found \/ r \in boot.left \/ sched[r] = Wanted(rrule[r])
    /\ boot.at = "prune" => sched[r] = Wanted(rrule[r]) \/ r \in boot.left

SoundRule(r) == FreeIsMute(r) /\ InLine(r) /\ BootKnows(r) /\ BootVouches(r)

\* DuplicateEvent with the copy that it makes.
Duplicated(q, copy, dated, from, e) ==
  LET made == {r \in RuleIds : from[r] # None}
      new == [r \in RuleIds |-> IF r \in made THEN CopyOf(rrule[from[r]], copy, r \in dated)
                                ELSE rrule[r]]
      due == DueCopies(new, made) IN
  /\ call[q].at = "idle" /\ callsTaken < MaxCalls /\ callsTaken' = callsTaken + 1
  /\ createDuplicateGraph(e, copy, new) /\ Write(q, made)
  /\ call' = [call EXCEPT ![q] =
       IF due = {} THEN NoCall
       ELSE [NoCall EXCEPT !.at = "sync", !.left = due,
               !.wants = [r \in RuleIds |-> IF r \in due THEN new[r].cron ELSE None]]]
  /\ UNCHANGED <<sched, outages>>

LEMMA Duplicates ==
  ASSUME NEW q, DuplicateEvent(q)
  PROVE  \E e \in events, copy \in EventIds \ events, dated \in SUBSET RuleIds :
           \E from \in Copies(e) : Duplicated(q, copy, dated, from, e)
BY Zenon DEF DuplicateEvent, Duplicated

-----------------------------------------------------------------------------
(* The types. *)

TypedRecurring ==
  /\ events \subseteq EventIds /\ templates \subseteq events \X Templates
  /\ rrule \in [RuleIds -> RecurringRow] /\ call \in [Sessions -> RecurringCall]
  /\ sched \in [RuleIds -> Schedule] /\ boot \in RecurringBoot
  /\ callsTaken \in Nat /\ outages \in Nat /\ disturbed \subseteq RuleIds

LEMMA RecurParts == TypeOKRecurring <=> TypedRecurring
  BY DEF TypeOKRecurring, TypedRecurring, RecurringRow, RecurringCall, RecurringBoot

LEMMA NothingRecurs ==
  /\ NoRecurring \in RecurringRow /\ Nothing \in [RuleIds -> Schedule]
  /\ NoCall \in RecurringCall /\ NoBoot \in RecurringBoot
<1> USE RecurringAssumption
<1>1. NoRecurring \in RecurringRow
  BY DEF NoRecurring, RecurringRow, Schedule
<1>2. NoRulePatch \in RulePatches
  BY DEF NoRulePatch, RulePatches
<1>3. Nothing \in [RuleIds -> Schedule]
  BY DEF Nothing, Schedule
<1>4. NoCall \in RecurringCall
  BY <1>1, <1>2, <1>3 DEF NoCall, RecurringCall
<1>5. NoBoot \in RecurringBoot
  BY <1>3 DEF NoBoot, RecurringBoot
<1> QED
  BY <1>1, <1>3, <1>4, <1>5

LEMMA MergeTyped ==
  ASSUME NEW x \in RecurringRow, NEW p \in RulePatches
  PROVE  Merge(x, p) \in RecurringRow
<1> USE RecurringAssumption
<1> DEFINE t == IF p.template = Keep THEN x.template ELSE p.template
           g == IF p.trigger = "keep" THEN x.trigger ELSE p.trigger
           c == IF p.cron = Keep THEN x.cron ELSE p.cron
           a == IF p.active = Keep THEN x.active ELSE p.active
<1>1. /\ t \in Templates /\ g \in {"recurring", "other"} /\ c \in Schedule /\ a \in BOOLEAN
  <2>1. /\ x.template \in Templates /\ x.trigger \in {"recurring", "other"}
        /\ x.cron \in Schedule /\ x.active \in BOOLEAN
    BY DEF RecurringRow
  <2>2. /\ p.template \in Templates \cup {Keep} /\ p.trigger \in {"keep", "recurring", "other"}
        /\ p.cron \in Crons \cup {None, Keep} /\ p.active \in BOOLEAN \cup {Keep}
    BY DEF RulePatches
  <2>3. p.active = Keep \/ p.active \in BOOLEAN
    BY <2>2
  <2> QED
    BY <2>1, <2>2, <2>3 DEF Schedule
<1>2. Merge(x, p) = [x EXCEPT !.template = t, !.trigger = g, !.cron = c, !.active = a]
  BY DEF Merge
<1> HIDE DEF t, g, c, a
<1> QED
  BY <1>1, <1>2 DEF RecurringRow

LEMMA WantedTyped == \A x \in RecurringRow : Wanted(x) \in Schedule
  BY DEF Wanted, RecurringRow, Schedule

LEMMA StepRecurTyped == TypedRecurring /\ [NextRecurring]_recurVars => TypedRecurring'
<1> SUFFICES ASSUME TypedRecurring, [NextRecurring]_recurVars PROVE TypedRecurring'
  OBVIOUS
<1> USE RecurringAssumption
<1>1. /\ events \subseteq EventIds /\ templates \subseteq events \X Templates
      /\ rrule \in [RuleIds -> RecurringRow] /\ call \in [Sessions -> RecurringCall]
      /\ sched \in [RuleIds -> Schedule] /\ boot \in RecurringBoot
      /\ callsTaken \in Nat /\ outages \in Nat /\ disturbed \subseteq RuleIds
  BY DEF TypedRecurring
<1>2. NoCall \in RecurringCall /\ NoBoot \in RecurringBoot /\ NoRecurring \in RecurringRow
  BY NothingRecurs
<1> DEFINE Tabled == /\ events' \subseteq EventIds /\ templates' \subseteq events' \X Templates
                     /\ rrule' \in [RuleIds -> RecurringRow]
           Called == call' \in [Sessions -> RecurringCall]
           Timed == sched' \in [RuleIds -> Schedule]
           Booted == boot' \in RecurringBoot /\ disturbed' \subseteq RuleIds
           Counted == callsTaken' \in Nat /\ outages' \in Nat
<1>3. ASSUME Tabled, Called, Timed, Booted, Counted PROVE TypedRecurring'
  BY <1>3 DEF TypedRecurring
<1>4. ASSUME NEW q \in Sessions, NEW c \in RecurringCall, call' = [call EXCEPT ![q] = c] PROVE Called
  BY <1>1, <1>4
<1>5. ASSUME NEW q \in Sessions, NEW c \in RecurringCall, Accept(q, c) PROVE TypedRecurring'
  BY <1>1, <1>4, <1>5, <1>3 DEF Accept, tables
<1>6. ASSUME NEW q \in Sessions, NEW W \in SUBSET RuleIds, Write(q, W) PROVE Booted
  <2> DEFINE kept == boot.clean \ W
  <2>1. boot' = [boot EXCEPT !.clean = kept] /\ kept \in SUBSET RuleIds
    BY <1>1, <1>6 DEF Write, RecurringBoot
  <2> HIDE DEF kept
  <2> QED
    BY <1>1, <1>6, <2>1 DEF Write, RecurringBoot
<1>7. ASSUME NEW W, Gone(W) PROVE rrule' \in [RuleIds -> RecurringRow]
  <2>1. [NoRecurring EXCEPT !.is = "gone"] \in RecurringRow
    BY <1>2 DEF RecurringRow
  <2> QED
    BY <1>1, <1>7, <2>1 DEF Gone
<1>8. ASSUME NEW q \in Sessions, NEW r \in RuleIds, NEW x \in RecurringRow
      PROVE  [NoCall EXCEPT !.at = "sync", !.left = {r}, !.wants = [Nothing EXCEPT ![r] = Wanted(x)]]
               \in RecurringCall
  <2> DEFINE w == [Nothing EXCEPT ![r] = Wanted(x)]
  <2>1. w \in [RuleIds -> Schedule] /\ {r} \in SUBSET RuleIds
    BY WantedTyped, NothingRecurs
  <2> HIDE DEF w
  <2>2. [NoCall EXCEPT !.at = "sync", !.left = {r}, !.wants = w] \in RecurringCall
    BY <1>2, <2>1 DEF RecurringCall
  <2> QED
    BY <2>2 DEF w
<1>9. CASE UNCHANGED recurVars
  BY <1>1, <1>9 DEF recurVars, TypedRecurring
<1>10. ASSUME NEW q \in Sessions, ReceiveCreate(q) PROVE TypedRecurring'
  <2>1. PICK e \in events, t \in Templates, k \in Crons \cup {None}, a \in BOOLEAN :
    Accept(q, [NoCall EXCEPT !.at = "check",
      !.rule = [is |-> "row", event |-> e, template |-> t, active |-> a, cron |-> k,
                trigger |-> IF k = None THEN "other" ELSE "recurring"]])
    BY <1>10 DEF ReceiveCreate
  <2> DEFINE x == [is |-> "row", event |-> e, template |-> t, active |-> a, cron |-> k,
                trigger |-> IF k = None THEN "other" ELSE "recurring"]
  <2>2. x \in RecurringRow
    BY <1>1 DEF RecurringRow, Schedule
  <2> HIDE DEF x
  <2>3. [NoCall EXCEPT !.at = "check", !.rule = x] \in RecurringCall
    BY <1>2, <2>2 DEF RecurringCall
  <2> QED
    BY <1>5, <2>1, <2>3 DEF x
<1>11. ASSUME NEW q \in Sessions, ReceiveUpdate(q) PROVE TypedRecurring'
  <2>1. PICK r \in RecurringRows, p \in Patches :
    Accept(q, [NoCall EXCEPT !.at = "check", !.id = r, !.rule = Merge(rrule[r], p), !.patch = p])
    BY <1>11 DEF ReceiveUpdate
  <2> DEFINE x == Merge(rrule[r], p)
  <2>2. x \in RecurringRow /\ r \in RuleIds /\ p \in RulePatches
    BY <1>1, MergeTyped DEF RecurringRows
  <2> HIDE DEF x
  <2>3. [NoCall EXCEPT !.at = "check", !.id = r, !.rule = x, !.patch = p] \in RecurringCall
    BY <1>2, <2>2 DEF RecurringCall
  <2> QED
    BY <1>5, <2>1, <2>3 DEF x
<1>12. ASSUME NEW q \in Sessions, ReceiveDelete(q) PROVE TypedRecurring'
  <2>1. PICK r \in RecurringRows : Accept(q, [NoCall EXCEPT !.at = "erase", !.id = r, !.rule = rrule[r]])
    BY <1>12 DEF ReceiveDelete
  <2>2. r \in RuleIds /\ rrule[r] \in RecurringRow
    BY <1>1 DEF RecurringRows
  <2>3. [NoCall EXCEPT !.at = "erase", !.id = r, !.rule = rrule[r]] \in RecurringCall
    BY <1>2, <2>2 DEF RecurringCall
  <2> QED
    BY <1>5, <2>1, <2>3
<1>13. ASSUME NEW q \in Sessions, ReceiveTemplateDelete(q) PROVE TypedRecurring'
  <2>1. PICK t \in templates :
          Accept(q, [NoCall EXCEPT !.at = "template", !.rule.event = t[1], !.rule.template = t[2]])
    BY <1>13 DEF ReceiveTemplateDelete
  <2> DEFINE x == [NoRecurring EXCEPT !.event = t[1], !.template = t[2]]
  <2>2. t[1] \in EventIds /\ t[2] \in Templates
    BY <1>1
  <2>3. x \in RecurringRow
    BY <1>2, <2>2 DEF RecurringRow
  <2>4. [NoCall EXCEPT !.at = "template", !.rule.event = t[1], !.rule.template = t[2]] =
          [NoCall EXCEPT !.at = "template", !.rule = x]
    BY DEF NoCall, NoRecurring
  <2> HIDE DEF x
  <2>5. [NoCall EXCEPT !.at = "template", !.rule = x] \in RecurringCall
    BY <1>2, <2>3 DEF RecurringCall
  <2> QED
    BY <1>5, <2>1, <2>4, <2>5
<1>14. ASSUME NEW q \in Sessions, CheckRule(q) \/ RefusedByDatabase(q) PROVE TypedRecurring'
  <2>1. [call[q] EXCEPT !.at = "write"] \in RecurringCall
    BY <1>1 DEF RecurringCall
  <2>2. \E c \in RecurringCall : call' = [call EXCEPT ![q] = c]
    BY <1>2, <1>14, <2>1 DEF CheckRule, RefusedByDatabase, CallGoes
  <2>3. Called
    BY <1>4, <2>2
  <2> QED
    BY <1>1, <1>3, <1>14, <2>3 DEF CheckRule, RefusedByDatabase, CallGoes, OnlyReads, tables
<1>15. ASSUME NEW q \in Sessions, InsertRecurring(q) PROVE TypedRecurring'
  <2>1. PICK r \in RuleIds :
    /\ rrule' = [rrule EXCEPT ![r] = call[q].rule]
    /\ Write(q, {r})
    /\ CallGoes(q, [NoCall EXCEPT !.at = "sync", !.left = {r},
                                   !.wants = [Nothing EXCEPT ![r] = Wanted(call[q].rule)]])
    /\ UNCHANGED <<events, templates, sched>>
    BY <1>15 DEF InsertRecurring
  <2>2. call[q].rule \in RecurringRow
    BY <1>1 DEF RecurringCall
  <2>3. Called
    BY <1>4, <1>8, <2>1, <2>2 DEF CallGoes
  <2>4. Booted
    BY <1>6, <2>1
  <2> QED
    BY <1>1, <1>3, <2>1, <2>2, <2>3, <2>4 DEF CallGoes
<1>16. ASSUME NEW q \in Sessions, UpdateRecurring(q) PROVE TypedRecurring'
  <2> DEFINE r == call[q].id
             new == Merge(rrule[r], call[q].patch)
  <2>1. /\ r \in RecurringRows /\ rrule' = [rrule EXCEPT ![r] = new]
        /\ Write(q, {r})
        /\ CallGoes(q, [NoCall EXCEPT !.at = "sync", !.left = {r},
                                 !.wants = [Nothing EXCEPT ![r] = Wanted(new)]])
        /\ UNCHANGED <<events, templates, sched>>
    BY <1>16 DEF UpdateRecurring
  <2>2. r \in RuleIds /\ new \in RecurringRow
    BY <1>1, <2>1, MergeTyped DEF RecurringCall, RecurringRows
  <2> HIDE DEF r, new
  <2>3. Called
    BY <1>4, <1>8, <2>1, <2>2 DEF CallGoes
  <2>4. Booted
    BY <1>6, <2>1, <2>2
  <2> QED
    BY <1>1, <1>3, <2>1, <2>2, <2>3, <2>4 DEF CallGoes
<1>17. ASSUME NEW q \in Sessions, EraseRule(q) PROVE TypedRecurring'
  <2>1. call[q].id \in RecurringRows => [NoCall EXCEPT !.at = "sync", !.left = {call[q].id}] \in RecurringCall
    BY <1>2 DEF RecurringCall, RecurringRows
  <2>2. \E c \in RecurringCall : CallGoes(q, c)
    BY <1>2, <1>17, <2>1 DEF EraseRule
  <2>3. Called /\ Counted
    BY <1>1, <1>4, <2>2 DEF CallGoes
  <2> QED
    BY <1>1, <1>3, <1>7, <1>17, <2>3 DEF EraseRule
<1>18. ASSUME NEW q \in Sessions, EraseTemplate(q) PROVE TypedRecurring'
  <2>1. Called /\ Counted
    BY <1>1, <1>2, <1>4, <1>18 DEF EraseTemplate, CallGoes
  <2>2. rrule' \in [RuleIds -> RecurringRow]
    BY <1>7, <1>18 DEF EraseTemplate
  <2> QED
    BY <1>1, <1>3, <1>18, <2>1, <2>2 DEF EraseTemplate
<1>19. ASSUME NEW q \in Sessions, DuplicateEvent(q) PROVE TypedRecurring'
  <2>0. PICK e \in events, copy \in EventIds \ events, dated \in SUBSET RuleIds :
          \E from \in Copies(e) : Duplicated(q, copy, dated, from, e)
    BY <1>19, Duplicates
  <2>1. PICK from \in Copies(e) : Duplicated(q, copy, dated, from, e)
    BY <2>0
  <2> DEFINE made == {r \in RuleIds : from[r] # None}
             new == [r \in RuleIds |-> IF r \in made THEN CopyOf(rrule[from[r]], copy, r \in dated)
                                       ELSE rrule[r]]
             due == DueCopies(new, made)
             wants == [r \in RuleIds |-> IF r \in due THEN new[r].cron ELSE None]
             c == IF due = {} THEN NoCall
                  ELSE [NoCall EXCEPT !.at = "sync", !.left = due, !.wants = wants]
  <2>2. /\ callsTaken' = callsTaken + 1
        /\ createDuplicateGraph(e, copy, new) /\ Write(q, made)
        /\ call' = [call EXCEPT ![q] = c] /\ UNCHANGED <<sched, outages>>
    BY <2>1 DEF Duplicated
  <2>3. ASSUME NEW x \in RecurringRow, NEW b \in BOOLEAN PROVE CopyOf(x, copy, b) \in RecurringRow
    BY DEF CopyOf, RecurringRow
  <2>4. \A r \in made : rrule[from[r]] \in RecurringRow
    BY <1>1 DEF Copies, SourceRules, RecurringRows
  <2>5. new \in [RuleIds -> RecurringRow]
    <3>1. ASSUME NEW r \in made PROVE CopyOf(rrule[from[r]], copy, r \in dated) \in RecurringRow
      <4> DEFINE b == r \in dated
      <4>1. b \in BOOLEAN /\ rrule[from[r]] \in RecurringRow
        BY <2>4
      <4> HIDE DEF b
      <4>2. CopyOf(rrule[from[r]], copy, b) \in RecurringRow
        BY <2>3, <4>1
      <4> QED
        BY <4>2 DEF b
    <3> QED
      BY <1>1, <3>1
  <2>6. due \in SUBSET RuleIds /\ made \in SUBSET RuleIds
    BY DEF DueCopies
  <2>7. SourceTemplates(e) \subseteq Templates
    BY <1>1 DEF SourceTemplates, SourceRules, RecurringRows, RecurringRow
  <2> HIDE DEF new, due, made
  <2>8. wants \in [RuleIds -> Schedule]
    BY <2>5 DEF RecurringRow, Schedule
  <2> HIDE DEF wants
  <2>9. c \in RecurringCall
    BY <1>2, <2>6, <2>8 DEF RecurringCall
  <2> HIDE DEF c
  <2>10. Called
    BY <1>4, <2>2, <2>9
  <2>11. Booted
    BY <1>6, <2>2, <2>6
  <2>12. Tabled
    BY <1>1, <2>2, <2>5, <2>7 DEF createDuplicateGraph
  <2> QED
    BY <1>1, <1>3, <2>2, <2>10, <2>11, <2>12
<1>20. ASSUME NEW q \in Sessions, SyncScheduler(q) PROVE TypedRecurring'
  <2>1. PICK r \in call[q].left :
    /\ sched' = [sched EXCEPT ![r] = call[q].wants[r]]
    /\ CallGoes(q, IF call[q].left = {r} THEN NoCall ELSE [call[q] EXCEPT !.left = @ \ {r}])
    /\ UNCHANGED <<tables, boot, disturbed>>
    BY <1>20 DEF SyncScheduler
  <2> DEFINE left == call[q].left \ {r}
  <2>2. left \in SUBSET RuleIds /\ call[q] \in RecurringCall /\ r \in RuleIds /\ call[q].wants[r] \in Schedule
    BY <1>1 DEF RecurringCall
  <2>3. CallGoes(q, IF call[q].left = {r} THEN NoCall ELSE [call[q] EXCEPT !.left = left])
    BY <2>1
  <2> HIDE DEF left
  <2>4. [call[q] EXCEPT !.left = left] \in RecurringCall
    BY <2>2 DEF RecurringCall
  <2>5. Called
    BY <1>2, <1>4, <2>3, <2>4 DEF CallGoes
  <2> QED
    BY <1>1, <1>3, <2>1, <2>2, <2>5 DEF CallGoes, tables
<1>21. ASSUME NEW q \in Sessions, SyncLost(q) PROVE TypedRecurring'
  <2>1. Called /\ call[q].left \subseteq RuleIds
    BY <1>1, <1>2, <1>4, <1>21 DEF SyncLost, RecurringCall
  <2> QED
    BY <1>1, <1>3, <1>21, <2>1 DEF SyncLost, tables
<1>22. CASE EraseEvent
  <2>1. PICK e \in events :
    /\ callsTaken' = callsTaken + 1
    /\ events' = events \ {e} /\ templates' = {t \in templates : t[1] # e}
    /\ Gone({r \in RecurringRows : rrule[r].event = e})
    /\ UNCHANGED <<sched, call, boot, outages, disturbed>>
    BY <1>22 DEF EraseEvent
  <2>2. rrule' \in [RuleIds -> RecurringRow]
    BY <1>7, <2>1
  <2>3. templates' \subseteq events' \X Templates
    BY <1>1, <2>1
  <2> QED
    BY <1>1, <1>3, <2>1, <2>2, <2>3
<1>23. CASE BootReads
  <2> DEFINE active == {r \in RecurringRows : rrule[r].active /\ rrule[r].trigger = "recurring"}
             left == {r \in active : rrule[r].cron # None}
             wants == [r \in RuleIds |-> Wanted(rrule[r])]
             clean == {r \in RuleIds : /\ ~\E q \in Sessions : Owes(q, r)
                                       /\ r \in active => rrule[r].cron # None}
  <2>1. boot' = [at |-> "upsert", found |-> active, left |-> left, wants |-> wants, clean |-> clean]
    BY <1>23 DEF BootReads
  <2>2. /\ {active, left, clean} \subseteq SUBSET RuleIds /\ wants \in [RuleIds -> Schedule]
    BY <1>1, WantedTyped DEF RecurringRows
  <2> HIDE DEF active, left, clean, wants
  <2>3. boot' \in RecurringBoot
    BY <2>1, <2>2 DEF RecurringBoot
  <2> QED
    BY <1>1, <1>3, <1>23, <2>3 DEF BootReads, tables
<1>24. CASE BootUpserts \/ BootPrunes
  <2>1. PICK r \in boot.left :
          /\ \E s \in {None, boot.wants[r]} : sched' = [sched EXCEPT ![r] = s]
          /\ boot' = [boot EXCEPT !.left = @ \ {r}]
          /\ UNCHANGED <<tables, call, callsTaken, outages, disturbed>>
    BY <1>24 DEF BootUpserts, BootPrunes
  <2> DEFINE left == boot.left \ {r}
  <2>2. /\ left \in SUBSET RuleIds /\ boot \in RecurringBoot /\ r \in RuleIds
        /\ boot.wants[r] \in Schedule /\ None \in Schedule
    BY <1>1 DEF RecurringBoot, Schedule
  <2>3. boot' = [boot EXCEPT !.left = left]
    BY <2>1
  <2> HIDE DEF left
  <2>4. boot' \in RecurringBoot
    BY <2>2, <2>3 DEF RecurringBoot
  <2> QED
    BY <1>1, <1>3, <2>1, <2>2, <2>4 DEF tables
<1>25. CASE BootLists
  <2> DEFINE left == {r \in RuleIds : sched[r] # None} \ boot.found
  <2>1. boot' = [boot EXCEPT !.at = "prune", !.left = left] /\ left \in SUBSET RuleIds
    BY <1>25 DEF BootLists
  <2> HIDE DEF left
  <2>2. boot' \in RecurringBoot
    BY <1>1, <2>1 DEF RecurringBoot
  <2> QED
    BY <1>1, <1>3, <1>25, <2>2 DEF BootLists, tables
<1>26. CASE BootEnds \/ BootDies
  BY <1>1, <1>2, <1>3, <1>26 DEF BootEnds, BootDies, tables
<1> QED
  BY <1>9, <1>10, <1>11, <1>12, <1>13, <1>14, <1>15, <1>16, <1>17, <1>18, <1>19, <1>20, <1>21,
     <1>22, <1>23, <1>24, <1>25, <1>26 DEF NextRecurring

-----------------------------------------------------------------------------
(* On time. *)

\* A request to create or to update holds the row it was accepted with.
HoldsARow == \A q \in Sessions : call[q].at \in {"check", "write"} => call[q].rule.is = "row"

RecurInv == TypedRecurring /\ HoldsARow /\ \A r \in RuleIds : SoundRule(r)

LEMMA StepHoldsARow == TypedRecurring /\ HoldsARow /\ [NextRecurring]_recurVars => HoldsARow'
<1> SUFFICES ASSUME TypedRecurring, HoldsARow, [NextRecurring]_recurVars, NEW o \in Sessions,
                    call'[o].at \in {"check", "write"}
             PROVE  call'[o].rule.is = "row"
  BY DEF HoldsARow
<1>1. call \in [Sessions -> RecurringCall] /\ rrule \in [RuleIds -> RecurringRow]
  BY DEF TypedRecurring
<1> DEFINE Keeps(q, c) == c.at \in {"check", "write"} => c.rule.is = "row"
<1>2. ASSUME NEW q \in Sessions, NEW c, Keeps(q, c), call' = [call EXCEPT ![q] = c]
      PROVE  call'[o].rule.is = "row"
  <2>1. CASE o = q
    BY <1>1, <1>2, <2>1
  <2>2. CASE o # q
    BY <1>1, <1>2, <2>2 DEF HoldsARow
  <2> QED
    BY <2>1, <2>2
<1>3. call' = call => call'[o].rule.is = "row"
  BY DEF HoldsARow
<1>4. \A q \in Sessions : Keeps(q, NoCall)
  BY DEF NoCall
<1>5. ASSUME NEW q \in Sessions,
             ReceiveCreate(q) \/ ReceiveUpdate(q) \/ ReceiveDelete(q) \/ ReceiveTemplateDelete(q)
      PROVE  call'[o].rule.is = "row"
  <2>1. CASE ReceiveUpdate(q)
    <3>1. PICK r \in RecurringRows, p \in Patches :
      Accept(q, [NoCall EXCEPT !.at = "check", !.id = r, !.rule = Merge(rrule[r], p), !.patch = p])
      BY <2>1 DEF ReceiveUpdate
    <3> DEFINE x == Merge(rrule[r], p)
    <3>2. x.is = "row"
      BY <1>1 DEF Merge, RecurringRows, RecurringRow
    <3> HIDE DEF x
    <3>3. Keeps(q, [NoCall EXCEPT !.at = "check", !.id = r, !.rule = x, !.patch = p])
      BY <3>2 DEF NoCall
    <3> QED
      BY <1>2, <3>1, <3>3 DEF Accept, x
  <2>2. CASE ~ReceiveUpdate(q)
    <3>1. PICK c : Keeps(q, c) /\ call' = [call EXCEPT ![q] = c]
      BY <1>5, <2>2 DEF ReceiveCreate, ReceiveDelete, ReceiveTemplateDelete, Accept, NoCall
    <3> QED
      BY <1>2, <3>1
  <2> QED
    BY <2>1, <2>2
<1>6. ASSUME NEW q \in Sessions, CheckRule(q) \/ RefusedByDatabase(q) PROVE call'[o].rule.is = "row"
  <2>1. CheckRule(q) => Keeps(q, [call[q] EXCEPT !.at = "write"])
    BY <1>1 DEF HoldsARow, CheckRule, RecurringCall
  <2>2. PICK c : Keeps(q, c) /\ call' = [call EXCEPT ![q] = c]
    BY <1>4, <1>6, <2>1 DEF CheckRule, RefusedByDatabase, CallGoes
  <2> QED
    BY <1>2, <2>2
<1>7. ASSUME NEW q \in Sessions, InsertRecurring(q) \/ UpdateRecurring(q) \/ EraseRule(q) \/ EraseTemplate(q)
      PROVE  call'[o].rule.is = "row"
  <2>1. PICK c : Keeps(q, c) /\ call' = [call EXCEPT ![q] = c]
    BY <1>7 DEF InsertRecurring, UpdateRecurring, EraseRule, EraseTemplate, CallGoes, NoCall
  <2> QED
    BY <1>2, <2>1
<1>8. ASSUME NEW q \in Sessions, DuplicateEvent(q) PROVE call'[o].rule.is = "row"
  <2>1. PICK due, wants : call' = [call EXCEPT ![q] =
          IF due = {} THEN NoCall ELSE [NoCall EXCEPT !.at = "sync", !.left = due, !.wants = wants]]
    BY <1>8, ZenonT(40) DEF DuplicateEvent
  <2>2. Keeps(q, [NoCall EXCEPT !.at = "sync", !.left = due, !.wants = wants])
    BY DEF NoCall
  <2> QED
    BY <1>2, <1>4, <2>1, <2>2
<1>9. ASSUME NEW q \in Sessions, SyncScheduler(q) \/ SyncLost(q) PROVE call'[o].rule.is = "row"
  <2>1. CASE SyncLost(q)
    BY <1>2, <1>4, <2>1 DEF SyncLost
  <2>2. CASE SyncScheduler(q)
    <3>1. PICK s : /\ call[q].at = "sync"
                   /\ call' = [call EXCEPT ![q] = IF call[q].left = {s} THEN NoCall
                                                  ELSE [call[q] EXCEPT !.left = @ \ {s}]]
      BY <2>2 DEF SyncScheduler, CallGoes
    <3>2. Keeps(q, [call[q] EXCEPT !.left = @ \ {s}])
      BY <1>1, <3>1 DEF RecurringCall
    <3> QED
      BY <1>2, <1>4, <3>1, <3>2
  <2> QED
    BY <1>9, <2>1, <2>2
<1>10. CASE EraseEvent \/ BootReads \/ BootUpserts \/ BootLists \/ BootPrunes \/ BootEnds \/ BootDies
            \/ UNCHANGED recurVars
  BY <1>3, <1>10 DEF EraseEvent, BootReads, BootUpserts, BootLists, BootPrunes, BootEnds, BootDies,
                     recurVars
<1> QED
  BY <1>5, <1>6, <1>7, <1>8, <1>9, <1>10 DEF NextRecurring

\* Nothing that is said of r has changed.
SameFor(r) ==
  /\ rrule'[r] = rrule[r] /\ sched'[r] = sched[r] /\ (r \in disturbed' <=> r \in disturbed)
  /\ boot'.at = boot.at /\ boot'.wants[r] = boot.wants[r]
  /\ r \in boot'.found <=> r \in boot.found
  /\ r \in boot'.left <=> r \in boot.left
  /\ r \in boot'.clean <=> r \in boot.clean
  /\ \A q \in Sessions : /\ Owes(q, r)' <=> Owes(q, r)
                         /\ Owes(q, r) => call'[q].wants[r] = call[q].wants[r]

LEMMA RuleStays ==
  ASSUME NEW r \in RuleIds, SoundRule(r), SameFor(r) PROVE SoundRule(r)'
<1>1. /\ FreeIsMute(r) /\ InLine(r) /\ BootKnows(r) /\ BootVouches(r)
      /\ IsDue(r)' <=> IsDue(r)
      /\ Wanted(rrule[r])' = Wanted(rrule[r])
  BY DEF SoundRule, SameFor, IsDue, Wanted
<1>2. FreeIsMute(r)'
  BY <1>1 DEF FreeIsMute, SameFor
<1>3. InLine(r)'
  BY <1>1 DEF InLine, SameFor
<1>4. BootKnows(r)'
  BY <1>1 DEF BootKnows, SameFor
<1>5. BootVouches(r)'
  BY <1>1 DEF BootVouches, SameFor
<1> QED
  BY <1>2, <1>3, <1>4, <1>5 DEF SoundRule

\* A rule that is gone is nobody's.
LEMMA RuleGone ==
  ASSUME NEW r \in RuleIds, SoundRule(r), rrule'[r].is = "gone", UNCHANGED boot
  PROVE  SoundRule(r)'
  BY DEF SoundRule, FreeIsMute, InLine, BootKnows, BootVouches

\* A row that is written belongs to the request that wrote it, and no boot will vouch for it.
LEMMA RuleWritten ==
  ASSUME TypedRecurring, NEW q \in Sessions, NEW W, Write(q, W), NEW r \in W, r \in RuleIds, SoundRule(r),
         rrule'[r].is = "row", UNCHANGED sched, \A o \in Sessions \ {q} : call'[o] = call[o],
         Owes(q, r)' => call'[q].wants[r] = Wanted(rrule'[r]),
         ~Owes(q, r)' => sched[r] = Wanted(rrule'[r])
  PROVE  SoundRule(r)'
<1>1. boot \in RecurringBoot
  BY DEF TypedRecurring
<1>2. /\ boot'.at = boot.at /\ boot'.left = boot.left /\ boot'.found = boot.found
      /\ r \notin boot'.clean
  BY <1>1 DEF Write, RecurringBoot
<1>3. \A o \in Sessions \ {q} : Owes(o, r)' <=> Owes(o, r)
  BY DEF Owes
<1>4. boot.at # "idle" => r \in disturbed'
  BY DEF Write
<1>5. r \notin disturbed' => \A o \in Sessions \ {q} : ~Owes(o, r)
  BY DEF Write
<1>6. FreeIsMute(r)' /\ BootVouches(r)'
  BY <1>2 DEF FreeIsMute, BootVouches
<1>7. BootKnows(r)'
  BY <1>2, <1>4 DEF BootKnows, SoundRule
<1>8. InLine(r)'
  BY <1>3, <1>5 DEF InLine
<1> QED
  BY <1>6, <1>7, <1>8 DEF SoundRule

\* Of the others a request that writes W changes nothing.
LEMMA RuleBeside ==
  ASSUME TypedRecurring, NEW q \in Sessions, NEW W, Write(q, W), NEW r \in RuleIds \ W, SoundRule(r),
         rrule'[r] = rrule[r], sched'[r] = sched[r], \A o \in Sessions \ {q} : call'[o] = call[o],
         ~Owes(q, r), ~Owes(q, r)'
  PROVE  SoundRule(r)'
<1>1. boot \in RecurringBoot
  BY DEF TypedRecurring
<1>2. /\ boot'.at = boot.at /\ boot'.left = boot.left /\ boot'.found = boot.found
      /\ boot'.wants = boot.wants /\ (r \in boot'.clean <=> r \in boot.clean)
  BY <1>1 DEF Write, RecurringBoot
<1>3. r \in disturbed' <=> r \in disturbed
  BY DEF Write
<1>4. \A o \in Sessions \ {q} : Owes(o, r)' <=> Owes(o, r)
  BY DEF Owes
<1>5. SameFor(r)
  BY <1>2, <1>3, <1>4 DEF SameFor
<1> QED
  BY <1>5, RuleStays

\* A request in which nothing is owed before or after leaves the rest as it was.
LEMMA RuleAside ==
  ASSUME NEW q \in Sessions, \A o \in Sessions \ {q} : call'[o] = call[o],
         NEW r \in RuleIds, SoundRule(r), ~Owes(q, r), ~Owes(q, r)', UNCHANGED <<sched, boot, disturbed>>,
         rrule'[r] \in {rrule[r], [NoRecurring EXCEPT !.is = "gone"]}
  PROVE  SoundRule(r)'
<1>1. CASE rrule'[r] = rrule[r]
  <2>1. \A o \in Sessions \ {q} : Owes(o, r)' <=> Owes(o, r)
    BY DEF Owes
  <2>2. SameFor(r)
    BY <1>1, <2>1 DEF SameFor
  <2> QED
    BY <2>2, RuleStays
<1>2. CASE rrule'[r] = [NoRecurring EXCEPT !.is = "gone"]
  BY <1>2, RuleGone DEF NoRecurring
<1> QED
  BY <1>1, <1>2

LEMMA StepSoundRule == RecurInv /\ [NextRecurring]_recurVars => \A r \in RuleIds : SoundRule(r)'
<1> SUFFICES ASSUME RecurInv, [NextRecurring]_recurVars, NEW r \in RuleIds
             PROVE  SoundRule(r)'
  OBVIOUS
<1>1. /\ TypedRecurring /\ SoundRule(r)
      /\ rrule \in [RuleIds -> RecurringRow] /\ call \in [Sessions -> RecurringCall]
      /\ sched \in [RuleIds -> Schedule] /\ boot \in RecurringBoot
  BY DEF RecurInv, TypedRecurring
<1>2. ASSUME NEW q \in Sessions, NEW c, call' = [call EXCEPT ![q] = c]
      PROVE  call'[q] = c /\ \A o \in Sessions \ {q} : call'[o] = call[o]
  BY <1>1, <1>2
<1>3. ASSUME NEW q \in Sessions, NEW c, call' = [call EXCEPT ![q] = c], c.at # "sync",
             call[q].at # "sync", UNCHANGED <<rrule, sched, boot, disturbed>>
      PROVE  SoundRule(r)'
  BY <1>1, <1>2, <1>3, RuleAside DEF Owes
<1>4. NoCall.at = "idle" /\ NoCall.left = {}
  BY DEF NoCall
<1>5. CASE UNCHANGED recurVars
  <2>1. SameFor(r)
    BY <1>5 DEF SameFor, recurVars, Owes
  <2> QED
    BY <1>1, <2>1, RuleStays
<1>6. ASSUME NEW q \in Sessions, NEW c, Accept(q, c), c.at # "sync" PROVE SoundRule(r)'
  BY <1>3, <1>6 DEF Accept, tables
<1>7. ASSUME NEW q \in Sessions,
             ReceiveCreate(q) \/ ReceiveUpdate(q) \/ ReceiveDelete(q) \/ ReceiveTemplateDelete(q)
      PROVE  SoundRule(r)'
  BY <1>6, <1>7 DEF ReceiveCreate, ReceiveUpdate, ReceiveDelete, ReceiveTemplateDelete, NoCall
<1>8. ASSUME NEW q \in Sessions, CheckRule(q) \/ RefusedByDatabase(q) PROVE SoundRule(r)'
  <2>1. call[q].at # "sync" /\ [call[q] EXCEPT !.at = "write"].at # "sync"
    BY <1>1, <1>8 DEF CheckRule, RefusedByDatabase, RecurringCall
  <2>2. PICK c : c.at # "sync" /\ call' = [call EXCEPT ![q] = c]
    BY <1>4, <1>8, <2>1 DEF CheckRule, RefusedByDatabase, CallGoes
  <2> QED
    BY <1>3, <1>8, <2>1, <2>2 DEF CheckRule, RefusedByDatabase, OnlyReads, tables
<1>9. ASSUME NEW q \in Sessions, NEW s \in RuleIds, NEW x, x.is = "row", call[q].at = "write",
             rrule' = [rrule EXCEPT ![s] = x], Write(q, {s}), UNCHANGED sched,
             CallGoes(q, [NoCall EXCEPT !.at = "sync", !.left = {s},
                                        !.wants = [Nothing EXCEPT ![s] = Wanted(x)]])
      PROVE  SoundRule(r)'
  <2> DEFINE c == [NoCall EXCEPT !.at = "sync", !.left = {s}, !.wants = [Nothing EXCEPT ![s] = Wanted(x)]]
  <2>1. c.at = "sync" /\ c.left = {s} /\ c.wants[s] = Wanted(x)
    BY DEF NoCall, Nothing
  <2>2. call' = [call EXCEPT ![q] = c]
    BY <1>9 DEF CallGoes
  <2> HIDE DEF c
  <2>3. call'[q] = c /\ \A o \in Sessions \ {q} : call'[o] = call[o]
    BY <1>2, <2>2
  <2>4. CASE r = s
    <3>1. rrule'[r] = x /\ Owes(q, r)'
      BY <1>1, <1>9, <2>1, <2>3, <2>4 DEF Owes
    <3>2. call'[q].wants[r] = Wanted(rrule'[r])
      BY <2>1, <2>3, <2>4, <3>1
    <3> QED
      BY <1>1, <1>9, <2>3, <2>4, <3>1, <3>2, RuleWritten
  <2>5. CASE r # s
    <3>1. rrule'[r] = rrule[r] /\ ~Owes(q, r) /\ ~Owes(q, r)'
      BY <1>1, <1>9, <2>1, <2>3, <2>5 DEF Owes
    <3> QED
      BY <1>1, <1>9, <2>3, <2>5, <3>1, RuleBeside
  <2> QED
    BY <2>4, <2>5

<1>10. ASSUME NEW q \in Sessions, InsertRecurring(q) PROVE SoundRule(r)'
  <2>1. call[q].rule.is = "row"
    BY <1>10 DEF InsertRecurring, RecurInv, HoldsARow
  <2> QED
    BY <1>9, <1>10, <2>1 DEF InsertRecurring
<1>11. ASSUME NEW q \in Sessions, UpdateRecurring(q) PROVE SoundRule(r)'
  <2> DEFINE s == call[q].id
             new == Merge(rrule[s], call[q].patch)
  <2>1. /\ call[q].at = "write" /\ s \in RecurringRows /\ rrule' = [rrule EXCEPT ![s] = new]
        /\ Write(q, {s})
        /\ CallGoes(q, [NoCall EXCEPT !.at = "sync", !.left = {s},
                                 !.wants = [Nothing EXCEPT ![s] = Wanted(new)]])
        /\ UNCHANGED <<events, templates, sched>>
    BY <1>11 DEF UpdateRecurring
  <2>2. s \in RuleIds /\ new.is = "row"
    BY <1>1, <2>1 DEF Merge, RecurringRows, RecurringRow
  <2> HIDE DEF s, new
  <2> QED
    BY <1>9, <2>1, <2>2
<1>12. ASSUME NEW q \in Sessions, DuplicateEvent(q) PROVE SoundRule(r)'
  <2>0. PICK e \in events, copy \in EventIds \ events, dated \in SUBSET RuleIds :
          \E from \in Copies(e) : Duplicated(q, copy, dated, from, e)
    BY <1>12, Duplicates
  <2>1. PICK from \in Copies(e) : Duplicated(q, copy, dated, from, e)
    BY <2>0
  <2> DEFINE made == {s \in RuleIds : from[s] # None}
             new == [s \in RuleIds |-> IF s \in made THEN CopyOf(rrule[from[s]], copy, s \in dated)
                                       ELSE rrule[s]]
             due == DueCopies(new, made)
             wants == [s \in RuleIds |-> IF s \in due THEN new[s].cron ELSE None]
             c == IF due = {} THEN NoCall
                  ELSE [NoCall EXCEPT !.at = "sync", !.left = due, !.wants = wants]
  <2>2. /\ call[q].at = "idle" /\ rrule' = new /\ Write(q, made)
        /\ call' = [call EXCEPT ![q] = c] /\ UNCHANGED sched
    BY <2>1 DEF Duplicated, createDuplicateGraph
  <2>3. \A s \in made : rrule[s].is = "free" /\ from[s] \in RecurringRows
    BY DEF Copies, SourceRules
  <2>4. \A s \in made : new[s].is = "row"
    BY <1>1, <2>3 DEF CopyOf, RecurringRows, RecurringRow
  <2>5. /\ \A s \in due : s \in made /\ wants[s] = Wanted(new[s])
        /\ \A s \in made \ due : Wanted(new[s]) = None
    BY <2>4 DEF DueCopies, Wanted
  <2>6. r \notin made => new[r] = rrule[r]
    OBVIOUS
  <2> HIDE DEF made, new, due, wants
  <2>7. (c.at = "sync" /\ r \in c.left) <=> r \in due
    BY DEF NoCall
  <2>8. r \in due => c.wants[r] = wants[r]
    BY DEF NoCall
  <2> HIDE DEF c
  <2>9. call'[q] = c /\ \A o \in Sessions \ {q} : call'[o] = call[o]
    BY <1>2, <2>2
  <2>10. ~Owes(q, r) /\ (Owes(q, r)' <=> r \in due)
    BY <2>2, <2>7, <2>9 DEF Owes
  <2>11. CASE r \in made
    <3>1. rrule'[r].is = "row" /\ sched[r] = None
      BY <1>1, <2>2, <2>3, <2>4, <2>11 DEF SoundRule, FreeIsMute
    <3>2. Owes(q, r)' => call'[q].wants[r] = Wanted(rrule'[r])
      BY <2>2, <2>5, <2>8, <2>9, <2>10
    <3>3. ~Owes(q, r)' => sched[r] = Wanted(rrule'[r])
      BY <2>2, <2>5, <2>10, <2>11, <3>1
    <3> QED
      BY <1>1, <2>2, <2>9, <2>11, <3>1, <3>2, <3>3, RuleWritten
  <2>12. CASE r \notin made
    <3>1. ~Owes(q, r)' /\ rrule'[r] = rrule[r]
      BY <2>2, <2>5, <2>6, <2>10, <2>12
    <3> QED
      BY <1>1, <2>2, <2>9, <2>10, <2>12, <3>1, RuleBeside
  <2> QED
    BY <2>11, <2>12
<1>13. ASSUME NEW W, Gone(W) PROVE rrule'[r] \in {rrule[r], [NoRecurring EXCEPT !.is = "gone"]}
  BY <1>13 DEF Gone
<1>14. ASSUME NEW q \in Sessions, EraseRule(q) PROVE SoundRule(r)'
  <2> DEFINE s == call[q].id
  <2>1. PICK c : /\ call' = [call EXCEPT ![q] = c]
                 /\ \/ s \in RecurringRows /\ Gone({s}) /\ c.left \subseteq {s}
                    \/ UNCHANGED rrule /\ c = NoCall
    <3>1. [NoCall EXCEPT !.at = "sync", !.left = {s}].left \subseteq {s}
      BY DEF NoCall
    <3> QED
      BY <1>4, <1>14, <3>1 DEF EraseRule, CallGoes
  <2>2. UNCHANGED <<sched, boot, disturbed>> /\ call[q].at = "erase"
    BY <1>14 DEF EraseRule
  <2>3. call'[q] = c /\ \A o \in Sessions \ {q} : call'[o] = call[o]
    BY <1>2, <2>1
  <2>4. CASE rrule'[r].is = "gone"
    BY <1>1, <2>2, <2>4, RuleGone
  <2>5. CASE rrule'[r].is # "gone"
    <3>1. rrule'[r] = rrule[r] /\ ~Owes(q, r)
      BY <1>13, <2>1, <2>2, <2>5 DEF Owes, NoRecurring
    <3>2. ~(c.at = "sync" /\ r \in c.left)
      BY <1>4, <2>1, <2>5 DEF Gone, NoRecurring
    <3>3. ~Owes(q, r)'
      BY <2>3, <3>2 DEF Owes
    <3> QED
      BY <1>1, <2>2, <2>3, <3>1, <3>3, RuleAside
  <2> QED
    BY <2>4, <2>5
<1>15. ASSUME NEW q \in Sessions, EraseTemplate(q) PROVE SoundRule(r)'
  <2>1. call' = [call EXCEPT ![q] = NoCall] /\ UNCHANGED <<sched, boot, disturbed>> /\ call[q].at = "template"
    BY <1>15 DEF EraseTemplate, CallGoes
  <2>2. rrule'[r] \in {rrule[r], [NoRecurring EXCEPT !.is = "gone"]}
    BY <1>13, <1>15 DEF EraseTemplate
  <2>3. call'[q] = NoCall /\ \A o \in Sessions \ {q} : call'[o] = call[o]
    BY <1>2, <2>1
  <2> QED
    BY <1>1, <1>4, <2>1, <2>2, <2>3, RuleAside DEF Owes
<1>16. CASE EraseEvent
  <2>1. UNCHANGED <<sched, boot, disturbed, call>>
    BY <1>16 DEF EraseEvent
  <2>2. rrule'[r] \in {rrule[r], [NoRecurring EXCEPT !.is = "gone"]}
    BY <1>13, <1>16 DEF EraseEvent
  <2>3. CASE rrule'[r] = rrule[r]
    <3>1. SameFor(r)
      BY <2>1, <2>3 DEF SameFor, Owes
    <3> QED
      BY <1>1, <3>1, RuleStays
  <2>4. CASE rrule'[r] # rrule[r]
    BY <1>1, <2>1, <2>2, <2>4, RuleGone DEF NoRecurring
  <2> QED
    BY <2>3, <2>4
<1>17. ASSUME NEW q \in Sessions, SyncScheduler(q) PROVE SoundRule(r)'
  <2>1. PICK s \in call[q].left :
    /\ call[q].at = "sync" /\ sched' = [sched EXCEPT ![s] = call[q].wants[s]]
    /\ CallGoes(q, IF call[q].left = {s} THEN NoCall ELSE [call[q] EXCEPT !.left = @ \ {s}])
    /\ UNCHANGED <<rrule, boot, disturbed>>
    BY <1>17 DEF SyncScheduler, tables
  <2> DEFINE c == IF call[q].left = {s} THEN NoCall ELSE [call[q] EXCEPT !.left = @ \ {s}]
  <2>2. /\ (c.at = "sync" /\ r \in c.left) <=> r \in call[q].left \ {s}
        /\ r \in call[q].left \ {s} => c.wants = call[q].wants
    BY <1>1, <2>1 DEF RecurringCall, NoCall
  <2>3. call' = [call EXCEPT ![q] = c]
    BY <2>1 DEF CallGoes
  <2> HIDE DEF c
  <2>4. call'[q] = c /\ \A o \in Sessions \ {q} : call'[o] = call[o]
    BY <1>2, <2>3
  <2>5. \A o \in Sessions \ {q} : Owes(o, r)' <=> Owes(o, r)
    BY <2>4 DEF Owes
  <2>6. /\ Owes(q, r) <=> r \in call[q].left
        /\ Owes(q, r)' <=> r \in call[q].left \ {s}
    BY <2>1, <2>2, <2>4 DEF Owes
  <2>7. CASE r # s
    <3>1. sched'[r] = sched[r]
      BY <1>1, <2>1, <2>7
    <3>2. \A o \in Sessions : /\ Owes(o, r)' <=> Owes(o, r)
                              /\ Owes(o, r) => call'[o].wants[r] = call[o].wants[r]
      BY <2>2, <2>4, <2>5, <2>6, <2>7
    <3>3. SameFor(r)
      BY <2>1, <3>1, <3>2 DEF SameFor
    <3> QED
      BY <1>1, <3>3, RuleStays
  <2>8. CASE r = s
    <3>1. sched'[r] = call[q].wants[r] /\ Owes(q, r) /\ ~Owes(q, r)'
      BY <1>1, <2>1, <2>6, <2>8
    <3>2. /\ Wanted(rrule[r])' = Wanted(rrule[r])
          /\ IsDue(r)' <=> IsDue(r)
          /\ rrule'[r] = rrule[r]
      BY <2>1 DEF Wanted, IsDue
    <3>3. rrule[r].is # "free"
      BY <1>1, <3>1 DEF SoundRule, FreeIsMute
    <3>4. FreeIsMute(r)'
      BY <3>2, <3>3 DEF FreeIsMute
    <3>5. InLine(r)'
      <4>1. SUFFICES ASSUME rrule[r].is = "row", r \notin disturbed PROVE InLine(r)'
        BY <2>1, <3>2 DEF InLine
      <4>2. \A o \in Sessions : Owes(o, r) => call[o].wants[r] = Wanted(rrule[r])
        BY <1>1, <4>1 DEF SoundRule, InLine
      <4>3. \A o \in Sessions : Owes(o, r)' => Owes(o, r) /\ call'[o] = call[o]
        BY <2>4, <2>5, <3>1
      <4> QED
        BY <3>1, <3>2, <4>2, <4>3 DEF InLine
    <3>6. BootKnows(r)'
      BY <1>1, <2>1, <3>2 DEF SoundRule, BootKnows
    <3>7. BootVouches(r)'
      BY <1>1, <2>1, <3>1, <3>2 DEF SoundRule, BootVouches
    <3> QED
      BY <3>4, <3>5, <3>6, <3>7 DEF SoundRule
  <2> QED
    BY <2>7, <2>8
<1>18. ASSUME NEW q \in Sessions, SyncLost(q) PROVE SoundRule(r)'
  <2>1. /\ disturbed' = disturbed \cup call[q].left /\ call' = [call EXCEPT ![q] = NoCall]
        /\ UNCHANGED <<rrule, sched, boot>>
    BY <1>18 DEF SyncLost, tables
  <2>2. call'[q] = NoCall /\ \A o \in Sessions \ {q} : call'[o] = call[o]
    BY <1>2, <2>1
  <2>3. ~Owes(q, r)' /\ \A o \in Sessions \ {q} : Owes(o, r)' <=> Owes(o, r)
    BY <1>4, <2>2 DEF Owes
  <2>4. CASE r \in call[q].left
    <3>1. /\ Wanted(rrule[r])' = Wanted(rrule[r])
          /\ IsDue(r)' <=> IsDue(r)
      BY <2>1 DEF Wanted, IsDue
    <3>2. FreeIsMute(r)'
      BY <1>1, <2>1, <2>3 DEF SoundRule, FreeIsMute
    <3>3. InLine(r)'
      BY <2>1, <2>4 DEF InLine
    <3>4. BootKnows(r)'
      BY <1>1, <2>1, <3>1 DEF SoundRule, BootKnows
    <3>5. BootVouches(r)'
      BY <1>1, <2>1, <2>3, <3>1 DEF SoundRule, BootVouches
    <3> QED
      BY <3>2, <3>3, <3>4, <3>5 DEF SoundRule
  <2>5. CASE r \notin call[q].left
    <3>1. ~Owes(q, r)
      BY <2>5 DEF Owes
    <3>2. SameFor(r)
      BY <2>1, <2>2, <2>3, <2>5, <3>1 DEF SameFor
    <3> QED
      BY <1>1, <3>2, RuleStays
  <2> QED
    BY <2>4, <2>5
<1>19. ASSUME UNCHANGED <<tables, call>>
       PROVE  /\ Wanted(rrule[r])' = Wanted(rrule[r])
              /\ IsDue(r)' <=> IsDue(r)
              /\ rrule'[r] = rrule[r]
              /\ \A q \in Sessions : (Owes(q, r)' <=> Owes(q, r)) /\ call'[q] = call[q]
  BY <1>19 DEF tables, Wanted, IsDue, Owes
<1>20. ASSUME UNCHANGED <<tables, call, sched, disturbed>> PROVE InLine(r)'
  BY <1>1, <1>19, <1>20 DEF SoundRule, InLine
<1>21. CASE BootReads
  <2> DEFINE active == {s \in RecurringRows : rrule[s].active /\ rrule[s].trigger = "recurring"}
             left == {s \in active : rrule[s].cron # None}
             wants == [s \in RuleIds |-> Wanted(rrule[s])]
             clean == {s \in RuleIds : /\ ~\E q \in Sessions : Owes(q, s)
                                       /\ s \in active => rrule[s].cron # None}
  <2>1. /\ boot' = [at |-> "upsert", found |-> active, left |-> left, wants |-> wants, clean |-> clean]
        /\ UNCHANGED <<tables, sched, call, disturbed>>
    BY <1>21 DEF BootReads
  <2>2. /\ r \in active <=> rrule[r].is = "row" /\ IsDue(r)
        /\ r \in left <=> r \in active /\ rrule[r].cron # None
        /\ wants[r] = Wanted(rrule[r])
        /\ r \in clean => /\ \A q \in Sessions : ~Owes(q, r)
                          /\ r \in active => rrule[r].cron # None
    BY DEF RecurringRows, IsDue
  <2> HIDE DEF active, left, wants, clean
  <2>3. /\ boot'.at = "upsert" /\ boot'.found = active /\ boot'.left = left
        /\ boot'.wants = wants /\ boot'.clean = clean
    BY <2>1
  <2>4. FreeIsMute(r)'
    BY <1>1, <1>19, <2>1, <2>2, <2>3 DEF SoundRule, FreeIsMute
  <2>5. InLine(r)'
    BY <1>20, <2>1
  <2>6. BootKnows(r)'
    BY <1>19, <2>1, <2>2, <2>3 DEF BootKnows
  <2>7. BootVouches(r)'
    BY <1>19, <2>1, <2>2, <2>3 DEF BootVouches
  <2> QED
    BY <2>4, <2>5, <2>6, <2>7 DEF SoundRule
<1>22. CASE BootLists
  <2> DEFINE left == {s \in RuleIds : sched[s] # None} \ boot.found
  <2>1. /\ boot.at = "upsert" /\ boot.left = {} /\ UNCHANGED <<tables, sched, call, disturbed>>
        /\ boot' = [boot EXCEPT !.at = "prune", !.left = left]
    BY <1>22 DEF BootLists
  <2>2. /\ r \in left => r \notin boot.found
        /\ sched[r] # None /\ r \notin boot.found => r \in left
    OBVIOUS
  <2> HIDE DEF left
  <2>3. /\ boot'.at = "prune" /\ boot'.left = left /\ boot'.found = boot.found
        /\ boot'.wants = boot.wants /\ boot'.clean = boot.clean
    BY <1>1, <2>1 DEF RecurringBoot
  <2>4. FreeIsMute(r)'
    BY <1>1, <1>19, <2>1, <2>3 DEF SoundRule, FreeIsMute
  <2>5. InLine(r)'
    BY <1>20, <2>1
  <2>6. BootKnows(r)'
    BY <1>1, <1>19, <2>1, <2>2, <2>3 DEF SoundRule, BootKnows
  <2>7. BootVouches(r)'
    <3>1. SUFFICES ASSUME rrule[r].is = "row", r \in boot.clean PROVE BootVouches(r)'
      BY <1>19, <2>1, <2>3 DEF BootVouches
    <3>2. /\ \A q \in Sessions : ~Owes(q, r)
          /\ r \notin boot.found \/ sched[r] = Wanted(rrule[r])
          /\ r \in boot.found <=> IsDue(r)
      BY <1>1, <2>1, <3>1 DEF SoundRule, BootKnows, BootVouches
    <3>3. r \notin boot.found => Wanted(rrule[r]) = None
      BY <3>2 DEF IsDue, Wanted
    <3>4. sched[r] = Wanted(rrule[r]) \/ r \in left
      BY <2>2, <3>2, <3>3
    <3> QED
      BY <1>19, <2>1, <2>3, <3>2, <3>4 DEF BootVouches
  <2> QED
    BY <2>4, <2>5, <2>6, <2>7 DEF SoundRule
<1>23. CASE BootUpserts \/ BootPrunes
  <2>1. PICK s \in boot.left :
          /\ \/ boot.at = "upsert" /\ sched' = [sched EXCEPT ![s] = boot.wants[s]]
             \/ boot.at = "prune" /\ sched' = [sched EXCEPT ![s] = None]
          /\ boot' = [boot EXCEPT !.left = @ \ {s}]
          /\ UNCHANGED <<tables, call, disturbed>>
    BY <1>23 DEF BootUpserts, BootPrunes
  <2>2. /\ boot'.at = boot.at /\ boot'.left = boot.left \ {s} /\ boot'.found = boot.found
        /\ boot'.wants = boot.wants /\ boot'.clean = boot.clean /\ boot.left \subseteq RuleIds
    BY <1>1, <2>1 DEF RecurringBoot
  <2>3. CASE r # s
    <3>1. sched'[r] = sched[r] /\ (r \in boot'.left <=> r \in boot.left)
      BY <1>1, <2>1, <2>2, <2>3
    <3>2. SameFor(r)
      BY <1>19, <2>1, <2>2, <3>1 DEF SameFor
    <3> QED
      BY <1>1, <3>2, RuleStays
  <2>4. CASE r = s
    <3>1. /\ r \in boot.left /\ r \notin boot'.left
          /\ boot.at = "upsert" => sched'[r] = boot.wants[r]
          /\ boot.at = "prune" => sched'[r] = None
          /\ boot.at \in {"upsert", "prune"}
      BY <1>1, <2>1, <2>2, <2>4
    <3>2. boot.at = "prune" => r \notin boot.found
      BY <1>1, <3>1 DEF SoundRule, BootKnows
    <3>3. ASSUME rrule[r].is = "row", r \notin disturbed \/ r \in boot.clean
          PROVE  sched'[r] = Wanted(rrule[r])
      <4>1. /\ boot.wants[r] = Wanted(rrule[r])
            /\ r \in boot.found <=> IsDue(r)
        BY <1>1, <3>1, <3>3 DEF SoundRule, BootKnows
      <4>2. ~IsDue(r) => Wanted(rrule[r]) = None
        BY DEF IsDue, Wanted
      <4> QED
        BY <3>1, <3>2, <4>1, <4>2
    <3>4. FreeIsMute(r)'
      BY <1>1, <1>19, <2>1, <3>1 DEF SoundRule, FreeIsMute
    <3>5. InLine(r)'
      BY <1>1, <1>19, <2>1, <3>3 DEF SoundRule, InLine
    <3>6. BootKnows(r)'
      BY <1>1, <1>19, <2>1, <2>2, <3>1 DEF SoundRule, BootKnows
    <3>7. BootVouches(r)'
      BY <1>1, <1>19, <2>1, <2>2, <3>1, <3>3 DEF SoundRule, BootVouches
    <3> QED
      BY <3>4, <3>5, <3>6, <3>7 DEF SoundRule
  <2> QED
    BY <2>3, <2>4
<1>24. CASE BootEnds \/ BootDies
  <2>1. /\ boot.at # "idle" /\ boot'.at = "idle" /\ UNCHANGED <<tables, sched, call>>
        /\ \/ boot.at = "prune" /\ boot.left = {} /\ disturbed' = disturbed \ boot.clean
           \/ UNCHANGED disturbed
    BY <1>24 DEF BootEnds, BootDies, NoBoot
  <2>2. FreeIsMute(r)'
    BY <1>1, <1>19, <2>1 DEF SoundRule, FreeIsMute
  <2>3. InLine(r)'
    <3>1. CASE UNCHANGED disturbed
      BY <1>20, <2>1, <3>1
    <3>2. CASE r \notin boot.clean /\ disturbed' = disturbed \ boot.clean
      BY <1>1, <1>19, <2>1, <3>2 DEF SoundRule, InLine
    <3>3. CASE r \in boot.clean /\ boot.at = "prune" /\ boot.left = {}
      <4>1. rrule[r].is = "row" => /\ \A q \in Sessions : ~Owes(q, r)
                                   /\ sched[r] = Wanted(rrule[r])
        BY <1>1, <3>3 DEF SoundRule, BootVouches
      <4> QED
        BY <1>19, <2>1, <4>1 DEF InLine
    <3> QED
      BY <2>1, <3>1, <3>2, <3>3
  <2>4. BootKnows(r)' /\ BootVouches(r)'
    BY <2>1 DEF BootKnows, BootVouches
  <2> QED
    BY <2>2, <2>3, <2>4 DEF SoundRule
<1> QED
  BY <1>5, <1>7, <1>8, <1>10, <1>11, <1>12, <1>14, <1>15, <1>16, <1>17, <1>18, <1>21, <1>22,
     <1>23, <1>24 DEF NextRecurring

LEMMA InitRecurInv == InitRecurring => RecurInv
<1> SUFFICES ASSUME InitRecurring PROVE RecurInv
  OBVIOUS
<1>1. TypedRecurring
  <2>1. /\ events = {Source} /\ templates = {Source} \X Templates
        /\ rrule = [r \in RuleIds |-> NoRecurring] /\ sched = [r \in RuleIds |-> None]
        /\ call = [q \in Sessions |-> NoCall] /\ boot = NoBoot
        /\ callsTaken = 0 /\ outages = 0 /\ disturbed = {}
    BY DEF InitRecurring
  <2> QED
    BY <2>1, NothingRecurs, RecurringAssumption DEF TypedRecurring, Schedule
<1>2. ASSUME NEW r \in RuleIds PROVE SoundRule(r)
  <2>1. /\ rrule[r].is = "free" /\ sched[r] = None /\ boot.at = "idle"
        /\ \A q \in Sessions : ~Owes(q, r)
    BY DEF InitRecurring, NoRecurring, NoBoot, NoCall, Owes
  <2> QED
    BY <2>1 DEF SoundRule, FreeIsMute, InLine, BootKnows, BootVouches
<1>3. HoldsARow
  BY DEF InitRecurring, HoldsARow, NoCall
<1> QED
  BY <1>1, <1>2, <1>3 DEF RecurInv

LEMMA RecurAlways == SpecRecurring => []RecurInv
<1>1. RecurInv /\ [NextRecurring]_recurVars => RecurInv'
  BY StepRecurTyped, StepHoldsARow, StepSoundRule DEF RecurInv
<1> QED
  BY <1>1, InitRecurInv, PTL DEF SpecRecurring

\* The recurring rules, their schedulers and the requests are always of their types.
THEOREM RecurringTyped == SpecRecurring => []TypeOKRecurring
<1>1. RecurInv => TypeOKRecurring
  BY RecurParts DEF RecurInv
<1> QED
  BY <1>1, RecurAlways, PTL

\* Whatever requests overlap and whenever the process dies or boots, a rule that no other
\* write overtook and no failure cut off is on the schedule as its row says.
THEOREM ScheduleIsTrue == SpecRecurring => []RecurringOnTime
<1>1. RecurInv => RecurringOnTime
  BY DEF RecurInv, SoundRule, InLine, RecurringOnTime, RecurringRows
<1> QED
  BY <1>1, RecurAlways, PTL
=============================================================================
