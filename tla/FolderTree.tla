------------------------------ MODULE FolderTree ------------------------------
(***************************************************************************)
(* The folders that organise events, templates and rules                   *)
(* (application/folder_module/folder.service.ts and its repository).       *)
(*                                                                         *)
(* Nothing in the database keeps the parents from forming a cycle or a     *)
(* tree from growing too deep: create and update climb from the new parent *)
(* to the root, with one query for each level, and write afterwards.  The  *)
(* walk is not in a transaction, so the tree may change under it.          *)
(***************************************************************************)
EXTENDS Naturals

CONSTANTS
  Ids,          \* ids of folders; a deleted folder's id is never used again
  Requests,     \* requests in flight
  Scopes,       \* [type: resourceType, home: the event, or the owner's dashboard]
  EventHomes,   \* the homes that are events
  MaxDepth,     \* MAX_DEPTH
  Root,         \* parentId null
  MaxMoves      \* bound: requests received

ASSUME FolderAssumption ==
  /\ Root \notin Ids
  /\ MaxDepth \in Nat \ {0} /\ MaxMoves \in Nat

VARIABLES
  folders,      \* the rows of the table
  born,         \* ids given out so far
  parent, scope,   \* columns of each row (the order among siblings is left out)
  req,          \* req[q]: the locals of request q
  requested,    \* requests received
  clash,        \* history: a write went ahead though the tree it had read was changed
  carried       \* history: a folder was moved with folders inside

rows == <<folders, born, parent, scope>>
treeVars == <<rows, req, requested, clash, carried>>

\* assertScopeValid.
ValidScope(s) ==
  /\ s.type = "event" => s.home \notin EventHomes
  /\ s.type = "automation_rule" => s.home \in EventHomes

ASSUME ScopeAssumption == \E s \in Scopes : ValidScope(s)

Parents == Ids \cup {Root}
AnyScope == CHOOSE s \in Scopes : ValidScope(s)
Idle == [at |-> "idle", id |-> Root, to |-> Root, scope |-> AnyScope, cur |-> Root, depth |-> 0,
         seen |-> {}, stale |-> FALSE]     \* history: the walk so far; changed under it

\* Any folders that requests one at a time could have left, of one scope.
InitTree ==
  /\ born \in SUBSET Ids /\ folders = born
  /\ parent \in [Ids -> Parents] /\ \A x \in Ids \ folders : parent[x] = Root
  /\ \E level \in [folders -> 1 .. MaxDepth] : \A x \in folders :
       IF parent[x] = Root THEN level[x] = 1
       ELSE parent[x] \in folders /\ level[x] = level[parent[x]] + 1
  /\ scope = [x \in Ids |-> AnyScope]
  /\ req = [q \in Requests |-> Idle]
  /\ requested = 0 /\ clash = FALSE /\ carried = FALSE

-----------------------------------------------------------------------------
Receive(q, r) ==
  /\ req[q].at = "idle" /\ requested < MaxMoves
  /\ requested' = requested + 1
  /\ req' = [req EXCEPT ![q] = r]
  /\ UNCHANGED <<rows, clash, carried>>

\* FolderService.create; a create at the root climbs nothing.
StartCreate(q) ==
  \E s \in {t \in Scopes : ValidScope(t)}, p \in Parents :
    Receive(q, [Idle EXCEPT !.at = IF p = Root THEN "write" ELSE "climb",
                            !.to = p, !.cur = p, !.scope = s])

\* FolderService.update with a parentId: findOne, then the walk, which a move to the
\* root does without; a folder cannot be its own parent.
StartMove(q) ==
  \E x \in folders : \E p \in Parents \ {x} :
    Receive(q, [Idle EXCEPT !.at = IF p = Root THEN "write" ELSE "climb",
                            !.id = x, !.to = p, !.cur = p, !.scope = scope[x]])

\* FolderService.delete: findOne.
StartDelete(q) ==
  \E x \in folders :
    Receive(q, [Idle EXCEPT !.at = "lift", !.id = x])

-----------------------------------------------------------------------------
(* climb: each level is a query that checks the scope again. *)

Finds(q) == req[q].cur \in folders /\ scope[req[q].cur] = req[q].scope

ClimbThrough(q) ==
  /\ req[q].at = "climb" /\ req[q].depth < MaxDepth
  /\ req[q].cur # Root /\ Finds(q)
  /\ req' = [req EXCEPT ![q].cur = parent[req[q].cur], ![q].depth = req[q].depth + 1,
                        ![q].seen = req[q].seen \cup {req[q].cur}]
  /\ UNCHANGED <<rows, requested, clash, carried>>
ClimbUp(q) ==
  /\ req[q].at = "climb" /\ req[q].depth < MaxDepth
  /\ req[q].cur \notin {Root, req[q].id} /\ Finds(q)
  /\ req' = [req EXCEPT ![q].cur = parent[req[q].cur], ![q].depth = req[q].depth + 1,
                        ![q].seen = req[q].seen \cup {req[q].cur}]
  /\ UNCHANGED <<rows, requested, clash, carried>>

ClimbEndsLate(q) ==
  /\ req[q].at = "climb" /\ req[q].cur = Root
  /\ req' = [req EXCEPT ![q].at = "write"]
  /\ UNCHANGED <<rows, requested, clash, carried>>
ClimbEnds(q) ==
  /\ req[q].at = "climb" /\ req[q].depth < MaxDepth /\ req[q].cur = Root
  /\ req' = [req EXCEPT ![q].at = "write"]
  /\ UNCHANGED <<rows, requested, clash, carried>>

\* 400: into a folder of its own, or too deep, whatever the last level read says;
\* 404: a level is missing, of another type, or of another home.
ClimbRefused(q) ==
  /\ req[q].at = "climb"
  /\ \/ req[q].depth = MaxDepth
     \/ req[q].cur # Root /\ req[q].cur = req[q].id
     \/ req[q].cur # Root /\ ~Finds(q)
  /\ req' = [req EXCEPT ![q] = Idle]
  /\ UNCHANGED <<rows, requested, clash, carried>>

-----------------------------------------------------------------------------
(* The repository. *)

\* The other requests learn, for the record, that the tree is not what they read.
TreeChanged(q) == [r \in Requests |->
  IF r = q THEN Idle
  ELSE [req[r] EXCEPT !.stale = req[r].at # "idle"]]

Reply(q) == req' = [req EXCEPT ![q] = Idle] /\ UNCHANGED requested

\* A new id, any one; the foreign key refuses a parent that is gone.
FreshId(x) == x = CHOOSE y \in Ids \ born : TRUE
CreateRow(q) ==
  \E x \in Ids \ born :
    /\ FreshId(x)
    /\ req[q].at = "write" /\ req[q].id = Root /\ req[q].to \in folders \cup {Root}
    /\ folders' = folders \cup {x} /\ born' = born \cup {x}
    /\ parent' = [parent EXCEPT ![x] = req[q].to]
    /\ scope' = [scope EXCEPT ![x] = req[q].scope]
    /\ clash' = (clash \/ req[q].stale)
    /\ Reply(q) /\ UNCHANGED carried

MoveRow(q) ==
  LET x == req[q].id IN
  /\ req[q].at = "write" /\ x \in folders /\ req[q].to \in folders \cup {Root}
  /\ parent' = [parent EXCEPT ![x] = req[q].to]
  /\ clash' = (clash \/ req[q].stale)
  /\ carried' = (carried \/ \E y \in folders : parent[y] = x)
  /\ req' = TreeChanged(q)
  /\ UNCHANGED <<folders, born, scope, requested>>

\* The row or its parent is gone: the statement fails.
WriteRefused(q) ==
  /\ req[q].at = "write"
  /\ req[q].id \notin folders \cup {Root} \/ req[q].to \notin folders \cup {Root}
  /\ Reply(q) /\ UNCHANGED <<rows, clash, carried>>

\* delete reads the parent that the folders inside will get ...
ReadLift(q) ==
  /\ req[q].at = "lift"
  /\ req' = [req EXCEPT ![q].at = "delete",
       ![q].to = IF req[q].id \in folders THEN parent[req[q].id] ELSE Root]
  /\ UNCHANGED <<rows, requested, clash, carried>>

Inside(x) == {y \in folders : parent[y] = x}

\* ... and in a transaction gives it to them and removes the row; what still points to
\* the row after that is set to null by its foreign key.
DeleteRow(q) ==
  LET x == req[q].id
      up == IF req[q].to = x THEN Root ELSE req[q].to IN
  /\ req[q].at = "delete" /\ x \in folders
  /\ Inside(x) = {} \/ up \in folders \cup {Root}
  /\ folders' = folders \ {x}
  /\ parent' = [y \in Ids |-> IF y = x THEN Root ELSE IF y \in Inside(x) THEN up ELSE parent[y]]
  /\ clash' = (clash \/ req[q].stale)
  /\ req' = TreeChanged(q)
  /\ UNCHANGED <<born, scope, requested, carried>>

DeleteRefused(q) ==
  /\ req[q].at = "delete"
  /\ \/ req[q].id \notin folders
     \/ Inside(req[q].id) # {} /\ req[q].to \notin folders \cup {Root}
  /\ Reply(q) /\ UNCHANGED <<rows, clash, carried>>

\* A process that dies leaves the request where it was: nothing more is written.
Dies(q) ==
  /\ req[q].at # "idle"
  /\ Reply(q) /\ UNCHANGED <<rows, clash, carried>>

NextTree ==
  \E q \in Requests :
    \/ StartCreate(q) \/ StartMove(q) \/ StartDelete(q)
    \/ ClimbUp(q) \/ ClimbEnds(q) \/ ClimbRefused(q)
    \/ CreateRow(q) \/ MoveRow(q) \/ WriteRefused(q)
    \/ ReadLift(q) \/ DeleteRow(q) \/ DeleteRefused(q) \/ Dies(q)

SpecTree == InitTree /\ [][NextTree]_treeVars
=============================================================================
