--------------------------- MODULE FolderTreeProps ---------------------------
(* What the folders promise. *)
EXTENDS FolderTree

\* The type of every variable of the folders; a row's parent is a row.
TypeOKTree ==
  /\ folders \subseteq born /\ born \subseteq Ids
  /\ parent \in [Ids -> Parents] /\ scope \in [Ids -> Scopes]
  /\ \A x \in folders : parent[x] \in folders \cup {Root}
  /\ requested \in Nat /\ clash \in BOOLEAN /\ carried \in BOOLEAN
  /\ req \in [Requests ->
       [at : {"idle", "climb", "write", "lift", "delete"},
        id : Parents, to : Parents, cur : Parents, scope : Scopes,
        depth : 0 .. MaxDepth,
        seen : SUBSET Ids, stale : BOOLEAN]]

\* Every set of folders has one whose parent is not in the set: none is inside itself.
Acyclic == \A S \in SUBSET folders : S # {} => \E x \in S : parent[x] \notin S

\* tree() shows what hangs from a root, so folders in a cycle vanish from every screen.
\* No sequence of creations, moves and deletions makes one, unless a request wrote after
\* the tree it had walked was changed under it.
NoneVanishes == clash \/ Acyclic

\* How far n steps towards the root lead.
climbed[n \in 0 .. MaxDepth] ==
  [x \in folders |-> IF n = 0 THEN x
                     ELSE LET y == climbed[n - 1][x] IN IF y = Root THEN Root ELSE parent[y]]
Shallow == \A x \in folders : climbed[MaxDepth][x] = Root

\* No folder is deeper than MAX_DEPTH, the limit climb checks for the folder it moves or
\* creates; only a move that carries other folders along, whose depth nothing measures,
\* or a tree changed during the walk, makes one.
DeepOnlyIfCarried == clash \/ carried \/ Shallow
=============================================================================
