----------------------------- MODULE DisplayOrder -----------------------------
(***************************************************************************)
(* The order in which the panel lists things, and its drag and drop        *)
(* (domain/shared/resequence.ts, infra/repositories/shared/order-writes.ts *)
(* and the repositories of events, templates, rules, forms and folders).   *)
(*                                                                         *)
(* Each row has a column `order`, every listing sorts by it and breaks     *)
(* ties by creation.  A request that drags an item reads the listing, then *)
(* writes the rows that change; nothing keeps another request out.         *)
(***************************************************************************)
EXTENDS SequencesExt, Nulls

CONSTANTS
  Items,          \* ids of rows, never used twice
  Old,            \* those that there are at first, in order of creation
  Homes,          \* a listing per folder, or per parent of a folder, and ...
  Top,            \* ... one for what is in none
  Users, Sees,    \* Sees[u]: the events and templates that user u reaches
  Drags,          \* requests in flight
  PageSize,       \* bound: ids in a request to reorder
  MaxChanges      \* bound: requests received

ASSUME OrderAssumption ==
  /\ Old \in Seq(Items) /\ \A i, j \in DOMAIN Old : Old[i] = Old[j] => i = j
  /\ Top \in Homes /\ None \notin Items
  /\ Users # {} /\ Sees \in [Users -> SUBSET Items]
  /\ PageSize \in Nat /\ MaxChanges \in Nat

VARIABLES
  listing,      \* what is listed in this behaviour
  row,          \* its rows
  drag,         \* drag[q]: the locals of request q
  changes

orderVars == <<listing, row, drag, changes>>

Unsorted == {"events", "templates", "rules"}    \* born with order 0
Appended == {"forms", "folders"}                \* born after the last

NoItem == [is |-> "free", home |-> Top, order |-> 0, born |-> 0]
NoDrag == [at |-> "idle", user |-> CHOOSE u \in Users : TRUE, item |-> None, before |-> None,
           home |-> Top, order |-> 0, writes |-> <<>>,
           quiet |-> TRUE]       \* history: no row was written since it began

Place(s, x) == CHOOSE i \in DOMAIN s : s[i] = x

InitOrder ==
  /\ listing \in Unsorted \cup Appended
  /\ row = [x \in Items |->
       IF x \in Range(Old)
       THEN [is |-> "row", home |-> Top, born |-> Place(Old, x),
             order |-> IF listing \in Appended THEN Place(Old, x) - 1 ELSE 0]
       ELSE NoItem]
  /\ drag = [q \in Drags |-> NoDrag] /\ changes = 0

-----------------------------------------------------------------------------
(* The listings. *)

Here(S, h) == {x \in S : row[x].is = "row" /\ row[x].home = h}

Precedes(r, newest, x, y) ==
  \/ r[x].order < r[y].order
  \/ r[x].order = r[y].order /\ IF newest THEN r[x].born > r[y].born ELSE r[x].born < r[y].born

InOrder(S, newest) ==
  CHOOSE s \in SetToSeqs(S) : \A i, j \in DOMAIN s : i < j => Precedes(row, newest, s[i], s[j])

EventsShown(u, h) == InOrder(Here(Sees[u], h), TRUE)
TemplatesShown(u, h) == InOrder(Here(Sees[u], h), TRUE)
RulesShown(h) == InOrder(Here(Items, h), FALSE)

\* A new row has a new id, any one; its homes are Top alone for an event or a form.
FreshItem(x) == x = CHOOSE y \in Items : row[y].is = "free"
Newborn(h, n) == [is |-> "row", home |-> h, order |-> n,
                  born |-> Cardinality({x \in Items : row[x].is # "free"}) + 1]

\* Whoever else is in flight has read rows that are no longer so.
Overtakes(q, d) == drag' = [p \in Drags |->
  IF p = q THEN d ELSE [drag[p] EXCEPT !.quiet = @ /\ drag[p].at = "idle"]]

Begin(q, d) ==
  /\ drag[q].at = "idle" /\ changes < MaxChanges /\ changes' = changes + 1
  /\ drag' = [drag EXCEPT ![q] = d] /\ UNCHANGED <<listing, row>>

\* A request that is one statement, or one transaction.
AtOnce(new) ==
  /\ changes < MaxChanges /\ changes' = changes + 1
  /\ row' = new /\ Overtakes(None, NoDrag) /\ UNCHANGED listing

-----------------------------------------------------------------------------
(* move: the item, then (MoveLists, MoveWrites) the listing it is in and the rows *)
(* whose order changes. *)

Dragging(q, u, x, b) ==
  Begin(q, [NoDrag EXCEPT !.at = "list", !.user = u, !.item = x, !.before = b, !.home = row[x].home])

MoveEvent(q) ==
  \E u \in Users : \E x \in Sees[u], b \in Items \cup {None} :
    listing = "events" /\ row[x].is = "row" /\ Dragging(q, u, x, b)
MoveTemplate(q) ==
  \E u \in Users : \E x \in Sees[u], b \in Items \cup {None} :
    listing = "templates" /\ row[x].is = "row" /\ Dragging(q, u, x, b)
MoveRule(q) ==
  \E x \in Items, b \in Items \cup {None} :
    listing = "rules" /\ row[x].is = "row" /\ Dragging(q, NoDrag.user, x, b)

\* Dropped on itself, it stays; with no anchor, or one that is gone, it goes last.
\* A listing has an id once.
Resequence(current, x, b) ==
  LET without == RemoveFirst(current, x) IN
  IF b = x THEN current
  ELSE InsertAt(without, IF b \in Range(without) THEN Place(without, b) ELSE Len(without) + 1, x)

\* Only the rows whose order is another in the new sequence; of a row that was not
\* listed the old one is not known.
WritesForItem(rows, sequence, x) == [y \in {x} |-> Place(sequence, y) - 1]
WritesFor(rows, sequence, x) ==
  LET place == [y \in Range(sequence) |-> Place(sequence, y) - 1] IN
  [y \in {z \in DOMAIN place : z \notin Range(rows) \/ row[z].order # place[z]} |-> place[y]]

Listed(u, h) == CASE listing = "events" -> EventsShown(u, h)
                  [] listing = "templates" -> TemplatesShown(u, h)
                  [] OTHER -> RulesShown(h)

MoveLists(q) ==
  LET d == drag[q]
      rows == Listed(d.user, d.home) IN
  /\ d.at = "list"
  /\ drag' = [drag EXCEPT ![q] =
       IF d.before # None /\ d.before \notin Range(rows) THEN NoDrag
       ELSE [d EXCEPT !.at = "write", !.writes = WritesFor(rows, Resequence(rows, d.item, d.before), d.item)]]
  /\ UNCHANGED <<listing, row, changes>>

\* One transaction, which a row that is gone undoes.
MoveWrites(q) ==
  LET w == drag[q].writes IN
  /\ drag[q].at = "write"
  /\ IF \A x \in DOMAIN w : row[x].is = "row"
     THEN /\ row' = [x \in Items |-> IF x \in DOMAIN w THEN [row[x] EXCEPT !.order = w[x]] ELSE row[x]]
          /\ Overtakes(q, NoDrag)
     ELSE drag' = [drag EXCEPT ![q] = NoDrag] /\ UNCHANGED row
  /\ UNCHANGED <<listing, changes>>

-----------------------------------------------------------------------------
(* reorder: the ids of a page, in the order they are to have; another's are passed over. *)

Pages == {s \in UNION {[1..n -> Items] : n \in 2..PageSize} : \A i, j \in DOMAIN s : i # j => s[i] # s[j]}
Ordered(S, s) == [x \in Items |->
  IF x \in S \cap Range(s) THEN [row[x] EXCEPT !.order = Place(s, x) - 1] ELSE row[x]]

ReorderEvents == \E u \in Users, h \in Homes, s \in Pages :
  listing = "events" /\ AtOnce(Ordered(Here(Sees[u], h), s))
ReorderTemplates == \E u \in Users, h \in Homes, s \in Pages :
  listing = "templates" /\ AtOnce(Ordered(Here(Sees[u], h), s))
ReorderRules == \E h \in Homes, s \in Pages : listing = "rules" /\ AtOnce(Ordered(Here(Items, h), s))
ReorderForms == \E s \in Pages : listing = "forms" /\ AtOnce(Ordered(Here(Items, Top), s))
ReorderFolders == \E h \in Homes, s \in Pages : listing = "folders" /\ AtOnce(Ordered(Here(Items, h), s))

-----------------------------------------------------------------------------
(* What is created, filed elsewhere or deleted. *)

CreateUnsorted ==
  \E x \in Items, h \in Homes :
    /\ listing \in Unsorted /\ row[x].is = "free" /\ FreshItem(x)
    /\ listing = "events" => h = Top
    /\ AtOnce([row EXCEPT ![x] = Newborn(h, 0)])

\* The order of the row is kept.
FileElsewhere ==
  \E x \in Items, h \in Homes :
    /\ listing \in Unsorted /\ row[x].is = "row" /\ row[x].home # h
    /\ AtOnce([row EXCEPT ![x].home = h])

DeleteItem == \E x \in Items : row[x].is = "row" /\ AtOnce([row EXCEPT ![x].is = "gone"])

\* A folder goes: what was in it, subfolders included, is in its parent, in the order it had.
HomeGoes ==
  \E h \in Homes \ {Top} :
    /\ listing # "forms" /\ Here(Items, h) # {}
    /\ AtOnce([x \in Items |-> IF row[x].home = h THEN [row[x] EXCEPT !.home = Top] ELSE row[x]])

AfterLast(h) ==
  LET orders == {row[x].order : x \in Here(Items, h)} IN
  IF orders = {} THEN 0 ELSE 1 + CHOOSE n \in orders : \A m \in orders : m <= n

AppendForm(q) ==
  listing = "forms" /\ Begin(q, [NoDrag EXCEPT !.at = "append", !.order = AfterLast(Top)])
AppendFolder(q) ==
  \E h \in Homes :
    listing = "folders" /\ Begin(q, [NoDrag EXCEPT !.at = "append", !.home = h, !.order = AfterLast(h)])
\* Only another parent puts the folder after its last child.
MoveFolder(q) ==
  \E x \in Items, h \in Homes :
    /\ listing = "folders" /\ row[x].is = "row" /\ row[x].home # h
    /\ Begin(q, [NoDrag EXCEPT !.at = "append", !.item = x, !.home = h, !.order = AfterLast(h)])

AppendWrites(q) ==
  LET d == drag[q] IN
  /\ d.at = "append"
  /\ IF d.item = None
     THEN \E x \in Items : /\ row[x].is = "free" /\ FreshItem(x)
                           /\ row' = [row EXCEPT ![x] = Newborn(d.home, d.order)]
     ELSE row' = IF row[d.item].is = "row"
                 THEN [row EXCEPT ![d.item].home = d.home, ![d.item].order = d.order] ELSE row
  /\ Overtakes(q, NoDrag) /\ UNCHANGED <<listing, changes>>

NextOrder ==
  \/ \E q \in Drags : \/ MoveEvent(q) \/ MoveTemplate(q) \/ MoveRule(q) \/ MoveLists(q) \/ MoveWrites(q)
                      \/ AppendForm(q) \/ AppendFolder(q) \/ MoveFolder(q) \/ AppendWrites(q)
  \/ ReorderEvents \/ ReorderTemplates \/ ReorderRules \/ ReorderForms \/ ReorderFolders
  \/ CreateUnsorted \/ FileElsewhere \/ DeleteItem \/ HomeGoes

SpecOrder == InitOrder /\ [][NextOrder]_orderVars
=============================================================================
