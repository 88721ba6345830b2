--------------------------- MODULE DisplayOrderProps ---------------------------
(***************************************************************************)
(* What DisplayOrder promises.                                             *)
(***************************************************************************)
EXTENDS DisplayOrder

TypeOKOrder ==
  /\ listing \in Unsorted \cup Appended
  /\ row \in [Items -> [is : {"free", "row", "gone"}, home : Homes, order : Nat, born : Nat]]
  /\ \A q \in Drags :
       /\ drag[q].at \in {"idle", "list", "write", "append"} /\ drag[q].quiet \in BOOLEAN
       /\ drag[q].user \in Users /\ drag[q].home \in Homes /\ drag[q].order \in Nat
       /\ {drag[q].item, drag[q].before} \subseteq Items \cup {None}
       /\ DOMAIN drag[q].writes \subseteq Items
  /\ changes \in 0..MaxChanges

Newest == listing \in {"events", "templates"}
Mine(u) == IF Newest THEN Sees[u] ELSE Items

\* What request q does when it writes, if no other write came between.
LandsWhereAimed(q) ==
  LET d == drag[q]
      others == Here(Mine(d.user), d.home) \ {d.item}
      Before(x, y) == Precedes(row', Newest, x, y) IN
  /\ MoveWrites(q) /\ d.quiet /\ d.before # d.item =>
       /\ \A x, y \in others : Precedes(row, Newest, x, y) <=> Before(x, y)
       /\ IF d.before = None THEN \A x \in others : Before(x, d.item)
          ELSE /\ Before(d.item, d.before)
               /\ \A x \in others \ {d.before} : ~(Before(d.item, x) /\ Before(x, d.before))
  /\ AppendWrites(q) /\ d.quiet =>
       \A x \in others, y \in Items : row'[y] # row[y] => Before(x, y)

\* After a drag that no other write overlapped, the person who dragged sees the item right
\* before the one it was dropped on, or at the end, and everything else as it was; a form
\* or folder that is created, or a folder given another parent, is last.  The listing is
\* not written, only some of its rows are, and it is sorted anew from ties and gaps that
\* creations, deletions and moves between folders left.
DropLandsWhereAimed == [][\A q \in Drags : LandsWhereAimed(q)]_orderVars
=============================================================================
