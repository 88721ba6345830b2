----------------------------- MODULE TemplateHomes -----------------------------
(***************************************************************************)
(* Where templates belong: to an event or to nobody's, in a folder of the  *)
(* same event, used by rules of the same event                             *)
(* (message_template_module/message-template.service.ts and its            *)
(* repository, and the checks of automation.service.ts).                   *)
(*                                                                         *)
(* A patch is partial: what it leaves out is taken from the row that the   *)
(* request read, and three tables are checked with a query each before the *)
(* write.  A folder's event never changes, so it is a constant here; that  *)
(* a folder is still there is also what the foreign key checks.            *)
(***************************************************************************)
EXTENDS Naturals, Nulls

CONSTANTS
  Letters,      \* ids of templates, never used twice
  Lands,        \* ids of events
  Boxes,        \* ids of folders of templates ...
  BoxHome,      \* ... each in an event, or in none
  Duties,       \* ids of rules
  Pens,         \* requests in flight
  MaxPens       \* bound: requests received

ASSUME HomesAssumption ==
  /\ None \notin Lands \cup Boxes /\ Keep \notin Lands \cup Boxes \cup {None}
  /\ BoxHome \in [Boxes -> Lands \cup {None}]
  /\ MaxPens \in Nat

VARIABLES
  lands, boxes,   \* rows of events and of folders
  letter,         \* rows of message_templates
  duty,           \* rows of automation_rules
  pen,            \* the locals of each request
  pens,           \* requests received
  crossed         \* history: templates written by a request whose reading was overtaken

homeVars == <<lands, boxes, letter, duty, pen, pens, crossed>>

NoLetter == [is |-> "free", home |-> None, box |-> None]
NoDuty == [is |-> "free", home |-> None, letter |-> None]
NoPatch == [home |-> Keep, box |-> Keep]
NoPen == [at |-> "idle", letter |-> None, duty |-> None, home |-> None, row |-> NoLetter,
          patch |-> NoPatch, stale |-> FALSE]       \* history: another write came between

Written == {t \in Letters : letter[t].is = "row"}
Used(t) == \E d \in Duties : duty[d].is = "row" /\ duty[d].letter = t

InBox(box, home) == box # None => box \in boxes /\ BoxHome[box] = home

\* Any rows that requests one at a time could have left.
InitHomes ==
  /\ lands = Lands /\ boxes = Boxes
  /\ letter \in [Letters -> {NoLetter} \cup
       {r \in [is : {"row"}, home : Lands \cup {None}, box : Boxes \cup {None}] : InBox(r.box, r.home)}]
  /\ duty \in [Duties -> {NoDuty} \cup [is : {"row"}, home : Lands, letter : Written]]
  /\ \A d \in Duties : duty[d].is = "row" => letter[duty[d].letter].home = duty[d].home
  /\ pen = [q \in Pens |-> NoPen] /\ pens = 0 /\ crossed = {}

Takes(q, p) ==
  /\ pen[q].at = "idle" /\ pens < MaxPens /\ pens' = pens + 1
  /\ pen' = [pen EXCEPT ![q] = p]
  /\ UNCHANGED <<lands, boxes, letter, duty, crossed>>
Drops(q) == pen' = [pen EXCEPT ![q] = NoPen] /\ UNCHANGED <<lands, boxes, letter, duty, pens, crossed>>

\* A write about the templates ts: whoever read them is overtaken.
Touches(q, ts) ==
  /\ pen' = [r \in Pens |-> IF r = q THEN NoPen
               ELSE [pen[r] EXCEPT !.stale = @ \/ pen[r].letter \in ts]]
  /\ crossed' = IF q \in Pens /\ pen[q].stale THEN crossed \cup {pen[q].letter} ELSE crossed

-----------------------------------------------------------------------------
(* MessageTemplateService. *)

EventAccessible == lands \cup {None}

\* assertEventAccess and assertFolderMatches.
Compose(q) ==
  \E h \in EventAccessible, b \in boxes \cup {None} :
    /\ InBox(b, h)
    /\ Takes(q, [NoPen EXCEPT !.at = "insert", !.row = [is |-> "row", home |-> h, box |-> b]])

\* The foreign keys.
Referable(r) == r.home \in lands \cup {None} /\ r.box \in boxes \cup {None}

InsertLetter(q) ==
  \E t \in Letters :
    /\ pen[q].at = "insert" /\ Referable(pen[q].row)
    /\ letter[t].is = "free"
    /\ letter' = [letter EXCEPT ![t] = pen[q].row]
    /\ Touches(q, {}) /\ UNCHANGED <<lands, boxes, duty, pens>>

Or(patched, old) == IF patched = Keep THEN old ELSE patched

\* The column without the rule that follows.
keepsFolder(patch, old) == patch.box

\* What the columns become: the folder goes with the event unless the patch names one.
resolveFolderId(patch, old) ==
  IF patch.box # Keep THEN patch.box
  ELSE IF patch.home \notin {Keep, old.home} /\ old.box # None THEN None ELSE Keep

\* update reads the template and checks the result of the merge ...
Revise(q) ==
  \E t \in Written, h \in EventAccessible \cup {Keep}, b \in boxes \cup {None, Keep} :
    LET old == letter[t] IN
    /\ b # Keep => InBox(b, Or(h, old.home))
    /\ Takes(q, [NoPen EXCEPT !.at = IF h \in {Keep, old.home} THEN "update" ELSE "rules",
                              !.letter = t, !.row = old,
                              !.patch = [home |-> h, box |-> b]])

\* ... that no rule uses it, if it changes events ...
hasRuleForTemplate(q) ==
  /\ pen[q].at = "rules"
  /\ IF Used(pen[q].letter) THEN Drops(q)
     ELSE /\ pen' = [pen EXCEPT ![q].at = "update"]
          /\ UNCHANGED <<lands, boxes, letter, duty, pens, crossed>>

\* ... and writes the columns of the patch.
UpdateLetter(q) ==
  LET t == pen[q].letter
      patch == pen[q].patch
      box == resolveFolderId(patch, pen[q].row)
      row == [is |-> "row", home |-> Or(patch.home, letter[t].home), box |-> Or(box, letter[t].box)] IN
  /\ pen[q].at = "update" /\ t \in Written /\ Referable(row)
  /\ letter' = [letter EXCEPT ![t] = row]
  /\ Touches(q, {t}) /\ UNCHANGED <<lands, boxes, duty, pens>>

\* The statement of delete, whose check for an active rule (see MessageFiles) may be
\* out of date: the rules go with the template.
DeleteLetter(t) ==
  /\ t \in Written /\ pens < MaxPens /\ pens' = pens + 1
  /\ letter' = [letter EXCEPT ![t].is = "gone"]
  /\ duty' = [d \in Duties |-> IF duty[d].letter = t THEN [duty[d] EXCEPT !.is = "gone"] ELSE duty[d]]
  /\ Touches(None, {t}) /\ UNCHANGED <<lands, boxes>>

-----------------------------------------------------------------------------
(* AutomationService: assertTemplateExists, and the row. *)

templateById(t, home) == t \in Written /\ letter[t].home = home

CreateDuty(q) ==
  \E h \in lands, t \in Letters :
    /\ templateById(t, h)
    /\ Takes(q, [NoPen EXCEPT !.at = "employ", !.home = h, !.letter = t])

PatchDuty(q) ==
  \E d \in Duties, t \in Letters :
    /\ duty[d].is = "row" /\ templateById(t, duty[d].home)
    /\ Takes(q, [NoPen EXCEPT !.at = "employ", !.duty = d, !.home = duty[d].home, !.letter = t])

WriteDuty(q) ==
  LET t == pen[q].letter IN
  \E d \in Duties :
    /\ pen[q].at = "employ" /\ t \in Written /\ pen[q].home \in lands
    /\ IF pen[q].duty = None THEN duty[d].is = "free" ELSE d = pen[q].duty /\ duty[d].is = "row"
    /\ duty' = [duty EXCEPT ![d] = [is |-> "row", home |-> pen[q].home, letter |-> t]]
    /\ Touches(q, {t}) /\ UNCHANGED <<lands, boxes, letter, pens>>

DeleteDuty(d) ==
  /\ duty[d].is = "row" /\ pens < MaxPens /\ pens' = pens + 1
  /\ duty' = [duty EXCEPT ![d].is = "gone"]
  /\ UNCHANGED <<lands, boxes, letter, pen, crossed>>

-----------------------------------------------------------------------------
\* A foreign key or the missing row refuses the statement, a query fails, or the process
\* dies: nothing is written.
PenFails(q) == pen[q].at # "idle" /\ Drops(q)

\* FolderRepository.delete: folder_id is set to null.
DeleteBox(b) ==
  LET inside == {t \in Written : letter[t].box = b} IN
  /\ b \in boxes /\ pens < MaxPens /\ pens' = pens + 1
  /\ boxes' = boxes \ {b}
  /\ letter' = [t \in Letters |-> IF t \in inside THEN [letter[t] EXCEPT !.box = None] ELSE letter[t]]
  /\ Touches(None, inside) /\ UNCHANGED <<lands, duty>>

\* EventRepository.delete: its folders and rules go with it, its templates are left global.
DeleteLand(e) ==
  LET gone == {b \in boxes : BoxHome[b] = e}
      its == {t \in Written : letter[t].home = e \/ letter[t].box \in gone} IN
  /\ e \in lands /\ pens < MaxPens /\ pens' = pens + 1
  /\ lands' = lands \ {e} /\ boxes' = boxes \ gone
  /\ letter' = [t \in Letters |->
       IF t \notin its THEN letter[t]
       ELSE [letter[t] EXCEPT !.home = IF @ = e THEN None ELSE @, !.box = IF @ \in gone THEN None ELSE @]]
  /\ duty' = [d \in Duties |-> IF duty[d].home = e THEN [duty[d] EXCEPT !.is = "gone"] ELSE duty[d]]
  /\ Touches(None, its)

NextHomes ==
  \/ \E q \in Pens : \/ Compose(q) \/ InsertLetter(q) \/ Revise(q) \/ hasRuleForTemplate(q)
                     \/ UpdateLetter(q) \/ CreateDuty(q) \/ PatchDuty(q) \/ WriteDuty(q) \/ PenFails(q)
  \/ \E t \in Letters : DeleteLetter(t)
  \/ \E d \in Duties : DeleteDuty(d)
  \/ \E b \in Boxes : DeleteBox(b)
  \/ \E e \in Lands : DeleteLand(e)

SpecHomes == InitHomes /\ [][NextHomes]_homeVars

-----------------------------------------------------------------------------
(* What the templates promise about where they belong. *)

\* The type of every variable of the templates and their events.
TypeOKHomes ==
  LET Rows == [is : {"free", "row", "gone"}, home : Lands \cup {None}, box : Boxes \cup {None}] IN
  /\ lands \subseteq Lands /\ boxes \subseteq Boxes /\ crossed \subseteq Letters \cup {None}
  /\ letter \in [Letters -> Rows]
  /\ duty \in [Duties -> [is : {"free", "row", "gone"}, home : Lands \cup {None}, letter : Letters \cup {None}]]
  /\ \A q \in Pens :
       /\ pen[q].at \in {"idle", "insert", "rules", "update", "employ"}
       /\ pen[q].letter \in Letters \cup {None} /\ pen[q].duty \in Duties \cup {None}
       /\ pen[q].home \in Lands \cup {None} /\ pen[q].row \in Rows /\ pen[q].stale \in BOOLEAN
       /\ pen[q].patch \in [home : Lands \cup {None, Keep}, box : Boxes \cup {None, Keep}]
  /\ pens \in 0..MaxPens

\* A template is in a folder of its own event, or in a global one if it is global, and a
\* rule uses a template of its own event.  No order of partial patches, new rules, and
\* deletions of folders and events breaks any of it, unless a request wrote after another
\* had written what it had read.
TemplatesAreAtHome ==
  /\ \A t \in Written \ crossed : InBox(letter[t].box, letter[t].home)
  /\ \A d \in Duties : duty[d].is = "row" /\ duty[d].letter \notin crossed =>
       duty[d].letter \in Written /\ letter[duty[d].letter].home = duty[d].home
=============================================================================
