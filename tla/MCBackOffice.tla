---------------------------- MODULE MCBackOffice ----------------------------
(***************************************************************************)
(* The parts of the back office that share no row, checked in one run: a   *)
(* behaviour is one of them at work while the others stay as they began.   *)
(***************************************************************************)
EXTENDS FolderTreeProps, RegistrationsProps, FormAnswersProps, RecurringRulesProps,
        MessageFilesProps, ManualSendProps, DisplayOrderProps, EngineTriggersProps,
        CheckInProps, EventPanel, TemplateHomes, TLC

Parts == {"tree", "desk", "forms", "recurring", "files", "sends", "order", "engine", "door",
          "panel", "letters"}
VARIABLE part

\* One inside another, and a third beside or below; nothing in the other parts.
ThreeFolders == /\ born = {"i", "j", "k"} /\ InitTree
                /\ parent["i"] = Root /\ parent["j"] = "i" /\ parent["k"] \in {Root, "j"}
NoFolder == born = {} /\ InitTree

\* Who has answered what, under every rule of an event that is open.
OpenEvent == InitEngine /\ live = Notices /\ opening = "published" /\ \A x \in Registered : person[x].origin = "f"
NobodyYet == InitEngine /\ live = {} /\ opening = "draft" /\ Registered = {}

\* One of two is registered, and it is the morning of the second day.
DoorOpens == InitDoor /\ clock = 2 /\ guest["g1"].is = "row" /\ guest["g1"].phone.nine /\ guest["g1"].event = "e"
DoorShut == /\ guest = [x \in Guests |-> Nobody] /\ night = [e \in Nights |-> None] /\ clock = 0
            /\ door = [d \in Doors |-> NoDoor] /\ doorCalls = 0

TwoLetters == InitHomes /\ letter["o"] = [is |-> "row", home |-> "e", box |-> None]
NoLetters == InitHomes /\ Written = {}

\* Each part begins as it may; the others in one state of theirs.
InitBackOffice ==
  /\ part \in Parts
  /\ IF part = "tree" THEN ThreeFolders ELSE NoFolder
  /\ InitRecurring /\ InitFiles /\ InitPanel
  /\ InitDesk /\ reg["r2"].is = "free" /\ resp["x2"].is = "free" /\ event = (IF part = "desk" THEN "published" ELSE "draft")
  /\ InitSend /\ (part # "sends" => ~gate)
  /\ InitForms /\ form["f"].is = "row" /\ form["g"].is = "free"
  /\ field["x"].is = "row"
  /\ field["y"].is = "row" => field["y"].kind = "other" /\ field["y"].required
  /\ part # "forms" => /\ form["f"].slug = field["x"].label /\ field["y"] = NoField
                      /\ field["x"].kind = "other" /\ ~field["x"].required
  /\ InitOrder /\ (part # "order" => listing = "events")
  /\ IF part = "engine" THEN OpenEvent ELSE NobodyYet
  /\ IF part = "door" THEN DoorOpens ELSE DoorShut
  /\ IF part = "letters" THEN TwoLetters ELSE NoLetters

At(p) == part = p /\ UNCHANGED part
Tree == At("tree") /\ NextTree
  /\ UNCHANGED <<deskVars, formVars, recurVars, fileVars, sendVars,
                  orderVars, engineVars, doorVars, panelVars, homeVars>>
Desk == At("desk") /\ NextDesk
  /\ UNCHANGED <<treeVars, formVars, recurVars, fileVars, sendVars,
                  orderVars, engineVars, doorVars, panelVars, homeVars>>
FormsPart == At("forms") /\ NextForms
  /\ UNCHANGED <<treeVars, deskVars, recurVars, fileVars, sendVars,
                  orderVars, engineVars, doorVars, panelVars, homeVars>>
Recurring == At("recurring") /\ NextRecurring
  /\ UNCHANGED <<treeVars, deskVars, formVars, fileVars, sendVars,
                  orderVars, engineVars, doorVars, panelVars, homeVars>>
FilesPart == At("files") /\ NextFiles
  /\ UNCHANGED <<treeVars, deskVars, formVars, recurVars, sendVars,
                  orderVars, engineVars, doorVars, panelVars, homeVars>>
Sending == At("sends") /\ NextSend
  /\ UNCHANGED <<treeVars, deskVars, formVars, recurVars, fileVars,
                  orderVars, engineVars, doorVars, panelVars, homeVars>>
Ordering == At("order") /\ NextOrder
  /\ UNCHANGED <<treeVars, deskVars, formVars, recurVars, fileVars,
                  sendVars, engineVars, doorVars, panelVars, homeVars>>
Engine == At("engine") /\ NextEngine
  /\ UNCHANGED <<treeVars, deskVars, formVars, recurVars, fileVars,
                  sendVars, orderVars, doorVars, panelVars, homeVars>>
AtDoor == At("door") /\ NextDoor
  /\ UNCHANGED <<treeVars, deskVars, formVars, recurVars, fileVars,
                  sendVars, orderVars, engineVars, panelVars, homeVars>>
Panel == At("panel") /\ NextPanel
  /\ UNCHANGED <<treeVars, deskVars, formVars, recurVars, fileVars,
                  sendVars, orderVars, engineVars, doorVars, homeVars>>
LettersPart == At("letters") /\ NextHomes
  /\ UNCHANGED <<treeVars, deskVars, formVars, recurVars, fileVars,
                  sendVars, orderVars, engineVars, doorVars, panelVars>>

NextBackOffice ==
  \/ Tree \/ Desk \/ FormsPart \/ Recurring \/ FilesPart
  \/ Sending \/ Ordering \/ Engine \/ AtDoor \/ Panel \/ LettersPart

backVars == <<part, treeVars, deskVars, formVars, recurVars, fileVars,
              sendVars, orderVars, engineVars, doorVars, panelVars, homeVars>>
SpecBackOffice == InitBackOffice /\ [][NextBackOffice]_backVars
\* The type of the part at work.
TypeOKBackOffice ==
  CASE part = "tree" -> TypeOKTree [] part = "desk" -> TypeOKDesk [] part = "forms" -> TypeOKForms
    [] part = "recurring" -> TypeOKRecurring [] part = "files" -> TypeOKFiles
    [] part = "sends" -> TypeOKSend [] part = "order" -> TypeOKOrder [] part = "engine" -> TypeOKEngine
    [] part = "door" -> TypeOKDoor [] part = "panel" -> TypeOKPanel
    [] part = "letters" -> TypeOKHomes

MCScopes == {[type |-> "message_template", home |-> "e"], [type |-> "automation_rule", home |-> "e"]}

ByEmail == [channel |-> "email", instance |-> "none", event |-> "mine", template |-> "email",
            body |-> FALSE, registrations |-> TRUE, groups |-> FALSE, invite |-> "valid",
            file |-> "none", people |-> <<"a", None, "a", "b">>]
ByWhatsApp == [channel |-> "whatsapp", instance |-> "allowed", event |-> "none",
               template |-> "none", body |-> TRUE, registrations |-> FALSE, groups |-> TRUE,
               invite |-> "none", file |-> "mine", people |-> <<"a", "b", "a", "c">>]
MCSendInputs == {ByEmail, ByWhatsApp, [ByWhatsApp EXCEPT !.instance = "none"]}

Patch(t) == [template |-> Keep, trigger |-> t, cron |-> Keep, active |-> Keep]
MCPatches ==
  {[Patch("keep") EXCEPT !.active = a] : a \in BOOLEAN}
  \cup {[Patch("keep") EXCEPT !.cron = c] : c \in Crons \cup {None}}
  \cup {[Patch("recurring") EXCEPT !.cron = c, !.active = TRUE] : c \in Crons}
  \cup {Patch("other"), Patch("recurring"), [Patch("keep") EXCEPT !.template = "t"]}

MCSees == [x \in {"u", "v"} |-> IF x = "u" THEN Items ELSE Items \ {"j"}]
MCBoxHome == [b \in Boxes |-> IF b = "b" THEN "e" ELSE None]
MCOld == <<"i", "j">>

Notice(t, s) == [trigger |-> t, forms |-> s, template |-> "t"]
MCNotices == [x \in {"w1", "w2", "w3"} |->
  CASE x = "w1" -> Notice("on_approval", {"g"}) [] x = "w2" -> Notice("recurring", {"g"})
    [] x = "w3" -> Notice("on_registration", {"f"})]

Phone(c, d, n) == [country |-> c, ddd |-> d, nine |-> n, line |-> 1]
MCPhones == {Phone("55", 11, TRUE), Phone("none", 11, FALSE), Phone("none", 21, TRUE)}

Alike == Permutations(Requests) \cup Permutations(Labels)
=============================================================================
