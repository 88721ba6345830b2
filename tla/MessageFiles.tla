----------------------------- MODULE MessageFiles -----------------------------
(***************************************************************************)
(* Message templates and the files attached to them                        *)
(* (message_template_module/message-template.service.ts,                   *)
(* outbox_module/message-attachments.service.ts and the two readers of a   *)
(* template: automation-engine.service.ts and manual-send.service.ts).     *)
(*                                                                         *)
(* A file has no row: it is wanted as long as some template, or some       *)
(* message that is still to go out, names its path.  A request that takes  *)
(* a file off a template asks the database whether anyone names it, and    *)
(* then removes it from the storage; meanwhile a duplicated event, a patch *)
(* or a sender that read the template earlier may come to name it.         *)
(***************************************************************************)
EXTENDS Naturals, Nulls

CONSTANTS
  TplIds, MsgIds,   \* ids, never used twice
  FileIds,          \* paths in the storage, a new one for each upload
  Askers,           \* requests about templates in flight
  Senders,          \* automations and manual sends under way
  MaxAsks, MaxStorageFaults   \* bounds: requests about templates, failed removals

ASSUME FilesAssumption ==
  MaxAsks \in Nat /\ MaxStorageFaults \in Nat /\ TplIds \cap MsgIds = {}

VARIABLES
  store,        \* objects in the storage
  uploaded,     \* paths given out so far
  tpl,          \* rows of message_templates
  ruled,        \* templates that an active rule uses
  msg,          \* rows of outbox_messages
  ask, sender,  \* locals of each request and each sender
  asks, storageFaults,
  exposed       \* history: rows that came to name a file already gone or about to go

fileVars == <<store, uploaded, tpl, ruled, msg, ask, sender, asks, storageFaults, exposed>>

Files == FileIds \cup {None}
NoTpl == [is |-> "free", file |-> None]
NoMsg == [is |-> "free", file |-> None, path |-> FALSE]
NoAsk == [at |-> "idle", tpl |-> None, file |-> None, old |-> None]
NoSender == [at |-> "idle", file |-> None, path |-> FALSE]

InitFiles ==
  /\ store = {} /\ uploaded = {} /\ ruled = {} /\ exposed = {}
  /\ tpl = [t \in TplIds |-> NoTpl] /\ msg = [m \in MsgIds |-> NoMsg]
  /\ ask = [q \in Askers |-> NoAsk] /\ sender = [s \in Senders |-> NoSender]
  /\ asks = 0 /\ storageFaults = 0

TplRows == {t \in TplIds : tpl[t].is = "row"}
PendingMsgs == {m \in MsgIds : msg[m].is = "pending"}
FreeTpl(t) == t = CHOOSE u \in TplIds : tpl[u].is = "free"
FreeMsg(m) == m = CHOOSE u \in MsgIds : msg[u].is = "free"

\* Naming f at this moment does not keep it: it is gone, or its removal is decided.
Doomed(f) == f # None /\ (f \notin store \/ \E q \in Askers : ask[q].at = "remove" /\ ask[q].old = f)

-----------------------------------------------------------------------------
\* uploadTemplate: a new object, under a path nothing names yet.
UploadFile ==
  \E f \in FileIds \ uploaded :
    /\ f = CHOOSE g \in FileIds \ uploaded : TRUE
    /\ uploaded' = uploaded \cup {f} /\ store' = store \cup {f}
    /\ UNCHANGED <<tpl, ruled, msg, ask, sender, asks, storageFaults, exposed>>

Ask(q, a) ==
  /\ ask[q].at = "idle" /\ asks < MaxAsks /\ asks' = asks + 1
  /\ ask' = [ask EXCEPT ![q] = a]
Asking(q, a) == ask' = [ask EXCEPT ![q] = a] /\ UNCHANGED <<uploaded, sender, asks>>

\* The client may name any path it was ever given.
AskCreate(q) ==
  \E f \in uploaded \cup {None} :
    /\ Ask(q, [NoAsk EXCEPT !.at = "create", !.file = f])
    /\ UNCHANGED <<store, uploaded, tpl, ruled, msg, sender, storageFaults, exposed>>

\* findDuplicationSource: the copy will share the file.
AskCopy(q) ==
  \E t \in TplRows :
    /\ Ask(q, [NoAsk EXCEPT !.at = "create", !.file = tpl[t].file])
    /\ UNCHANGED <<store, uploaded, tpl, ruled, msg, sender, storageFaults, exposed>>

InsertTpl(q) ==
  \E t \in TplIds :
    /\ ask[q].at = "create" /\ tpl[t].is = "free" /\ FreeTpl(t)
    /\ tpl' = [tpl EXCEPT ![t] = [is |-> "row", file |-> ask[q].file]]
    /\ exposed' = IF Doomed(ask[q].file) THEN exposed \cup {t} ELSE exposed \ {t}
    /\ Asking(q, NoAsk) /\ UNCHANGED <<store, ruled, msg, storageFaults>>

\* update reads the template, whose file the patch replaces, keeps or takes away.
AskUpdate(q) ==
  \E t \in TplRows, f \in uploaded \cup {None} :
    /\ Ask(q, [at |-> "patch", tpl |-> t, file |-> f, old |-> tpl[t].file])
    /\ UNCHANGED <<store, uploaded, tpl, ruled, msg, sender, storageFaults, exposed>>

\* The file that was read goes, not the one this statement overwrites.
Leaves(q) == IF ask[q].old \in {None, ask[q].file} THEN NoAsk ELSE [ask[q] EXCEPT !.at = "count"]

PatchTpl(q) ==
  LET t == ask[q].tpl IN
  /\ ask[q].at = "patch"
  /\ IF t \in TplRows
     THEN /\ tpl' = [tpl EXCEPT ![t].file = ask[q].file]
          /\ exposed' = IF Doomed(ask[q].file) THEN exposed \cup {t} ELSE exposed \ {t}
          /\ Asking(q, Leaves(q))
     ELSE Asking(q, NoAsk) /\ UNCHANGED <<tpl, exposed>>
  /\ UNCHANGED <<store, ruled, msg, storageFaults>>

\* delete: an active rule keeps its template (409).
AskDelete(q) ==
  \E t \in TplRows \ ruled :
    /\ Ask(q, [NoAsk EXCEPT !.at = "erase", !.tpl = t, !.old = tpl[t].file])
    /\ UNCHANGED <<store, uploaded, tpl, ruled, msg, sender, storageFaults, exposed>>

\* Rules go with the row.
EraseTpl(q) ==
  LET t == ask[q].tpl IN
  /\ ask[q].at = "erase"
  /\ IF t \in TplRows
     THEN /\ tpl' = [tpl EXCEPT ![t] = [is |-> "gone", file |-> None]]
          /\ ruled' = ruled \ {t} /\ exposed' = exposed \ {t}
          /\ Asking(q, Leaves(q))
     ELSE Asking(q, NoAsk) /\ UNCHANGED <<tpl, ruled, exposed>>
  /\ UNCHANGED <<store, msg, storageFaults>>

\* isAttachmentPathReferenced: every template, and the messages still to go out.
ReferencedByTemplate(f) == \E t \in TplRows : tpl[t].file = f
Referenced(f) ==
  \/ \E t \in TplRows : tpl[t].file = f
  \/ \E m \in PendingMsgs : msg[m].path /\ msg[m].file = f

\* deleteIfUnreferenced.
CountRefs(q) ==
  /\ ask[q].at = "count"
  /\ Asking(q, IF Referenced(ask[q].old) THEN NoAsk ELSE [ask[q] EXCEPT !.at = "remove"])
  /\ UNCHANGED <<store, tpl, ruled, msg, storageFaults, exposed>>

RemoveFile(q) ==
  /\ ask[q].at = "remove"
  /\ store' = store \ {ask[q].old}
  /\ Asking(q, NoAsk) /\ UNCHANGED <<tpl, ruled, msg, storageFaults, exposed>>

\* A query or the storage fails, or the process dies.
AskFails(q) ==
  /\ ask[q].at # "idle" /\ storageFaults < MaxStorageFaults
  /\ storageFaults' = storageFaults + 1
  /\ Asking(q, NoAsk) /\ UNCHANGED <<store, tpl, ruled, msg, exposed>>

\* A rule that uses the template is created, activated or taken out of use.
SetRuledUnchecked(t) ==
  /\ asks < MaxAsks /\ asks' = asks + 1
  /\ ruled' = IF t \in ruled THEN ruled \ {t} ELSE ruled \cup {t}
  /\ UNCHANGED <<store, uploaded, tpl, msg, ask, sender, storageFaults, exposed>>
SetRuled(t) ==
  /\ t \in TplRows /\ asks < MaxAsks /\ asks' = asks + 1
  /\ ruled' = IF t \in ruled THEN ruled \ {t} ELSE ruled \cup {t}
  /\ UNCHANGED <<store, uploaded, tpl, msg, ask, sender, storageFaults, exposed>>

-----------------------------------------------------------------------------
(* Senders. *)

Sends(s, f, path) ==
  /\ sender[s].at = "idle"
  /\ sender' = [sender EXCEPT ![s] = [at |-> "send", file |-> f, path |-> path]]
  /\ UNCHANGED <<store, uploaded, tpl, ruled, msg, ask, asks, storageFaults, exposed>>

\* fireAutomations reads a rule with its template; a manual send reads the template,
\* unless its author named files, whose path the message then does not keep.
FireRule(s) == \E t \in ruled : Sends(s, tpl[t].file, TRUE)
SendTemplate(s) == \E t \in TplRows : Sends(s, tpl[t].file, TRUE)
SendFiles(s) == \E f \in uploaded : Sends(s, f, FALSE)

\* enqueue, for one recipient after the other.
EnqueueMsg(s) ==
  \E m \in MsgIds :
    /\ sender[s].at = "send" /\ msg[m].is = "free" /\ FreeMsg(m)
    /\ msg' = [msg EXCEPT ![m] = [is |-> "pending", file |-> sender[s].file,
                                  path |-> sender[s].path]]
    /\ exposed' = IF Doomed(sender[s].file) THEN exposed \cup {m} ELSE exposed
    /\ UNCHANGED <<store, uploaded, tpl, ruled, ask, sender, asks, storageFaults>>

SenderEnds(s) ==
  /\ sender[s].at = "send"
  /\ sender' = [sender EXCEPT ![s] = NoSender]
  /\ UNCHANGED <<store, uploaded, tpl, ruled, msg, ask, asks, storageFaults, exposed>>

\* The dispatch worker is done with a message, sent or given up.
MsgLeaves(m) ==
  /\ m \in PendingMsgs
  /\ msg' = [msg EXCEPT ![m].is = "done"]
  /\ UNCHANGED <<store, uploaded, tpl, ruled, ask, sender, asks, storageFaults, exposed>>

NextFiles ==
  \/ UploadFile
  \/ \E q \in Askers :
       \/ AskCreate(q) \/ AskCopy(q) \/ AskUpdate(q) \/ AskDelete(q)
       \/ InsertTpl(q) \/ PatchTpl(q) \/ EraseTpl(q)
       \/ CountRefs(q) \/ RemoveFile(q) \/ AskFails(q)
  \/ \E t \in TplIds : SetRuled(t)
  \/ \E s \in Senders : FireRule(s) \/ SendTemplate(s) \/ SendFiles(s)
                        \/ EnqueueMsg(s) \/ SenderEnds(s)
  \/ \E m \in MsgIds : MsgLeaves(m)

SpecFiles == InitFiles /\ [][NextFiles]_fileVars
=============================================================================
