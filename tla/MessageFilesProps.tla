--------------------------- MODULE MessageFilesProps ---------------------------
(* What the attachments promise. *)
EXTENDS MessageFiles

\* The type of every variable of the templates and their files.
TypeOKFiles ==
  /\ store \subseteq uploaded /\ uploaded \subseteq FileIds
  /\ tpl \in [TplIds -> [is : {"free", "row", "gone"}, file : uploaded \cup {None}]]
  /\ ruled \subseteq TplRows /\ exposed \subseteq TplIds \cup MsgIds
  /\ msg \in [MsgIds -> [is : {"free", "pending", "done"}, file : uploaded \cup {None},
                         path : BOOLEAN]]
  /\ ask \in [Askers -> [at : {"idle", "create", "patch", "erase", "count", "remove"},
                         tpl : TplIds \cup {None}, file : Files, old : Files]]
  /\ sender \in [Senders -> [at : {"idle", "send"}, file : Files, path : BOOLEAN]]
  /\ asks \in Nat /\ storageFaults \in Nat

\* A template, and a message that is still to go out and keeps its path, find their file
\* in the storage, unless they came to name it when it was gone or its removal decided.
FilesOutliveMessages ==
  /\ \A t \in TplRows \ exposed : tpl[t].file # None => tpl[t].file \in store
  /\ \A m \in PendingMsgs \ exposed : msg[m].path /\ msg[m].file # None => msg[m].file \in store
=============================================================================
