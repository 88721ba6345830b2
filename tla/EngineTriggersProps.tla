-------------------------- MODULE EngineTriggersProps --------------------------
(* What the automation engine promises those who register. *)
EXTENDS EngineTriggers

\* The type of every variable of the engine.
TypeOKEngine ==
  LET Occasions == People \X {NoticeOf[n].template : n \in Notices}
                          \X (StatusTriggers \cup {"recurring"}) \X Nat IN
  /\ person \in [People -> [is : {"free", "row", "gone"}, status : {"pending", "approved", "rejected"},
                            origin : Sheets \cup {None}, answered : SUBSET Sheets]]
  /\ live \subseteq Notices /\ opening \in {"draft", "published", "cancelled", "ended"}
  /\ hand \in [Hands -> [at : {"idle", "change", "find", "filter", "fire", "enqueue"},
                         person : People \cup {None}, status : {"pending", "approved", "rejected"},
                         rules : SUBSET Notices, owed : SUBSET Notices]]
  /\ job \in [at : {"idle", "start", "run"}, rule : Notices \cup {None}, left : SUBSET People,
              run : 0..1, owed : SUBSET People]
  /\ keys \subseteq Occasions /\ heard \subseteq Occasions /\ twice \subseteq heard
  /\ unsent \subseteq People \X Notices
  /\ {turns, ticks, mishaps} \subseteq Nat

\* Whoever falls under an active rule when the status changes, or when an occurrence
\* begins, has its message in the outbox when the handler or the job is through, although
\* everything is read again at each step; but for what the staff changed meanwhile, and
\* for a handler that failed or died with its process, or a job that failed.  A job that a
\* crash cut short owes it all the same: it runs again.
NobodyIsPassedOver == unsent = {}

\* No occasion is written twice to anybody: not when the status goes back and forth, not
\* when two requests set it at once, not when a job is run again.
OncePerOccasion == twice = {}
=============================================================================
