-------------------------- MODULE RegistrationsProps --------------------------
(* What the registration desk promises. *)
EXTENDS Registrations

\* The type of every variable of the registration desk.
TypeOKDesk ==
  /\ event \in EventStatuses
  /\ reg \in [Regs -> [is : {"free", "row", "gone"}, status : FunnelStatuses,
                       phone : Phones \cup {None}, form : EventForms \cup {None},
                       how : {"counted", "raced", "imported"}, late : BOOLEAN]]
  /\ resp \in [Resps -> [is : {"free", "row", "gone"}, form : EventForms \cup {None},
                         reg : Regs \cup {None}, doc : Docs \cup {None}, crm : CrmStatuses]]
  /\ docs \in [Docs -> {"none", "tmp", "final", "pruned"}]
  /\ sub \in [Subs -> [at : {"idle", "promote", "find", "count", "create", "respond", "crm",
                             "import"},
                       form : EventForms \cup {None}, phone : Phones \cup {None},
                       doc : Docs \cup {None}, event : EventStatuses,
                       reg : Regs \cup {None}, resp : Resps \cup {None}, crm : CrmStatuses,
                       raced : BOOLEAN]]
  /\ webhooks \in [Resps -> [out : Nat, ok : Nat, failed : Nat]]
  /\ staff \in [Staff -> [at : {"idle", "write", "list", "tell"}, to : EventStatuses,
                          left : SUBSET Regs, clean : BOOLEAN]]
  /\ told \subseteq Rows /\ muddled \subseteq Resps
  /\ received \in Nat /\ edits \in Nat /\ faults \in Nat
  /\ delivered \in [Resps -> Nat] /\ notified \in BOOLEAN

\* The public form never fills the event beyond its capacity, whatever is deleted or
\* imported meanwhile, but for the registrations that raced: another one appeared between
\* their count and their insert.  (Rows that were imported are over and above.)
OverbookedOnlyByRace ==
  Cardinality({r \in Rows : reg[r].how = "counted"}) <= Capacity

\* A response marked sent has reached the CRM, and none reaches it twice, unless it was
\* submitted again before the result of the last call was stored, or that result was
\* lost: a timeout the CRM had answered, a failed write, the end of the process.
CrmStatusIsTrue ==
  /\ \A x \in Responses : resp[x].crm = "sent" => delivered[x] > 0
  /\ \A x \in Resps : delivered[x] > 1 => x \in muddled

\* When a cancellation has gone through its list undisturbed, every registration that is
\* not rejected has its notice, but for those created or decided after the event closed.
AbsentOnlyIfLate ==
  notified => \A r \in Rows : reg[r].status # "rejected" => r \in told \/ reg[r].late
=============================================================================
