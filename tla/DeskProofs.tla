----------------------------- MODULE DeskProofs -----------------------------
(***************************************************************************)
(* Proofs about what an event's registrants go through, for any rows and   *)
(* requests: the registration desk (any capacity), the forms with their    *)
(* answers and copies, the check-in at the door, and what is written to    *)
(* them: by the automation engine, and by hand.                            *)
(***************************************************************************)
EXTENDS RegistrationsProps, FormAnswersProps, CheckInProps, EngineTriggersProps, ManualSendProps,
        FiniteSetTheorems, WellFoundedInduction, TLAPS

-----------------------------------------------------------------------------
(* The registration desk. *)

RegRow == [is : {"free", "row", "gone"}, status : FunnelStatuses,
           phone : Phones \cup {None}, form : EventForms \cup {None},
           how : {"counted", "raced", "imported"}, late : BOOLEAN]
RespRow == [is : {"free", "row", "gone"}, form : EventForms \cup {None},
            reg : Regs \cup {None}, doc : Docs \cup {None}, crm : CrmStatuses]
SubSteps == {"idle", "promote", "find", "count", "create", "respond", "crm", "import"}
Submission == [at : SubSteps, form : EventForms \cup {None}, phone : Phones \cup {None},
               doc : Docs \cup {None}, event : EventStatuses,
               reg : Regs \cup {None}, resp : Resps \cup {None}, crm : CrmStatuses,
               raced : BOOLEAN]
Calls == [out : Nat, ok : Nat, failed : Nat]
Asked == [at : {"idle", "write", "list", "tell"}, to : EventStatuses,
            left : SUBSET Regs, clean : BOOLEAN]

\* A submission whose count nobody's row has overtaken finds a place free.
PlaceKept ==
  /\ IsFiniteSet(Rows)
  /\ \A u \in Subs : sub[u].at = "create" /\ ~ sub[u].raced => Cardinality(Rows) < Capacity

\* The calls for a response: one that was dispatched once at a time, each after the
\* result of the last was stored, is delivered once, and its row says so.
CallsFor(x) == webhooks[x].out + webhooks[x].ok + webhooks[x].failed
DispatchedBy(u, x) == sub[u].at = "crm" /\ sub[u].resp = x
OneAtATime(x) ==
  /\ CallsFor(x) <= 1
  /\ \A u \in Subs : DispatchedBy(u, x) =>
       /\ CallsFor(x) = 0
       /\ \A v \in Subs : DispatchedBy(v, x) => v = u
  /\ delivered[x] <= 1
  /\ delivered[x] = 1 =>
       \/ webhooks[x].ok = 1
       \/ /\ CallsFor(x) = 0 /\ resp[x].crm = "sent"
          /\ \A u \in Subs : DispatchedBy(u, x) => sub[u].crm = "sent"
CallsTrue ==
  /\ \A x \in Resps : x \notin muddled => OneAtATime(x)
  /\ \A x \in Resps : webhooks[x].ok > 0 \/ resp[x].crm = "sent" => delivered[x] > 0
  /\ \A x \in Resps : resp[x].is = "free" =>
       CallsFor(x) = 0 /\ delivered[x] = 0 /\ \A u \in Subs : ~ DispatchedBy(u, x)
  /\ \A u \in Subs : sub[u].at # "crm" => sub[u].crm = "null"

\* Who is still to be told by a cancellation nothing has disturbed.
ToldOrLate(r, left) ==
  reg[r].status # "rejected" => r \in told \/ r \in left \/ reg[r].late
ListsHold ==
  /\ notified => event = "cancelled" /\ \A r \in Rows : ToldOrLate(r, {})
  /\ \A a \in Staff : staff[a].clean =>
       /\ event = "cancelled" /\ staff[a].at \in {"list", "tell"}
       /\ staff[a].at = "tell" => \A r \in Rows : ToldOrLate(r, staff[a].left)

DeskInv == TypeOKDesk /\ PlaceKept /\ OverbookedOnlyByRace /\ CallsTrue /\ ListsHold

-----------------------------------------------------------------------------
LEMMA DeskBlanks ==
  NoReg \in RegRow /\ NoResp \in RespRow /\ NoSub \in Submission /\ NoStaff \in Asked
  /\ NoCalls \in Calls
BY DEF NoReg, RegRow, NoResp, RespRow, NoSub, Submission, SubSteps, NoStaff, Asked, NoCalls,
       Calls, FunnelStatuses, CrmStatuses, EventStatuses

LEMMA DeskTypes ==
  TypeOKDesk <=>
    /\ event \in EventStatuses
    /\ reg \in [Regs -> RegRow] /\ resp \in [Resps -> RespRow]
    /\ docs \in [Docs -> {"none", "tmp", "final", "pruned"}]
    /\ sub \in [Subs -> Submission] /\ webhooks \in [Resps -> Calls]
    /\ staff \in [Staff -> Asked] /\ told \subseteq Rows /\ muddled \subseteq Resps
    /\ received \in Nat /\ edits \in Nat /\ faults \in Nat
    /\ delivered \in [Resps -> Nat] /\ notified \in BOOLEAN
BY DEF TypeOKDesk, RegRow, RespRow, Submission, SubSteps, Calls, Asked

LEMMA DeskRetyped ==
  ASSUME /\ event' \in EventStatuses
         /\ reg' \in [Regs -> RegRow] /\ resp' \in [Resps -> RespRow]
         /\ docs' \in [Docs -> {"none", "tmp", "final", "pruned"}]
         /\ sub' \in [Subs -> Submission] /\ webhooks' \in [Resps -> Calls]
         /\ staff' \in [Staff -> Asked] /\ told' \subseteq Rows' /\ muddled' \subseteq Resps
         /\ received' \in Nat /\ edits' \in Nat /\ faults' \in Nat
         /\ delivered' \in [Resps -> Nat] /\ notified' \in BOOLEAN
  PROVE  TypeOKDesk'
BY DEF TypeOKDesk, RegRow, RespRow, Submission, SubSteps, Calls, Asked

\* A submission that moves on stays one.
LEMMA SubMoves ==
  ASSUME TypeOKDesk, NEW u \in Subs, NEW s \in Submission, GoesOn(u, s)
  PROVE  sub' \in [Subs -> Submission]
BY DeskTypes DEF GoesOn

LEMMA SubEnds ==
  ASSUME TypeOKDesk, NEW u \in Subs, Answers(u)
  PROVE  sub' \in [Subs -> Submission]
BY DeskTypes, DeskBlanks DEF Answers

\* The rows after a registration appears.
LEMMA CreatedRows ==
  ASSUME TypeOKDesk, NEW u \in Subs, NEW r \in Regs, NEW how \in {"counted", "raced", "imported"},
         reg[r].is = "free", Created(u, r, how)
  PROVE  /\ reg' \in [Regs -> RegRow] /\ Rows' = Rows \cup {r} /\ r \notin Rows
         /\ \A s \in Regs \ {r} : reg'[s] = reg[s]
         /\ reg'[r].how = how /\ reg'[r].late = (event # "published")
<1> DEFINE new == [NoReg EXCEPT !.is = "row", !.form = sub[u].form, !.phone = sub[u].phone,
                                !.how = how, !.late = event # "published"]
<1>1. reg \in [Regs -> RegRow] /\ sub[u] \in Submission
  BY DeskTypes
<1>2. sub[u].form \in EventForms \cup {None} /\ sub[u].phone \in Phones \cup {None}
  BY <1>1 DEF Submission
<1>3. new \in RegRow /\ new.is = "row" /\ new.how = how /\ new.late = (event # "published")
  BY <1>2 DEF NoReg, RegRow, FunnelStatuses
<1>4. reg' = [reg EXCEPT ![r] = new]
  BY DEF Created
<1> HIDE DEF new
<1> QED
  BY <1>1, <1>3, <1>4 DEF Rows

LEMMA DeskInit == InitDesk => DeskInv
<1> SUFFICES ASSUME InitDesk PROVE DeskInv
  OBVIOUS
<1>1. /\ event \in EventStatuses /\ docs \in [Docs -> {"none", "tmp", "final", "pruned"}]
      /\ sub = [u \in Subs |-> NoSub] /\ staff = [a \in Staff |-> NoStaff]
      /\ webhooks = [x \in Resps |-> NoCalls] /\ told = {}
      /\ received = 0 /\ edits = 0 /\ faults = 0 /\ muddled = {} /\ notified = FALSE
  BY DEF InitDesk, EventStatuses
<1>2. /\ sub \in [Subs -> Submission] /\ staff \in [Staff -> Asked]
      /\ webhooks \in [Resps -> Calls]
  BY <1>1, DeskBlanks
<1>3. \A u \in Subs : sub[u].at = "idle" /\ sub[u].crm = "null"
  BY <1>1 DEF NoSub
<1>4. \A a \in Staff : staff[a].clean = FALSE
  BY <1>1 DEF NoStaff
<1>5. \A x \in Resps : CallsFor(x) = 0 /\ webhooks[x].ok = 0
  BY <1>1 DEF CallsFor, NoCalls
<1>6. ListsHold
  BY <1>1, <1>4 DEF ListsHold
<1>7. CASE /\ reg = [r \in Regs |-> NoReg] /\ resp = [x \in Resps |-> NoResp]
           /\ delivered = [x \in Resps |-> 0]
  <2>1. Rows = {}
    BY <1>7 DEF Rows, NoReg
  <2>2. TypeOKDesk
    BY <1>1, <1>2, <1>7, DeskBlanks, DeskTypes
  <2>3. PlaceKept /\ OverbookedOnlyByRace
    <3>1. {r \in Rows : reg[r].how = "counted"} = {}
      BY <2>1
    <3> QED
      BY <1>3, <2>1, <3>1, FS_EmptySet, DeskAssumption DEF PlaceKept, OverbookedOnlyByRace
  <2>4. CallsTrue
    <3>1. \A x \in Resps : delivered[x] = 0 /\ resp[x].crm # "sent"
      BY <1>7 DEF NoResp
    <3> QED
      BY <1>3, <1>5, <3>1 DEF CallsTrue, OneAtATime, DispatchedBy
  <2> QED
    BY <1>6, <2>2, <2>3, <2>4 DEF DeskInv
<1>8. CASE \E r \in Regs, x \in Resps, f \in Crm, p \in Phones :
          /\ event = "published" /\ Capacity > 0
          /\ reg = [s \in Regs |-> IF s = r THEN [NoReg EXCEPT !.is = "row", !.form = f, !.phone = p] ELSE NoReg]
          /\ resp = [y \in Resps |-> IF y = x THEN [NoResp EXCEPT !.is = "row", !.form = f, !.reg = r, !.crm = "sent"]
                                     ELSE NoResp]
          /\ delivered = [y \in Resps |-> IF y = x THEN 1 ELSE 0]
  <2>1. PICK r \in Regs, x \in Resps, f \in Crm, p \in Phones :
          /\ event = "published" /\ Capacity > 0
          /\ reg = [s \in Regs |-> IF s = r THEN [NoReg EXCEPT !.is = "row", !.form = f, !.phone = p] ELSE NoReg]
          /\ resp = [y \in Resps |-> IF y = x THEN [NoResp EXCEPT !.is = "row", !.form = f, !.reg = r, !.crm = "sent"]
                                     ELSE NoResp]
          /\ delivered = [y \in Resps |-> IF y = x THEN 1 ELSE 0]
    BY <1>8
  <2>2. f \in EventForms
    BY DeskAssumption
  <2> DEFINE one == [NoReg EXCEPT !.is = "row", !.form = f, !.phone = p]
             its == [NoResp EXCEPT !.is = "row", !.form = f, !.reg = r, !.crm = "sent"]
  <2>3. one \in RegRow /\ one.is = "row" /\ its \in RespRow /\ its.crm = "sent" /\ its.is = "row"
    BY <2>2 DEF NoReg, RegRow, FunnelStatuses, NoResp, RespRow, CrmStatuses
  <2>4. /\ reg = [s \in Regs |-> IF s = r THEN one ELSE NoReg]
        /\ resp = [y \in Resps |-> IF y = x THEN its ELSE NoResp]
    BY <2>1
  <2> HIDE DEF one, its
  <2>5. Rows = {r}
    BY <2>3, <2>4 DEF Rows, NoReg
  <2>6. TypeOKDesk
    <3>1. reg \in [Regs -> RegRow] /\ resp \in [Resps -> RespRow] /\ delivered \in [Resps -> Nat]
      BY <2>1, <2>3, <2>4, DeskBlanks
    <3> QED
      BY <1>1, <1>2, <3>1, DeskTypes
  <2>7. PlaceKept /\ OverbookedOnlyByRace
    <3>1. IsFiniteSet(Rows) /\ Cardinality(Rows) = 1
      BY <2>5, FS_Singleton
    <3>2. /\ Cardinality({s \in Rows : reg[s].how = "counted"}) \in Nat
          /\ Cardinality({s \in Rows : reg[s].how = "counted"}) <= Cardinality(Rows)
      BY <3>1, FS_Subset, FS_CardinalityType
    <3> QED
      BY <1>3, <2>1, <3>1, <3>2, DeskAssumption DEF PlaceKept, OverbookedOnlyByRace
  <2>8. CallsTrue
    <3>1. \A y \in Resps : IF y = x THEN delivered[y] = 1 /\ resp[y].crm = "sent" /\ resp[y].is = "row"
                                    ELSE delivered[y] = 0 /\ resp[y].crm # "sent"
      <4>1. NoResp.crm # "sent"
        BY DEF NoResp
      <4> QED
        BY <2>1, <2>3, <2>4, <4>1
    <3> QED
      BY <1>3, <1>5, <3>1 DEF CallsTrue, OneAtATime, DispatchedBy
  <2> QED
    BY <1>6, <2>6, <2>7, <2>8 DEF DeskInv
<1> QED
  BY <1>7, <1>8 DEF InitDesk

-----------------------------------------------------------------------------
LEMMA SubmitTyped ==
  ASSUME TypeOKDesk, NEW u \in Subs,
         \/ SubmitForm(u) \/ Promote(u) \/ Find(u) \/ Count(u) \/ Respond(u)
         \/ RespondAnonymously(u) \/ Dispatch(u) \/ StartImport(u)
  PROVE  TypeOKDesk'
<1>1. /\ event \in EventStatuses /\ reg \in [Regs -> RegRow] /\ resp \in [Resps -> RespRow]
      /\ docs \in [Docs -> {"none", "tmp", "final", "pruned"}]
      /\ sub \in [Subs -> Submission] /\ webhooks \in [Resps -> Calls]
      /\ muddled \subseteq Resps /\ received \in Nat /\ sub[u] \in Submission
  BY DeskTypes
<1>2. Rows \subseteq Regs /\ Responses \subseteq Resps
  BY DEF Rows, Responses
<1> DEFINE s == sub[u]
<1>3. CASE SubmitForm(u)
  <2>1. PICK f \in EventForms, p \in Phones \cup {None}, d \in Docs \cup {None} :
          /\ received' = received + 1
          /\ GoesOn(u, [NoSub EXCEPT !.at = IF d = None THEN "find" ELSE "promote",
                             !.form = f, !.phone = p, !.doc = d, !.event = event])
          /\ UNCHANGED <<event, reg, resp, docs, webhooks, staff, told, edits, faults, history>>
    BY <1>3 DEF SubmitForm
  <2>2. [NoSub EXCEPT !.at = IF d = None THEN "find" ELSE "promote",
                      !.form = f, !.phone = p, !.doc = d, !.event = event] \in Submission
    <3>1. (IF d = None THEN "find" ELSE "promote") \in SubSteps
      BY DEF SubSteps
    <3>2. ASSUME NEW a \in SubSteps
          PROVE  [NoSub EXCEPT !.at = a, !.form = f, !.phone = p, !.doc = d, !.event = event] \in Submission
      BY <1>1, DeskBlanks DEF Submission
    <3> QED
      BY <3>1, <3>2
  <2>3. sub' \in [Subs -> Submission]
    BY <2>1, <2>2, SubMoves
  <2> QED
    BY <1>1, <2>1, <2>3, DeskTypes, DeskRetyped DEF history, Rows
<1>4. CASE Promote(u)
  <2>1. [s EXCEPT !.at = "find"] \in Submission
    BY <1>1 DEF Submission, SubSteps
  <2>2. sub' \in [Subs -> Submission]
    BY <1>4, <2>1, SubMoves, SubEnds DEF Promote
  <2>3. docs' \in [Docs -> {"none", "tmp", "final", "pruned"}]
    BY <1>1, <1>4 DEF Promote
  <2> QED
    BY <1>4, <2>2, <2>3, DeskTypes, DeskRetyped DEF Promote, Bounded, history, Rows
<1>5. CASE Find(u)
  <2>1. \A r \in Rows : [s EXCEPT !.at = "respond", !.reg = r] \in Submission
    BY <1>1, <1>2 DEF Submission, SubSteps
  <2>2. [s EXCEPT !.at = "count"] \in Submission
    BY <1>1 DEF Submission, SubSteps
  <2>3. sub' \in [Subs -> Submission]
    BY <1>5, <2>1, <2>2, SubMoves, SubEnds DEF Find, Known
  <2> QED
    BY <1>5, <2>3, DeskTypes, DeskRetyped DEF Find, Bounded, history, Rows
<1>6. CASE Count(u)
  <2>1. [s EXCEPT !.at = "create", !.raced = FALSE] \in Submission
    BY <1>1 DEF Submission, SubSteps
  <2>2. sub' \in [Subs -> Submission]
    BY <1>6, <2>1, SubMoves, SubEnds DEF Count
  <2> QED
    BY <1>6, <2>2, DeskTypes, DeskRetyped DEF Count, Bounded, history, Rows
<1>7. CASE Respond(u)
  <2>1. ASSUME NEW x \in Responses, resp' = [resp EXCEPT ![x].doc = s.doc],
               GoesOn(u, [s EXCEPT !.at = "crm", !.resp = x, !.crm = resp[x].crm]),
               muddled' = IF Dispatching(x) \/ InFlight(x) THEN muddled \cup {x} ELSE muddled
        PROVE  resp' \in [Resps -> RespRow] /\ sub' \in [Subs -> Submission] /\ muddled' \subseteq Resps
    <3>1. x \in Resps /\ resp[x] \in RespRow
      BY <1>1, <1>2, <2>1
    <3>2. [s EXCEPT !.at = "crm", !.resp = x, !.crm = resp[x].crm] \in Submission
      BY <1>1, <3>1 DEF Submission, SubSteps, RespRow
    <3>3. resp' \in [Resps -> RespRow]
      BY <1>1, <2>1, <3>1 DEF RespRow, Submission
    <3>4. sub' \in [Subs -> Submission]
      BY <2>1, <3>2, SubMoves
    <3> QED
      BY <1>1, <2>1, <3>1, <3>3, <3>4
  <2>2. ASSUME NEW x \in Resps, s.reg \in Rows,
               resp' = [resp EXCEPT ![x] = [NoResp EXCEPT !.is = "row", !.form = s.form,
                                            !.reg = s.reg, !.doc = s.doc]],
               GoesOn(u, [s EXCEPT !.at = "crm", !.resp = x]), UNCHANGED muddled
        PROVE  resp' \in [Resps -> RespRow] /\ sub' \in [Subs -> Submission] /\ muddled' \subseteq Resps
    <3>1. [NoResp EXCEPT !.is = "row", !.form = s.form, !.reg = s.reg, !.doc = s.doc] \in RespRow
      BY <1>1, DeskBlanks DEF RespRow, Submission
    <3>2. [s EXCEPT !.at = "crm", !.resp = x] \in Submission
      BY <1>1 DEF Submission, SubSteps
    <3>3. resp' \in [Resps -> RespRow]
      BY <1>1, <2>2, <3>1
    <3> QED
      BY <1>1, <2>2, <3>2, <3>3, SubMoves
  <2>3. ASSUME Answers(u), UNCHANGED <<resp, muddled>>
        PROVE  resp' \in [Resps -> RespRow] /\ sub' \in [Subs -> Submission] /\ muddled' \subseteq Resps
    BY <1>1, <2>3, SubEnds
  <2>4. resp' \in [Resps -> RespRow] /\ sub' \in [Subs -> Submission] /\ muddled' \subseteq Resps
    BY <1>7, <2>1, <2>2, <2>3 DEF Respond
  <2> QED
    BY <1>7, <2>4, DeskTypes, DeskRetyped DEF Respond, Bounded, Rows
<1>8. CASE RespondAnonymously(u)
  <2>1. [NoResp EXCEPT !.is = "row", !.form = s.form, !.doc = s.doc] \in RespRow
    BY <1>1, DeskBlanks DEF RespRow, Submission
  <2>2. resp' \in [Resps -> RespRow]
    BY <1>1, <1>8, <2>1 DEF RespondAnonymously
  <2>3. sub' \in [Subs -> Submission]
    BY <1>8, SubEnds DEF RespondAnonymously
  <2> QED
    BY <1>8, <2>2, <2>3, DeskTypes, DeskRetyped DEF RespondAnonymously, Bounded, history, Rows
<1>9. CASE Dispatch(u)
  <2>1. sub' \in [Subs -> Submission]
    BY <1>9, SubEnds DEF Dispatch
  <2>2. resp' \in [Resps -> RespRow]
    <3>1. CASE resp' = resp
      BY <1>1, <3>1
    <3>2. CASE /\ s.resp \in Responses
               /\ resp' = [resp EXCEPT ![s.resp].crm = IF s.form \in Crm THEN "pending" ELSE "skipped"]
      <4>1. resp[s.resp] \in RespRow /\ s.resp \in Resps
        BY <1>1, <1>2, <3>2
      <4>2. \A c \in CrmStatuses : [resp[s.resp] EXCEPT !.crm = c] \in RespRow
        BY <4>1 DEF RespRow
      <4>3. (IF s.form \in Crm THEN "pending" ELSE "skipped") \in CrmStatuses
        BY DEF CrmStatuses
      <4> QED
        BY <1>1, <3>2, <4>1, <4>2, <4>3
    <3> QED
      BY <1>9, <3>1, <3>2 DEF Dispatch
  <2>3. webhooks' \in [Resps -> Calls]
    <3>1. CASE webhooks' = webhooks
      BY <1>1, <3>1
    <3>2. CASE s.resp \in Responses /\ webhooks' = [webhooks EXCEPT ![s.resp].out = webhooks[s.resp].out + 1]
      <4>1. webhooks[s.resp] \in Calls
        BY <1>1, <1>2, <3>2
      <4>2. webhooks[s.resp].out + 1 \in Nat
        BY <4>1 DEF Calls
      <4> QED
        BY <1>1, <3>2, <4>1, <4>2 DEF Calls
    <3> QED
      BY <1>9, <3>1, <3>2 DEF Dispatch
  <2> QED
    BY <1>9, <2>1, <2>2, <2>3, DeskTypes, DeskRetyped DEF Dispatch, Bounded, history, Rows
<1>10. CASE StartImport(u)
  <2>1. PICK f \in EventForms, p \in Phones :
          /\ received' = received + 1
          /\ GoesOn(u, [NoSub EXCEPT !.at = "import", !.form = f, !.phone = p])
          /\ UNCHANGED <<event, reg, resp, docs, webhooks, staff, told, edits, faults, history>>
    BY <1>10 DEF StartImport
  <2>2. [NoSub EXCEPT !.at = "import", !.form = f, !.phone = p] \in Submission
    BY DeskBlanks DEF Submission, SubSteps
  <2>3. sub' \in [Subs -> Submission]
    BY <2>1, <2>2, SubMoves
  <2> QED
    BY <1>1, <2>1, <2>3, DeskTypes, DeskRetyped DEF history, Rows
<1> QED
  BY <1>3, <1>4, <1>5, <1>6, <1>7, <1>8, <1>9, <1>10

LEMMA InsertTyped ==
  ASSUME TypeOKDesk, NEW u \in Subs, Create(u) \/ ImportRow(u)
  PROVE  TypeOKDesk'
<1>1. sub \in [Subs -> Submission] /\ sub[u] \in Submission /\ told \subseteq Rows
  BY DeskTypes
<1>2. ASSUME Answers(u), UNCHANGED reg PROVE reg' \in [Regs -> RegRow] /\ sub' \in [Subs -> Submission]
                                              /\ told \subseteq Rows'
  BY <1>2, DeskTypes, SubEnds DEF Rows
<1>3. ASSUME NEW r \in Regs, NEW how \in {"counted", "raced", "imported"}, NEW s \in Submission,
             reg[r].is = "free", Created(u, r, how),
             sub' = [v \in Subs |-> IF v = u THEN s
                                    ELSE [sub[v] EXCEPT !.raced = sub[v].at = "create"]]
      PROVE  reg' \in [Regs -> RegRow] /\ sub' \in [Subs -> Submission] /\ told \subseteq Rows'
  <2>1. \A v \in Subs : [sub[v] EXCEPT !.raced = sub[v].at = "create"] \in Submission
    BY <1>1 DEF Submission
  <2> QED
    BY <1>1, <1>3, <2>1, CreatedRows
<1>4. CASE Create(u)
  <2>1. \A r \in Regs : [sub[u] EXCEPT !.at = "respond", !.reg = r] \in Submission
    BY <1>1 DEF Submission, SubSteps
  <2>2. reg' \in [Regs -> RegRow] /\ sub' \in [Subs -> Submission] /\ told \subseteq Rows'
    BY <1>2, <1>3, <1>4, <2>1 DEF Create
  <2> QED
    BY <1>4, <2>2, DeskTypes, DeskRetyped DEF Create, Bounded, history
<1>5. CASE ImportRow(u)
  <2>1. reg' \in [Regs -> RegRow] /\ sub' \in [Subs -> Submission] /\ told \subseteq Rows'
    BY <1>2, <1>3, <1>5, DeskBlanks DEF ImportRow
  <2> QED
    BY <1>5, <2>1, DeskTypes, DeskRetyped DEF ImportRow, Bounded, history
<1> QED
  BY <1>4, <1>5

LEMMA EndedTyped ==
  ASSUME TypeOKDesk, ProcessEnds
  PROVE  /\ sub' \in [Subs -> Submission] /\ staff' \in [Staff -> Asked]
         /\ webhooks' \in [Resps -> Calls] /\ delivered' \in [Resps -> Nat] /\ muddled' \subseteq Resps
<1>1. webhooks \in [Resps -> Calls] /\ delivered \in [Resps -> Nat] /\ muddled \subseteq Resps
  BY DeskTypes
<1>2. PICK reached \in SUBSET {x \in Resps : webhooks[x].out > 0} :
        /\ delivered' = [x \in Resps |-> delivered[x] + IF x \in reached THEN webhooks[x].out ELSE 0]
        /\ muddled' = muddled \cup reached \cup {x \in Resps : webhooks[x].ok > 0}
  BY DEF ProcessEnds
<1>3. \A x \in Resps : delivered[x] + (IF x \in reached THEN webhooks[x].out ELSE 0) \in Nat
  BY <1>1 DEF Calls
<1>4. delivered' \in [Resps -> Nat]
  BY <1>2, <1>3
<1>5. muddled' \subseteq Resps
  BY <1>1, <1>2
<1>6. sub' \in [Subs -> Submission] /\ staff' \in [Staff -> Asked] /\ webhooks' \in [Resps -> Calls]
  BY DeskBlanks DEF ProcessEnds
<1> QED
  BY <1>4, <1>5, <1>6

LEMMA CallsTyped ==
  ASSUME TypeOKDesk, NEW x \in Resps,
         CallEnds(x) \/ RecordSent(x) \/ RecordFailed(x) \/ RecordNowhere(x) \/ Crash
  PROVE  TypeOKDesk'
<1>1. /\ webhooks \in [Resps -> Calls] /\ delivered \in [Resps -> Nat] /\ resp \in [Resps -> RespRow]
      /\ muddled \subseteq Resps /\ faults \in Nat
      /\ webhooks[x] \in Calls /\ resp[x] \in RespRow
      /\ webhooks[x].out \in Nat /\ webhooks[x].ok \in Nat /\ webhooks[x].failed \in Nat
      /\ delivered[x] + 1 \in Nat /\ faults + 1 \in Nat
  BY DeskTypes DEF Calls
<1>2. \A f \in Nat : [webhooks EXCEPT ![x].failed = f] \in [Resps -> Calls]
  BY <1>1 DEF Calls
<1>3. [delivered EXCEPT ![x] = delivered[x] + 1] \in [Resps -> Nat]
  BY <1>1
<1>4. CASE CallEnds(x)
  <2>1. webhooks[x].out - 1 \in Nat /\ webhooks[x].ok + 1 \in Nat /\ webhooks[x].failed + 1 \in Nat
    BY <1>1, <1>4 DEF CallEnds
  <2> DEFINE o == webhooks[x].out - 1
             k == webhooks[x].ok + 1
             f == webhooks[x].failed + 1
  <2>4. \/ webhooks' = [webhooks EXCEPT ![x].out = o, ![x].ok = k]
        \/ webhooks' = [webhooks EXCEPT ![x].out = o, ![x].failed = f]
    BY <1>4 DEF CallEnds
  <2>5. o \in Nat /\ k \in Nat /\ f \in Nat
    BY <2>1
  <2> HIDE DEF o, k, f
  <2>2. webhooks' \in [Resps -> Calls]
    <3>1. CASE webhooks' = [webhooks EXCEPT ![x].out = o, ![x].ok = k]
      BY <1>1, <2>5, <3>1 DEF Calls
    <3>2. CASE webhooks' = [webhooks EXCEPT ![x].out = o, ![x].failed = f]
      BY <1>1, <2>5, <3>2 DEF Calls
    <3> QED
      BY <2>4, <3>1, <3>2
  <2>3. delivered' \in [Resps -> Nat] /\ muddled' \subseteq Resps /\ faults' \in Nat
    BY <1>1, <1>3, <1>4 DEF CallEnds, Fault
  <2> QED
    BY <1>4, <2>2, <2>3, DeskTypes, DeskRetyped DEF CallEnds, Rows
<1>5. CASE RecordSent(x)
  <2>1. webhooks[x].ok - 1 \in Nat /\ webhooks[x].failed + 1 \in Nat
    BY <1>1, <1>5 DEF RecordSent
  <2> DEFINE k == webhooks[x].ok - 1
             f == webhooks[x].failed + 1
  <2>5. \/ webhooks' = [webhooks EXCEPT ![x].ok = k]
        \/ webhooks' = [webhooks EXCEPT ![x].ok = k, ![x].failed = f]
    BY <1>5 DEF RecordSent
  <2>6. k \in Nat /\ f \in Nat
    BY <2>1
  <2> HIDE DEF k, f
  <2>2. webhooks' \in [Resps -> Calls]
    <3>1. CASE webhooks' = [webhooks EXCEPT ![x].ok = k]
      BY <1>1, <2>6, <3>1 DEF Calls
    <3>2. CASE webhooks' = [webhooks EXCEPT ![x].ok = k, ![x].failed = f]
      BY <1>1, <2>6, <3>2 DEF Calls
    <3> QED
      BY <2>5, <3>1, <3>2
  <2>3. muddled' \subseteq Resps /\ faults' \in Nat
    BY <1>1, <1>5 DEF RecordSent, Fault
  <2>4. resp' \in [Resps -> RespRow]
    <3>1. [resp[x] EXCEPT !.crm = "sent"] \in RespRow
      BY <1>1 DEF RespRow, CrmStatuses
    <3> QED
      BY <1>1, <1>5, <3>1 DEF RecordSent
  <2> QED
    BY <1>5, <2>2, <2>3, <2>4, DeskTypes, DeskRetyped DEF RecordSent, Rows
<1>6. CASE RecordFailed(x)
  <2>1. webhooks[x].failed - 1 \in Nat
    BY <1>1, <1>6 DEF RecordFailed
  <2>2. webhooks' \in [Resps -> Calls]
    BY <1>2, <1>6, <2>1 DEF RecordFailed
  <2>4. resp' \in [Resps -> RespRow]
    <3>1. [resp[x] EXCEPT !.crm = "failed"] \in RespRow
      BY <1>1 DEF RespRow, CrmStatuses
    <3> QED
      BY <1>1, <1>6, <3>1 DEF RecordFailed
  <2> QED
    BY <1>6, <2>2, <2>4, DeskTypes, DeskRetyped DEF RecordFailed, Bounded, history, Rows
<1>7. CASE RecordNowhere(x)
  BY <1>7, EndedTyped, DeskTypes, DeskRetyped DEF RecordNowhere, Bounded, Rows
<1>8. CASE Crash
  BY <1>1, <1>8, EndedTyped, DeskTypes, DeskRetyped DEF Crash, Fault, Rows
<1> QED
  BY <1>4, <1>5, <1>6, <1>7, <1>8

LEMMA StaffTyped ==
  ASSUME TypeOKDesk,
         \/ \E x \in Resps : DeleteResp(x)
         \/ \E r \in Regs : SetStatus(r) \/ DeleteReg(r)
         \/ \E d \in Docs : Upload(d) \/ Prune(d)
         \/ \E a \in Staff : ReadEvent(a) \/ WriteEvent(a) \/ ListActive(a) \/ Tell(a) \/ TellEnds(a)
  PROVE  TypeOKDesk'
<1>1. /\ resp \in [Resps -> RespRow] /\ reg \in [Regs -> RegRow] /\ staff \in [Staff -> Asked]
      /\ docs \in [Docs -> {"none", "tmp", "final", "pruned"}] /\ told \subseteq Rows
      /\ edits \in Nat /\ faults \in Nat /\ event \in EventStatuses
  BY DeskTypes
<1>2. edits + 1 \in Nat /\ faults + 1 \in Nat /\ Rows \subseteq Regs
  BY <1>1 DEF Rows
<1>3. ASSUME NEW x \in Resps, DeleteResp(x) PROVE TypeOKDesk'
  <2>1. [resp[x] EXCEPT !.is = "gone"] \in RespRow
    BY <1>1 DEF RespRow
  <2>2. resp' \in [Resps -> RespRow]
    BY <1>1, <1>3, <2>1 DEF DeleteResp
  <2> QED
    BY <1>2, <1>3, <2>2, DeskTypes, DeskRetyped DEF DeleteResp, Edit, history, Rows
<1>4. ASSUME NEW r \in Regs, SetStatus(r) PROVE TypeOKDesk'
  <2>1. PICK s \in FunnelStatuses : reg' = [reg EXCEPT ![r].status = s, ![r].late = reg[r].late \/ event # "published"]
    BY <1>4 DEF SetStatus
  <2>2. [reg[r] EXCEPT !.status = s, !.late = reg[r].late \/ event # "published"] \in RegRow
    BY <1>1 DEF RegRow
  <2>3. reg' \in [Regs -> RegRow]
    BY <1>1, <2>1, <2>2
  <2>4. Rows' = Rows
    BY <1>1, <2>1 DEF Rows, RegRow
  <2> QED
    BY <1>2, <1>4, <2>3, <2>4, DeskTypes, DeskRetyped DEF SetStatus, Edit, history
<1>5. ASSUME NEW r \in Regs, DeleteReg(r) PROVE TypeOKDesk'
  <2>1. [reg[r] EXCEPT !.is = "gone"] \in RegRow /\ \A x \in Resps : [resp[x] EXCEPT !.is = "gone"] \in RespRow
    BY <1>1, SMTT(20) DEF RegRow, RespRow
  <2>2. reg' \in [Regs -> RegRow] /\ resp' \in [Resps -> RespRow]
    BY <1>1, <1>5, <2>1 DEF DeleteReg
  <2>3. told' \subseteq Rows'
    BY <1>1, <1>5 DEF DeleteReg, Rows
  <2> QED
    BY <1>2, <1>5, <2>2, <2>3, DeskTypes, DeskRetyped DEF DeleteReg, Edit, history
<1>6. ASSUME NEW d \in Docs, Upload(d) \/ Prune(d) PROVE TypeOKDesk'
  <2>1. docs' \in [Docs -> {"none", "tmp", "final", "pruned"}] /\ edits' \in Nat
    BY <1>1, <1>2, <1>6 DEF Upload, Prune, Edit, Bounded
  <2> QED
    BY <1>6, <2>1, DeskTypes, DeskRetyped DEF Upload, Prune, Edit, Bounded, history, Rows
<1>7. ASSUME NEW a \in Staff, ReadEvent(a) PROVE TypeOKDesk'
  <2>1. PICK to \in Transitions[event] : staff' = [staff EXCEPT ![a] = [NoStaff EXCEPT !.at = "write", !.to = to]]
    BY <1>7 DEF ReadEvent
  <2>2. to \in EventStatuses
    BY <1>1 DEF Transitions, EventStatuses
  <2>3. [NoStaff EXCEPT !.at = "write", !.to = to] \in Asked
    BY <2>2 DEF NoStaff, Asked
  <2>4. staff' \in [Staff -> Asked]
    BY <1>1, <2>1, <2>3
  <2> QED
    BY <1>2, <1>7, <2>4, DeskTypes, DeskRetyped DEF ReadEvent, Edit, history, Rows
<1>8. ASSUME NEW a \in Staff, WriteEvent(a) PROVE TypeOKDesk'
  <2> DEFINE others == [b \in Staff |-> [staff[b] EXCEPT !.clean = FALSE]]
             lists == [staff[a] EXCEPT !.at = "list", !.clean = TRUE]
  <2>1. others \in [Staff -> Asked] /\ lists \in Asked /\ staff[a].to \in EventStatuses
    BY <1>1 DEF Asked
  <2>2. staff' = [others EXCEPT ![a] = lists] \/ staff' = [others EXCEPT ![a] = NoStaff]
    BY <1>8 DEF WriteEvent
  <2> HIDE DEF others, lists
  <2>3. staff' \in [Staff -> Asked]
    BY <2>1, <2>2, DeskBlanks
  <2> QED
    BY <1>8, <2>1, <2>3, DeskTypes, DeskRetyped DEF WriteEvent, Bounded, Rows
<1>9. ASSUME NEW a \in Staff, ListActive(a) \/ Tell(a) \/ TellEnds(a) PROVE TypeOKDesk'
  <2>1. staff[a] \in Asked /\ ActiveRegs \subseteq Regs
    BY <1>1, <1>2 DEF ActiveRegs
  <2>2. /\ [staff[a] EXCEPT !.at = "tell", !.left = ActiveRegs] \in Asked
        /\ \A r : [staff[a] EXCEPT !.left = staff[a].left \ {r}] \in Asked
        /\ \A r : [staff[a] EXCEPT !.left = staff[a].left \ {r}, !.clean = FALSE] \in Asked
    BY <2>1 DEF Asked
  <2>3. CASE ListActive(a)
    <3>1. staff' \in [Staff -> Asked]
      BY <1>1, <2>2, <2>3, DeskBlanks DEF ListActive
    <3> QED
      BY <2>3, <3>1, DeskTypes, DeskRetyped DEF ListActive, Bounded, history, Rows
  <2>4. CASE Tell(a)
    <3>2. PICK r \in staff[a].left :
            \/ /\ told' = IF r \in Rows THEN told \cup {r} ELSE told
               /\ staff' = [staff EXCEPT ![a].left = staff[a].left \ {r}]
               /\ UNCHANGED faults
            \/ /\ staff' = [staff EXCEPT ![a].left = staff[a].left \ {r}, ![a].clean = FALSE]
               /\ Fault /\ UNCHANGED told
      BY <2>4 DEF Tell
    <3>3. staff' \in [Staff -> Asked]
      <4>1. CASE staff' = [staff EXCEPT ![a].left = staff[a].left \ {r}]
        BY <1>1, <2>2, <4>1
      <4>2. CASE staff' = [staff EXCEPT ![a].left = staff[a].left \ {r}, ![a].clean = FALSE]
        BY <1>1, <2>2, <4>2
      <4> QED
        BY <3>2, <4>1, <4>2
    <3>1. staff' \in [Staff -> Asked] /\ told' \subseteq Rows /\ faults' \in Nat
      BY <1>1, <1>2, <3>2, <3>3 DEF Fault
    <3> QED
      BY <2>4, <3>1, DeskTypes, DeskRetyped DEF Tell, history, Rows
  <2>5. CASE TellEnds(a)
    <3>1. staff' \in [Staff -> Asked]
      BY <1>1, <2>5, DeskBlanks DEF TellEnds
    <3>2. notified' \in BOOLEAN
      BY <2>1, <2>5, DeskTypes DEF TellEnds, Asked
    <3> QED
      BY <2>5, <3>1, <3>2, DeskTypes, DeskRetyped DEF TellEnds, Bounded, Rows
  <2> QED
    BY <1>9, <2>3, <2>4, <2>5
<1> QED
  BY <1>3, <1>4, <1>5, <1>6, <1>7, <1>8, <1>9

LEMMA DeskTypedNext == TypeOKDesk /\ [NextDesk]_deskVars => TypeOKDesk'
<1> SUFFICES ASSUME TypeOKDesk, [NextDesk]_deskVars PROVE TypeOKDesk'
  OBVIOUS
<1>1. CASE UNCHANGED deskVars
  BY <1>1 DEF deskVars, desk, history, TypeOKDesk, Rows
<1>2. CASE Crash
  <2>2. faults' \in Nat
    BY <1>2, DeskTypes DEF Crash, Fault
  <2> QED
    BY <1>2, <2>2, EndedTyped, DeskTypes, DeskRetyped DEF Crash, Rows
<1> QED
  BY <1>1, <1>2, SubmitTyped, InsertTyped, CallsTyped, StaffTyped DEF NextDesk

-----------------------------------------------------------------------------
(* Places: the counted rows. *)
Counted == {r \in Rows : reg[r].how = "counted"}

LEMMA CountedBound ==
  ASSUME IsFiniteSet(Rows)
  PROVE  /\ Cardinality(Rows) \in Nat /\ IsFiniteSet(Counted)
         /\ Cardinality(Counted) \in Nat /\ Cardinality(Counted) <= Cardinality(Rows)
<1>1. Counted \subseteq Rows
  BY DEF Counted
<1> QED
  BY <1>1, FS_Subset, FS_CardinalityType

\* The rows as they were, and no submission has come to an insert of its own.
LEMMA PlaceFramed ==
  ASSUME PlaceKept, OverbookedOnlyByRace,
         Rows' = Rows, \A r \in Rows : reg'[r].how = reg[r].how,
         \A u \in Subs : sub'[u].at = "create" /\ ~ sub'[u].raced
                           => sub[u].at = "create" /\ ~ sub[u].raced
  PROVE  PlaceKept' /\ OverbookedOnlyByRace'
<1>1. {r \in Rows' : reg'[r].how = "counted"} = {r \in Rows : reg[r].how = "counted"}
  OBVIOUS
<1> QED
  BY <1>1 DEF PlaceKept, OverbookedOnlyByRace

LEMMA PlaceInserted ==
  ASSUME TypeOKDesk, PlaceKept, OverbookedOnlyByRace, NEW u \in Subs,
         Create(u) \/ ImportRow(u)
  PROVE  PlaceKept' /\ OverbookedOnlyByRace'
<1>1. sub \in [Subs -> Submission]
  BY DeskTypes
<1>2. CASE Answers(u) /\ UNCHANGED reg
  <2>1. Rows' = Rows
    BY <1>2 DEF Rows
  <2>2. \A v \in Subs : sub'[v].at = "create" => sub'[v] = sub[v]
    BY <1>1, <1>2 DEF Answers, NoSub
  <2> QED
    BY <1>2, <2>1, <2>2, PlaceFramed
<1>3. ASSUME NEW r \in Regs, NEW how \in {"counted", "raced", "imported"}, NEW s,
             s.at # "create", reg[r].is = "free", Created(u, r, how),
             how = "counted" => sub[u].at = "create" /\ ~ sub[u].raced,
             sub' = [v \in Subs |-> IF v = u THEN s
                                    ELSE [sub[v] EXCEPT !.raced = sub[v].at = "create"]]
      PROVE  PlaceKept' /\ OverbookedOnlyByRace'
  <2>1. /\ Rows' = Rows \cup {r} /\ r \notin Rows /\ reg'[r].how = how
        /\ \A q \in Regs \ {r} : reg'[q] = reg[q]
    BY <1>3, CreatedRows
  <2>2. IsFiniteSet(Rows)
    BY DEF PlaceKept
  <2>3. IsFiniteSet(Rows')
    BY <2>1, <2>2, FS_AddElement
  <2>4. \A v \in Subs : sub'[v].at = "create" => sub'[v].raced
    <3>1. \A v \in Subs : v # u /\ sub'[v].at = "create" => sub[v].at = "create"
      BY <1>1, <1>3 DEF Submission
    <3>2. \A v \in Subs : v # u => sub'[v].raced = (sub[v].at = "create")
      BY <1>1, <1>3 DEF Submission
    <3>3. sub'[u].at # "create"
      BY <1>3
    <3> QED
      BY <3>1, <3>2, <3>3
  <2>5. PlaceKept'
    BY <2>3, <2>4 DEF PlaceKept
  <2>6. /\ IsFiniteSet(Counted) /\ Cardinality(Counted) \in Nat /\ Cardinality(Rows) \in Nat
        /\ Cardinality(Counted) <= Cardinality(Rows) /\ Cardinality(Counted) <= Capacity
    BY <2>2, CountedBound DEF OverbookedOnlyByRace, Counted
  <2>7. Rows \subseteq Regs
    BY DEF Rows
  <2>8. CASE how = "counted"
    <3>1. Cardinality(Rows) < Capacity
      BY <1>3, <2>8 DEF PlaceKept
    <3>2. {q \in Rows' : reg'[q].how = "counted"} = Counted \cup {r} /\ r \notin Counted
      BY <2>1, <2>7, <2>8 DEF Counted
    <3>3. Cardinality(Counted \cup {r}) = Cardinality(Counted) + 1
      BY <2>6, <3>2, FS_AddElement
    <3>5. Capacity \in Nat
      BY DeskAssumption
    <3>6. Cardinality(Counted) + 1 <= Capacity
      BY <2>6, <3>1, <3>5
    <3>4. Cardinality({q \in Rows' : reg'[q].how = "counted"}) <= Capacity
      BY <3>2, <3>3, <3>6
    <3> QED
      BY <2>5, <3>4 DEF OverbookedOnlyByRace
  <2>9. CASE how # "counted"
    <3>1. {q \in Rows' : reg'[q].how = "counted"} = Counted
      BY <2>1, <2>7, <2>9 DEF Counted
    <3> QED
      BY <2>5, <2>6, <3>1 DEF OverbookedOnlyByRace
  <2> QED
    BY <2>8, <2>9
<1>4. CASE Create(u) /\ ~ (Answers(u) /\ UNCHANGED reg)
  <2>1. PICK r \in Regs :
          /\ reg[r].is = "free" /\ sub[u].at = "create"
          /\ Created(u, r, IF sub[u].raced THEN "raced" ELSE "counted")
          /\ sub' = [v \in Subs |-> IF v = u THEN [sub[u] EXCEPT !.at = "respond", !.reg = r]
                                    ELSE [sub[v] EXCEPT !.raced = sub[v].at = "create"]]
    BY <1>4 DEF Create
  <2>2. [sub[u] EXCEPT !.at = "respond", !.reg = r].at # "create"
    BY <1>1 DEF Submission
  <2>3. CASE sub[u].raced
    BY <1>3, <2>1, <2>2, <2>3
  <2>4. CASE ~ sub[u].raced
    BY <1>3, <2>1, <2>2, <2>4
  <2> QED
    BY <2>3, <2>4
<1>5. CASE ImportRow(u) /\ ~ (Answers(u) /\ UNCHANGED reg)
  <2>1. PICK r \in Regs :
          /\ reg[r].is = "free" /\ Created(u, r, "imported")
          /\ sub' = [v \in Subs |-> IF v = u THEN NoSub
                                    ELSE [sub[v] EXCEPT !.raced = sub[v].at = "create"]]
    BY <1>5 DEF ImportRow
  <2>2. NoSub.at # "create"
    BY DEF NoSub
  <2> QED
    BY <1>3, <2>1, <2>2
<1> QED
  BY <1>2, <1>4, <1>5

LEMMA PlaceCounted ==
  ASSUME TypeOKDesk, PlaceKept, OverbookedOnlyByRace, NEW u \in Subs, Count(u)
  PROVE  PlaceKept' /\ OverbookedOnlyByRace'
<1>1. sub \in [Subs -> Submission] /\ Rows' = Rows /\ UNCHANGED reg /\ IsFiniteSet(Rows)
  BY DeskTypes DEF Count, Rows, PlaceKept
<1>2. Cardinality(Rows) \in Nat
  BY <1>1, FS_CardinalityType
<1>3. CASE Answers(u)
  <2>1. \A v \in Subs : sub'[v].at = "create" => sub'[v] = sub[v]
    BY <1>1, <1>3 DEF Answers, NoSub
  <2> QED
    BY <1>1, <2>1, PlaceFramed
<1>4. CASE ~Full /\ GoesOn(u, [sub[u] EXCEPT !.at = "create", !.raced = FALSE])
  <2>1. Cardinality(Rows) < Capacity
    BY <1>2, <1>4, DeskAssumption DEF Full
  <2>2. PlaceKept'
    BY <1>1, <2>1 DEF PlaceKept
  <2>3. OverbookedOnlyByRace'
    BY <1>1 DEF OverbookedOnlyByRace
  <2> QED
    BY <2>2, <2>3
<1> QED
  BY <1>3, <1>4 DEF Count

LEMMA PlaceDeleted ==
  ASSUME TypeOKDesk, PlaceKept, OverbookedOnlyByRace, NEW r \in Regs, DeleteReg(r)
  PROVE  PlaceKept' /\ OverbookedOnlyByRace'
<1>1. reg \in [Regs -> RegRow] /\ IsFiniteSet(Rows) /\ UNCHANGED sub
  BY DeskTypes DEF DeleteReg, PlaceKept
<1>2. Rows' = Rows \ {r} /\ \A q \in Rows \ {r} : reg'[q] = reg[q]
  BY <1>1 DEF DeleteReg, Rows
<1>3. IsFiniteSet(Rows') /\ Cardinality(Rows') \in Nat /\ Cardinality(Rows) \in Nat
      /\ Cardinality(Rows') <= Cardinality(Rows)
  BY <1>1, <1>2, FS_Subset, FS_CardinalityType
<1>4. {q \in Rows' : reg'[q].how = "counted"} \subseteq Counted
  BY <1>2 DEF Counted
<1>5. /\ Cardinality({q \in Rows' : reg'[q].how = "counted"}) \in Nat
      /\ Cardinality({q \in Rows' : reg'[q].how = "counted"}) <= Cardinality(Counted)
      /\ Cardinality(Counted) \in Nat
  BY <1>1, <1>4, CountedBound, FS_Subset, FS_CardinalityType
<1>6. OverbookedOnlyByRace'
  BY <1>5, DeskAssumption DEF OverbookedOnlyByRace, Counted
<1>7. PlaceKept'
  BY <1>1, <1>3, DeskAssumption DEF PlaceKept
<1> QED
  BY <1>6, <1>7

LEMMA PlaceNext ==
  ASSUME TypeOKDesk, PlaceKept, OverbookedOnlyByRace, [NextDesk]_deskVars
  PROVE  PlaceKept' /\ OverbookedOnlyByRace'
<1>1. sub \in [Subs -> Submission] /\ reg \in [Regs -> RegRow]
  BY DeskTypes
<1>2. ASSUME UNCHANGED <<reg, sub>> PROVE PlaceKept' /\ OverbookedOnlyByRace'
  BY <1>2, PlaceFramed DEF Rows
<1>3. ASSUME UNCHANGED reg, sub' = [u \in Subs |-> NoSub] PROVE PlaceKept' /\ OverbookedOnlyByRace'
  BY <1>3, PlaceFramed DEF Rows, NoSub
<1>4. ASSUME NEW u \in Subs, NEW s, UNCHANGED reg, GoesOn(u, s), s.at # "create"
      PROVE  PlaceKept' /\ OverbookedOnlyByRace'
  BY <1>1, <1>4, PlaceFramed DEF Rows, GoesOn
<1>5. ASSUME NEW u \in Subs, UNCHANGED reg, Answers(u) PROVE PlaceKept' /\ OverbookedOnlyByRace'
  <2>1. NoSub.at # "create" /\ GoesOn(u, NoSub)
    BY <1>5 DEF Answers, GoesOn, NoSub
  <2> QED
    BY <1>4, <1>5, <2>1
<1>6. ASSUME NEW u \in Subs, SubmitForm(u) PROVE PlaceKept' /\ OverbookedOnlyByRace'
  <2>1. PICK f \in EventForms, p \in Phones \cup {None}, d \in Docs \cup {None} :
          GoesOn(u, [NoSub EXCEPT !.at = IF d = None THEN "find" ELSE "promote",
                             !.form = f, !.phone = p, !.doc = d, !.event = event])
          /\ UNCHANGED reg
    BY <1>6 DEF SubmitForm
  <2>2. [NoSub EXCEPT !.at = IF d = None THEN "find" ELSE "promote",
                      !.form = f, !.phone = p, !.doc = d, !.event = event].at # "create"
    BY DEF NoSub
  <2> QED
    BY <1>4, <2>1, <2>2
<1>7. ASSUME NEW u \in Subs, StartImport(u) PROVE PlaceKept' /\ OverbookedOnlyByRace'
  <2>1. PICK f \in EventForms, p \in Phones :
          GoesOn(u, [NoSub EXCEPT !.at = "import", !.form = f, !.phone = p]) /\ UNCHANGED reg
    BY <1>7 DEF StartImport
  <2>2. [NoSub EXCEPT !.at = "import", !.form = f, !.phone = p].at # "create"
    BY DEF NoSub
  <2> QED
    BY <1>4, <2>1, <2>2
<1>8. ASSUME NEW u \in Subs, Promote(u) \/ Find(u) \/ Respond(u) \/ RespondAnonymously(u) \/ Dispatch(u)
      PROVE  PlaceKept' /\ OverbookedOnlyByRace'
  <2>1. sub[u] \in Submission
    BY <1>1
  <2>2. /\ [sub[u] EXCEPT !.at = "find"].at # "create"
        /\ [sub[u] EXCEPT !.at = "count"].at # "create"
        /\ \A r : [sub[u] EXCEPT !.at = "respond", !.reg = r].at # "create"
        /\ \A x : [sub[u] EXCEPT !.at = "crm", !.resp = x].at # "create"
        /\ \A x, c : [sub[u] EXCEPT !.at = "crm", !.resp = x, !.crm = c].at # "create"
    BY <2>1 DEF Submission
  <2>3. CASE Promote(u)
    BY <1>4, <1>5, <2>2, <2>3 DEF Promote
  <2>4. CASE Find(u)
    BY <1>4, <1>5, <2>2, <2>4 DEF Find
  <2>5. CASE Respond(u)
    BY <1>4, <1>5, <2>2, <2>5 DEF Respond
  <2>6. CASE RespondAnonymously(u) \/ Dispatch(u)
    BY <1>5, <2>6 DEF RespondAnonymously, Dispatch
  <2> QED
    BY <1>8, <2>3, <2>4, <2>5, <2>6
<1>9. ASSUME NEW r \in Regs, SetStatus(r) PROVE PlaceKept' /\ OverbookedOnlyByRace'
  <2>1. PICK s \in FunnelStatuses : reg' = [reg EXCEPT ![r].status = s, ![r].late = reg[r].late \/ event # "published"]
    BY <1>9 DEF SetStatus
  <2>2. Rows' = Rows /\ \A q \in Rows : reg'[q].how = reg[q].how
    BY <1>1, <2>1 DEF Rows, RegRow
  <2> QED
    BY <1>9, <2>2, PlaceFramed DEF SetStatus
<1>10. ASSUME NEW x \in Resps,
              CallEnds(x) \/ RecordSent(x) \/ RecordFailed(x) \/ RecordNowhere(x) \/ DeleteResp(x)
       PROVE  PlaceKept' /\ OverbookedOnlyByRace'
  BY <1>2, <1>3, <1>10 DEF CallEnds, RecordSent, RecordFailed, RecordNowhere, ProcessEnds, DeleteResp
<1>11. CASE Crash
  BY <1>3, <1>11 DEF Crash, ProcessEnds
<1>12. ASSUME NEW d \in Docs, Upload(d) \/ Prune(d) PROVE PlaceKept' /\ OverbookedOnlyByRace'
  BY <1>2, <1>12 DEF Upload, Prune
<1>13. ASSUME NEW a \in Staff,
              ReadEvent(a) \/ WriteEvent(a) \/ ListActive(a) \/ Tell(a) \/ TellEnds(a)
       PROVE  PlaceKept' /\ OverbookedOnlyByRace'
  BY <1>2, <1>13 DEF ReadEvent, WriteEvent, ListActive, Tell, TellEnds
<1>14. CASE UNCHANGED deskVars
  BY <1>2, <1>14 DEF deskVars, desk
<1> QED
  BY <1>6, <1>7, <1>8, <1>9, <1>10, <1>11, <1>12, <1>13, <1>14,
     PlaceInserted, PlaceCounted, PlaceDeleted DEF NextDesk

-----------------------------------------------------------------------------
(* The CRM: what each step does to the calls for a response. *)

\* Nothing becomes of a response's calls: the submissions that are about to dispatch one
\* were about to do so, with the status they read; its row says what it said, or is new.
LEMMA CallsFramed ==
  ASSUME CallsTrue, TypeOKDesk,
         UNCHANGED <<webhooks, delivered, muddled>>,
         \A x \in Resps : /\ resp'[x].crm = resp[x].crm \/ (resp[x].is = "free" /\ resp'[x].crm = "null")
                          /\ resp'[x].is = "free" => resp[x].is = "free",
         \A u \in Subs : IF sub'[u].at = "crm"
                         THEN sub[u].at = "crm" /\ sub'[u].resp = sub[u].resp /\ sub'[u].crm = sub[u].crm
                         ELSE sub'[u].crm = "null"
  PROVE  CallsTrue'
<1>1. \A x : CallsFor(x)' = CallsFor(x)
  BY DEF CallsFor
<1>2. \A u \in Subs, x \in Resps : DispatchedBy(u, x)' => DispatchedBy(u, x) /\ sub'[u].crm = sub[u].crm
  BY DEF DispatchedBy
<1>3. \A x \in Resps : resp[x].is = "free" =>
         CallsFor(x) = 0 /\ delivered[x] = 0 /\ \A u \in Subs : ~ DispatchedBy(u, x)
  BY DEF CallsTrue
<1>4. ASSUME NEW x \in Resps, x \notin muddled PROVE OneAtATime(x)'
  <2>1. OneAtATime(x)
    BY <1>4 DEF CallsTrue
  <2>2. CASE resp'[x].crm = resp[x].crm
    BY <1>1, <1>2, <2>1, <2>2 DEF OneAtATime
  <2>3. CASE resp[x].is = "free"
    <3>1. CallsFor(x)' = 0 /\ delivered'[x] = 0 /\ \A u \in Subs : ~ DispatchedBy(u, x)'
      BY <1>1, <1>2, <1>3, <2>3
    <3> QED
      BY <3>1 DEF OneAtATime
  <2> QED
    BY <2>2, <2>3
<1>5. \A x \in Resps : webhooks'[x].ok > 0 \/ resp'[x].crm = "sent" => delivered'[x] > 0
  BY DEF CallsTrue
<1>6. \A x \in Resps : resp'[x].is = "free" =>
         CallsFor(x)' = 0 /\ delivered'[x] = 0 /\ \A u \in Subs : ~ DispatchedBy(u, x)'
  BY <1>1, <1>2, <1>3
<1>7. \A u \in Subs : sub'[u].at # "crm" => sub'[u].crm = "null"
  OBVIOUS
<1> QED
  BY <1>4, <1>5, <1>6, <1>7 DEF CallsTrue

\* The same, for a response x the others' steps say nothing of.
LEMMA OneFramed ==
  ASSUME NEW x \in Resps, OneAtATime(x),
         webhooks'[x] = webhooks[x], delivered'[x] = delivered[x], resp'[x].crm = resp[x].crm,
         \A u \in Subs : DispatchedBy(u, x)' => DispatchedBy(u, x) /\ sub'[u].crm = sub[u].crm
  PROVE  OneAtATime(x)'
<1>1. CallsFor(x)' = CallsFor(x)
  BY DEF CallsFor
<1> QED
  BY <1>1 DEF OneAtATime

LEMMA CallsCounted ==
  ASSUME TypeOKDesk, NEW x \in Resps
  PROVE  /\ webhooks[x] \in Calls
         /\ webhooks[x].out \in Nat /\ webhooks[x].ok \in Nat /\ webhooks[x].failed \in Nat
         /\ CallsFor(x) \in Nat /\ delivered[x] \in Nat
<1>1. webhooks[x] \in Calls /\ delivered[x] \in Nat
  BY DeskTypes
<1>2. webhooks[x].out \in Nat /\ webhooks[x].ok \in Nat /\ webhooks[x].failed \in Nat
  BY <1>1 DEF Calls
<1> QED
  BY <1>1, <1>2 DEF CallsFor

LEMMA CallsResponded ==
  ASSUME TypeOKDesk, CallsTrue, NEW u \in Subs, Respond(u)
  PROVE  CallsTrue'
<1>1. /\ resp \in [Resps -> RespRow] /\ sub \in [Subs -> Submission] /\ sub[u] \in Submission
      /\ muddled \subseteq Resps
  BY DeskTypes
<1>2. UNCHANGED <<webhooks, delivered>> /\ sub[u].at = "respond" /\ sub[u].crm = "null"
  BY DEF Respond, CallsTrue
<1>3. \A x : CallsFor(x)' = CallsFor(x)
  BY <1>2 DEF CallsFor
<1>4. ASSUME NEW x \in Resps, NEW c, NEW row,
             GoesOn(u, [sub[u] EXCEPT !.at = "crm", !.resp = x, !.crm = c]),
             resp' = [resp EXCEPT ![x] = row], row.is = "row", row.crm = c,
             c = resp[x].crm \/ (resp[x].is = "free" /\ c = "null"),
             IF Dispatching(x) \/ InFlight(x) THEN muddled' = muddled \cup {x} ELSE muddled' = muddled
      PROVE  CallsTrue'
  <2>1. /\ sub'[u].at = "crm" /\ sub'[u].resp = x /\ sub'[u].crm = c
        /\ \A v \in Subs \ {u} : sub'[v] = sub[v]
    BY <1>1, <1>4 DEF GoesOn, Submission
  <2>2. resp'[x] = row /\ \A y \in Resps \ {x} : resp'[y] = resp[y]
    BY <1>1, <1>4
  <2>3. ASSUME NEW y \in Resps, y \notin muddled' PROVE OneAtATime(y)'
    <3>1. OneAtATime(y)
      BY <1>4, <2>3 DEF CallsTrue
    <3>2. CASE y # x
      <4>1. \A v \in Subs : DispatchedBy(v, y)' => DispatchedBy(v, y) /\ sub'[v].crm = sub[v].crm
        BY <2>1, <3>2 DEF DispatchedBy
      <4> QED
        BY <1>2, <2>2, <3>1, <3>2, <4>1, OneFramed
    <3>3. CASE y = x
      <4>1. ~ Dispatching(x) /\ ~ InFlight(x)
        BY <1>4, <2>3, <3>3
      <4>2. CallsFor(x) = 0
        BY <4>1, CallsCounted DEF InFlight, CallsFor
      <4>3. \A v \in Subs : DispatchedBy(v, x)' => v = u
        BY <2>1, <4>1 DEF DispatchedBy, Dispatching
      <4>4. CallsFor(x)' = 0
        BY <1>3, <4>2
      <4>5. delivered'[x] <= 1
        BY <1>2, <3>1, <3>3 DEF OneAtATime
      <4>6. delivered'[x] = 1 => resp'[x].crm = "sent" /\ sub'[u].crm = "sent"
        <5>1. delivered[x] = 1 => webhooks[x].ok = 1 \/ resp[x].crm = "sent"
          BY <3>1, <3>3 DEF OneAtATime
        <5>2. webhooks[x].ok # 1
          BY <4>2, CallsCounted DEF CallsFor
        <5>3. resp[x].is = "free" => delivered[x] = 0
          BY DEF CallsTrue
        <5> QED
          BY <1>2, <1>4, <2>1, <2>2, <5>1, <5>2, <5>3
      <4> QED
        BY <3>3, <4>3, <4>4, <4>5, <4>6 DEF OneAtATime
    <3> QED
      BY <3>2, <3>3
  <2>4. \A y \in Resps : webhooks'[y].ok > 0 \/ resp'[y].crm = "sent" => delivered'[y] > 0
    BY <1>2, <1>4, <2>2 DEF CallsTrue
  <2>5. \A y \in Resps : resp'[y].is = "free" =>
           CallsFor(y)' = 0 /\ delivered'[y] = 0 /\ \A v \in Subs : ~ DispatchedBy(v, y)'
    <3>1. \A y \in Resps : resp'[y].is = "free" => y # x /\ resp[y].is = "free"
      BY <1>4, <2>2
    <3>2. \A y \in Resps : y # x => \A v \in Subs : DispatchedBy(v, y)' => DispatchedBy(v, y)
      BY <2>1 DEF DispatchedBy
    <3> QED
      BY <1>2, <1>3, <3>1, <3>2 DEF CallsTrue
  <2>6. \A v \in Subs : sub'[v].at # "crm" => sub'[v].crm = "null"
    BY <2>1 DEF CallsTrue
  <2> QED
    BY <2>3, <2>4, <2>5, <2>6 DEF CallsTrue
<1>5. ASSUME NEW x \in Responses, resp' = [resp EXCEPT ![x].doc = sub[u].doc],
             GoesOn(u, [sub[u] EXCEPT !.at = "crm", !.resp = x, !.crm = resp[x].crm]),
             muddled' = IF Dispatching(x) \/ InFlight(x) THEN muddled \cup {x} ELSE muddled
      PROVE  CallsTrue'
  <2> DEFINE row == [resp[x] EXCEPT !.doc = sub[u].doc]
  <2>1. x \in Resps /\ resp[x].is = "row" /\ resp[x] \in RespRow
    BY <1>1 DEF Responses
  <2>2. row.is = "row" /\ row.crm = resp[x].crm /\ resp' = [resp EXCEPT ![x] = row]
    BY <1>5, <2>1 DEF RespRow
  <2> HIDE DEF row
  <2> QED
    BY <1>4, <1>5, <2>1, <2>2
<1>6. ASSUME NEW x \in Resps, resp[x].is = "free",
             resp' = [resp EXCEPT ![x] = [NoResp EXCEPT !.is = "row", !.form = sub[u].form,
                                            !.reg = sub[u].reg, !.doc = sub[u].doc]],
             GoesOn(u, [sub[u] EXCEPT !.at = "crm", !.resp = x]), UNCHANGED muddled
      PROVE  CallsTrue'
  <2> DEFINE row == [NoResp EXCEPT !.is = "row", !.form = sub[u].form,
                                   !.reg = sub[u].reg, !.doc = sub[u].doc]
  <2>1. row.is = "row" /\ row.crm = "null"
    BY DEF NoResp
  <2>2. [sub[u] EXCEPT !.at = "crm", !.resp = x] = [sub[u] EXCEPT !.at = "crm", !.resp = x, !.crm = "null"]
    BY <1>1, <1>2 DEF Submission
  <2>3. ~ Dispatching(x) /\ ~ InFlight(x)
    BY <1>6 DEF CallsTrue, Dispatching, InFlight, DispatchedBy, CallsFor
  <2>4. /\ resp' = [resp EXCEPT ![x] = row]
        /\ GoesOn(u, [sub[u] EXCEPT !.at = "crm", !.resp = x, !.crm = "null"])
    BY <1>6, <2>2
  <2> HIDE DEF row
  <2>5. IF Dispatching(x) \/ InFlight(x) THEN muddled' = muddled \cup {x} ELSE muddled' = muddled
    BY <1>6, <2>3
  <2> QED
    BY <1>4, <1>6, <2>1, <2>4, <2>5
<1>7. CASE Answers(u) /\ UNCHANGED <<resp, muddled>>
  <2>1. \A v \in Subs : IF v = u THEN sub'[v].at = "idle" /\ sub'[v].crm = "null" ELSE sub'[v] = sub[v]
    BY <1>1, <1>7 DEF Answers, NoSub
  <2> QED
    BY <1>2, <1>7, <2>1, CallsFramed DEF CallsTrue
<1> QED
  BY <1>5, <1>6, <1>7 DEF Respond

LEMMA CallsDispatched ==
  ASSUME TypeOKDesk, CallsTrue, NEW u \in Subs, Dispatch(u)
  PROVE  CallsTrue'
<1>0. PICK x : x = sub[u].resp
  OBVIOUS
<1>1. /\ resp \in [Resps -> RespRow] /\ sub \in [Subs -> Submission]
      /\ webhooks \in [Resps -> Calls]
  BY DeskTypes
<1>2. UNCHANGED <<delivered, muddled>> /\ DispatchedBy(u, x)
  BY <1>0 DEF Dispatch, history, DispatchedBy
<1>3. \A v \in Subs : IF v = u THEN sub'[v].at = "idle" /\ sub'[v].crm = "null" ELSE sub'[v] = sub[v]
  BY <1>1 DEF Dispatch, Answers, NoSub
<1>4. CASE UNCHANGED <<resp, webhooks>>
  BY <1>2, <1>3, <1>4, CallsFramed DEF CallsTrue
<1>5. CASE Undelivered(sub[u]) /\ x \in Responses
  <2>1. x \in Resps /\ resp[x].is = "row" /\ resp[x] \in RespRow /\ webhooks[x] \in Calls
    BY <1>0, <1>1, <1>5 DEF Responses
  <2>2. /\ resp'[x].crm \in {"pending", "skipped"} /\ resp'[x].is = "row"
        /\ \A y \in Resps \ {x} : resp'[y] = resp[y]
    BY <1>0, <1>1, <1>5, <2>1 DEF Dispatch, RespRow
  <2>3. /\ \A y \in Resps \ {x} : webhooks'[y] = webhooks[y]
        /\ webhooks'[x].ok = webhooks[x].ok /\ webhooks'[x].failed = webhooks[x].failed
        /\ webhooks'[x].out \in {webhooks[x].out, webhooks[x].out + 1}
    BY <1>0, <1>1, <1>5, <2>1 DEF Dispatch, Calls
  <2>4. \A v \in Subs, y \in Resps : DispatchedBy(v, y)' =>
          v # u /\ DispatchedBy(v, y) /\ sub'[v].crm = sub[v].crm
    BY <1>3 DEF DispatchedBy
  <2>5. ASSUME NEW y \in Resps, y \notin muddled' PROVE OneAtATime(y)'
    <3>1. OneAtATime(y)
      BY <1>2, <2>5 DEF CallsTrue
    <3>2. CASE y # x
      BY <1>2, <2>2, <2>3, <2>4, <3>1, <3>2, OneFramed
    <3>3. CASE y = x
      <4>1. CallsFor(x) = 0 /\ \A v \in Subs : DispatchedBy(v, x) => v = u
        BY <1>2, <3>1, <3>3 DEF OneAtATime
      <4>2. webhooks[x].out = 0 /\ webhooks[x].ok = 0 /\ webhooks[x].failed = 0 /\ delivered[x] \in Nat
        BY <2>1, <4>1, CallsCounted DEF CallsFor
      <4>3. delivered[x] # 1
        BY <1>0, <1>2, <1>5, <3>1, <3>3, <4>2 DEF OneAtATime, Undelivered
      <4>4. CallsFor(x)' <= 1
        BY <2>3, <4>2 DEF CallsFor
      <4>5. \A v \in Subs : ~ DispatchedBy(v, x)'
        BY <2>1, <2>4, <4>1
      <4>6. delivered'[x] <= 1 /\ delivered'[x] # 1
        BY <1>2, <3>1, <3>3, <4>3 DEF OneAtATime
      <4> QED
        BY <3>3, <4>4, <4>5, <4>6 DEF OneAtATime
    <3> QED
      BY <3>2, <3>3
  <2>6. \A y \in Resps : webhooks'[y].ok > 0 \/ resp'[y].crm = "sent" => delivered'[y] > 0
    BY <1>2, <2>2, <2>3 DEF CallsTrue
  <2>7. \A y \in Resps : resp'[y].is = "free" =>
           CallsFor(y)' = 0 /\ delivered'[y] = 0 /\ \A v \in Subs : ~ DispatchedBy(v, y)'
    <3>1. ASSUME NEW y \in Resps, resp'[y].is = "free"
          PROVE  CallsFor(y)' = 0 /\ delivered'[y] = 0 /\ \A v \in Subs : ~ DispatchedBy(v, y)'
      <4>1. y # x /\ resp[y].is = "free"
        BY <2>2, <3>1
      <4>2. CallsFor(y)' = CallsFor(y)
        BY <2>3, <4>1 DEF CallsFor
      <4> QED
        BY <1>2, <2>4, <4>1, <4>2 DEF CallsTrue
    <3> QED
      BY <3>1
  <2>8. \A v \in Subs : sub'[v].at # "crm" => sub'[v].crm = "null"
    BY <1>3 DEF CallsTrue
  <2> QED
    BY <2>5, <2>6, <2>7, <2>8 DEF CallsTrue
<1> QED
  BY <1>0, <1>4, <1>5 DEF Dispatch

LEMMA CallsEnded ==
  ASSUME TypeOKDesk, CallsTrue, NEW x \in Resps, CallEnds(x) \/ RecordSent(x) \/ RecordFailed(x)
  PROVE  CallsTrue'
<1>1. /\ resp \in [Resps -> RespRow] /\ webhooks \in [Resps -> Calls] /\ delivered \in [Resps -> Nat]
      /\ muddled \subseteq Resps /\ resp[x] \in RespRow
  BY DeskTypes
<1>2. /\ webhooks[x] \in Calls /\ CallsFor(x) \in Nat
      /\ webhooks[x].out \in Nat /\ webhooks[x].ok \in Nat /\ webhooks[x].failed \in Nat
      /\ delivered[x] \in Nat
  BY CallsCounted
<1>3. /\ UNCHANGED sub /\ muddled' \in {muddled, muddled \cup {x}}
      /\ \A y \in Resps \ {x} : /\ webhooks'[y] = webhooks[y] /\ delivered'[y] = delivered[y]
                                /\ resp'[y] = resp[y]
  <2>1. CASE CallEnds(x)
    BY <1>1, <2>1 DEF CallEnds
  <2>2. CASE RecordSent(x)
    BY <1>1, <2>2 DEF RecordSent
  <2>3. CASE RecordFailed(x)
    BY <1>1, <2>3 DEF RecordFailed, history
  <2> QED
    BY <2>1, <2>2, <2>3
<1>4. resp'[x].is = resp[x].is /\ CallsFor(x) > 0
  <2>1. CASE CallEnds(x)
    BY <1>2, <2>1 DEF CallEnds, CallsFor
  <2>2. CASE RecordSent(x)
    BY <1>1, <1>2, <2>2 DEF RecordSent, CallsFor, RespRow
  <2>3. CASE RecordFailed(x)
    BY <1>1, <1>2, <2>3 DEF RecordFailed, CallsFor, RespRow
  <2> QED
    BY <2>1, <2>2, <2>3
<1>5. \A y : \A u \in Subs : DispatchedBy(u, y)' <=> DispatchedBy(u, y)
  BY <1>3 DEF DispatchedBy
<1>6. resp[x].is # "free"
  BY <1>4, <1>2 DEF CallsTrue
\* What has become of the calls for x.
<1>7. /\ webhooks'[x].ok > 0 \/ resp'[x].crm = "sent" => delivered'[x] > 0
      /\ x \notin muddled' => OneAtATime(x)'
  <2>1. ASSUME x \notin muddled'
        PROVE  /\ CallsFor(x) = 1 /\ (\A u \in Subs : ~ DispatchedBy(u, x)')
               /\ delivered[x] \in {0, 1} /\ (delivered[x] = 1 => webhooks[x].ok = 1)
    <3>1. OneAtATime(x)
      BY <1>3, <2>1 DEF CallsTrue
    <3>2. CallsFor(x) = 1 /\ (\A u \in Subs : ~ DispatchedBy(u, x)) /\ delivered[x] <= 1
      BY <1>2, <1>4, <3>1 DEF OneAtATime
    <3>3. delivered[x] = 1 => webhooks[x].ok = 1
      BY <3>1, <3>2 DEF OneAtATime
    <3> QED
      BY <1>2, <1>5, <3>2, <3>3
  <2>2. webhooks[x].ok > 0 \/ resp[x].crm = "sent" => delivered[x] > 0
    BY DEF CallsTrue
  <2>3. CASE CallEnds(x)
    <3>1. UNCHANGED resp /\ webhooks[x].out > 0
      BY <2>3 DEF CallEnds
    <3>2. CASE /\ webhooks' = [webhooks EXCEPT ![x].out = webhooks[x].out - 1, ![x].ok = webhooks[x].ok + 1]
               /\ delivered' = [delivered EXCEPT ![x] = @ + 1]
      <4>1. delivered'[x] = delivered[x] + 1
        BY <1>1, <3>2
      <4>2. webhooks'[x].ok = webhooks[x].ok + 1 /\ CallsFor(x)' = CallsFor(x)
        BY <1>1, <1>2, <3>2 DEF CallsFor, Calls
      <4>3. ASSUME x \notin muddled' PROVE OneAtATime(x)'
        <5>1. webhooks[x].ok = 0 /\ delivered[x] = 0
          BY <1>2, <2>1, <3>1, <4>3 DEF CallsFor
        <5>2. CallsFor(x)' = 1 /\ delivered'[x] = 1 /\ webhooks'[x].ok = 1
          BY <2>1, <4>1, <4>2, <4>3, <5>1
        <5> QED
          BY <2>1, <4>3, <5>2 DEF OneAtATime
      <4> QED
        BY <1>2, <4>1, <4>3
    <3>3. CASE /\ webhooks' = [webhooks EXCEPT ![x].out = webhooks[x].out - 1, ![x].failed = webhooks[x].failed + 1]
               /\ delivered' = delivered \/ (delivered' = [delivered EXCEPT ![x] = @ + 1] /\ muddled' = muddled \cup {x})
      <4>1. webhooks'[x].ok = webhooks[x].ok /\ CallsFor(x)' = CallsFor(x)
        BY <1>1, <1>2, <3>3 DEF CallsFor, Calls
      <4>2. delivered'[x] \in {delivered[x], delivered[x] + 1}
        BY <1>1, <3>3
      <4>3. ASSUME x \notin muddled' PROVE OneAtATime(x)'
        <5>1. webhooks[x].ok = 0 /\ delivered[x] = 0
          BY <1>2, <2>1, <3>1, <4>3 DEF CallsFor
        <5>2. delivered'[x] = 0
          BY <3>3, <4>3, <5>1
        <5> QED
          BY <2>1, <4>1, <4>3, <5>2 DEF OneAtATime
      <4> QED
        BY <1>2, <2>2, <3>1, <4>1, <4>2, <4>3
    <3> QED
      BY <2>3, <3>2, <3>3 DEF CallEnds
  <2>4. CASE RecordSent(x)
    <3>1. UNCHANGED delivered /\ webhooks[x].ok > 0 /\ delivered[x] > 0
      BY <2>2, <2>4 DEF RecordSent
    <3>2. ASSUME x \notin muddled' PROVE OneAtATime(x)'
      <4>1. /\ resp' = [resp EXCEPT ![x].crm = "sent"]
            /\ webhooks' = [webhooks EXCEPT ![x].ok = webhooks[x].ok - 1]
        BY <2>4, <3>2 DEF RecordSent
      <4>2. CallsFor(x)' = CallsFor(x) - 1
        BY <1>1, <1>2, <4>1 DEF CallsFor, Calls
      <4>3. resp'[x].crm = "sent"
        BY <1>1, <4>1 DEF RespRow
      <4>4. CallsFor(x)' = 0
        BY <2>1, <3>2, <4>2
      <4> QED
        BY <2>1, <3>1, <3>2, <4>3, <4>4 DEF OneAtATime
    <3> QED
      BY <3>1, <3>2
  <2>5. CASE RecordFailed(x)
    <3>1. UNCHANGED <<delivered, muddled>> /\ webhooks[x].failed > 0
      BY <2>5 DEF RecordFailed, history
    <3>2. resp'[x].crm = "failed" /\ webhooks'[x].ok = webhooks[x].ok /\ CallsFor(x)' = CallsFor(x) - 1
      BY <1>1, <1>2, <2>5 DEF RecordFailed, CallsFor, Calls, RespRow
    <3>3. ASSUME x \notin muddled' PROVE OneAtATime(x)'
      <4>1. webhooks[x].ok = 0 /\ delivered[x] = 0
        BY <1>2, <2>1, <3>1, <3>3 DEF CallsFor
      <4>2. delivered'[x] = 0 /\ CallsFor(x)' = 0
        BY <2>1, <3>1, <3>2, <3>3, <4>1
      <4> QED
        BY <2>1, <3>3, <4>2 DEF OneAtATime
    <3> QED
      BY <2>2, <3>1, <3>2, <3>3
  <2> QED
    BY <2>3, <2>4, <2>5
<1>8. ASSUME NEW y \in Resps, y \notin muddled' PROVE OneAtATime(y)'
  <2>1. CASE y = x
    BY <1>7, <1>8, <2>1
  <2>2. CASE y # x
    <3>1. OneAtATime(y)
      BY <1>3, <1>8, <2>2 DEF CallsTrue
    <3> QED
      BY <1>3, <1>5, <2>2, <3>1, OneFramed
  <2> QED
    BY <2>1, <2>2
<1>9. \A y \in Resps : webhooks'[y].ok > 0 \/ resp'[y].crm = "sent" => delivered'[y] > 0
  BY <1>3, <1>7 DEF CallsTrue
<1>10. ASSUME NEW y \in Resps, resp'[y].is = "free"
       PROVE  CallsFor(y)' = 0 /\ delivered'[y] = 0 /\ \A v \in Subs : ~ DispatchedBy(v, y)'
  <2>1. y # x /\ resp[y].is = "free"
    BY <1>3, <1>4, <1>6, <1>10
  <2>2. CallsFor(y)' = CallsFor(y)
    BY <1>3, <2>1 DEF CallsFor
  <2> QED
    BY <1>3, <1>5, <2>1, <2>2 DEF CallsTrue
<1>11. \A v \in Subs : sub'[v].at # "crm" => sub'[v].crm = "null"
  BY <1>3 DEF CallsTrue
<1> QED
  BY <1>8, <1>9, <1>10, <1>11 DEF CallsTrue

LEMMA CallsLost ==
  ASSUME TypeOKDesk, CallsTrue, ProcessEnds, UNCHANGED resp
  PROVE  CallsTrue'
<1>1. PICK reached \in SUBSET {x \in Resps : webhooks[x].out > 0} :
        /\ delivered' = [x \in Resps |-> delivered[x] + IF x \in reached THEN webhooks[x].out ELSE 0]
        /\ muddled' = muddled \cup reached \cup {x \in Resps : webhooks[x].ok > 0}
  BY DEF ProcessEnds
<1>2. \A x \in Resps : CallsFor(x)' = 0 /\ webhooks'[x].ok = 0
  BY DEF ProcessEnds, CallsFor, NoCalls
<1>3. \A u \in Subs : sub'[u].at # "crm" /\ sub'[u].crm = "null"
  BY DEF ProcessEnds, NoSub
<1>4. \A x : \A u \in Subs : ~ DispatchedBy(u, x)'
  BY <1>3 DEF DispatchedBy
<1>5. ASSUME NEW x \in Resps
      PROVE  delivered'[x] >= delivered[x] /\ (x \notin reached => delivered'[x] = delivered[x])
  BY <1>1, CallsCounted
<1>6. ASSUME NEW x \in Resps, x \notin muddled' PROVE OneAtATime(x)'
  <2>1. OneAtATime(x) /\ ~ (webhooks[x].ok > 0) /\ x \notin reached
    BY <1>1, <1>6 DEF CallsTrue
  <2>2. delivered'[x] = delivered[x] /\ webhooks[x].ok # 1
    BY <1>5, <2>1
  <2>3. delivered'[x] = 1 => resp'[x].crm = "sent"
    BY <2>1, <2>2 DEF OneAtATime
  <2>4. delivered'[x] <= 1
    BY <2>1, <2>2 DEF OneAtATime
  <2> QED
    BY <1>2, <1>4, <2>3, <2>4 DEF OneAtATime
<1>7. \A x \in Resps : webhooks'[x].ok > 0 \/ resp'[x].crm = "sent" => delivered'[x] > 0
  <2>1. ASSUME NEW x \in Resps, resp'[x].crm = "sent" PROVE delivered'[x] > 0
    <3>1. delivered[x] > 0
      BY <2>1 DEF CallsTrue
    <3>2. delivered[x] \in Nat /\ delivered'[x] \in Nat /\ delivered'[x] >= delivered[x]
      BY <1>1, <1>5, CallsCounted
    <3> QED
      BY <3>1, <3>2
  <2> QED
    BY <1>2, <2>1
<1>8. ASSUME NEW x \in Resps, resp'[x].is = "free" PROVE delivered'[x] = 0
  <2>1. CallsFor(x) = 0 /\ delivered[x] = 0
    BY <1>8 DEF CallsTrue
  <2>2. x \notin reached
    BY <2>1, CallsCounted DEF CallsFor
  <2> QED
    BY <1>5, <2>1, <2>2
<1> QED
  BY <1>2, <1>3, <1>4, <1>6, <1>7, <1>8 DEF CallsTrue

-----------------------------------------------------------------------------
LEMMA CallsNext ==
  ASSUME TypeOKDesk, CallsTrue, [NextDesk]_deskVars
  PROVE  CallsTrue'
<1>1. /\ sub \in [Subs -> Submission] /\ resp \in [Resps -> RespRow] /\ reg \in [Regs -> RegRow]
      /\ \A u \in Subs : sub[u].at # "crm" => sub[u].crm = "null"
  BY DeskTypes DEF CallsTrue
<1>2. ASSUME UNCHANGED <<webhooks, delivered, muddled, sub>>,
             \A x \in Resps : resp'[x].crm = resp[x].crm /\ (resp'[x].is = "free" => resp[x].is = "free")
      PROVE  CallsTrue'
  BY <1>1, <1>2, CallsFramed
\* A submission that is not about to dispatch goes on or answers.
<1>3. ASSUME NEW u \in Subs, NEW s, UNCHANGED <<webhooks, delivered, muddled, resp>>,
             GoesOn(u, s), s.at # "crm", s.crm = "null"
      PROVE  CallsTrue'
  BY <1>1, <1>3, CallsFramed DEF GoesOn
<1>4. NoSub.at # "crm" /\ NoSub.crm = "null"
  BY DEF NoSub
<1>5. ASSUME NEW u \in Subs, UNCHANGED <<webhooks, delivered, muddled, resp>>, Answers(u)
      PROVE  CallsTrue'
  <2>1. GoesOn(u, NoSub)
    BY <1>5 DEF GoesOn, Answers
  <2> QED
    BY <1>3, <1>4, <1>5, <2>1
<1>6. ASSUME NEW u \in Subs, SubmitForm(u) PROVE CallsTrue'
  <2>1. PICK f \in EventForms, p \in Phones \cup {None}, d \in Docs \cup {None} :
          GoesOn(u, [NoSub EXCEPT !.at = IF d = None THEN "find" ELSE "promote",
                             !.form = f, !.phone = p, !.doc = d, !.event = event])
    BY <1>6 DEF SubmitForm
  <2> DEFINE s == [NoSub EXCEPT !.at = IF d = None THEN "find" ELSE "promote",
                      !.form = f, !.phone = p, !.doc = d, !.event = event]
  <2>2. s.at # "crm" /\ s.crm = "null" /\ GoesOn(u, s)
    BY <2>1 DEF NoSub
  <2>3. UNCHANGED <<webhooks, delivered, muddled, resp>>
    BY <1>6 DEF SubmitForm, history
  <2> HIDE DEF s
  <2> QED
    BY <1>3, <2>2, <2>3
<1>7. ASSUME NEW u \in Subs, StartImport(u) PROVE CallsTrue'
  <2>1. PICK f \in EventForms, p \in Phones :
          GoesOn(u, [NoSub EXCEPT !.at = "import", !.form = f, !.phone = p])
    BY <1>7 DEF StartImport
  <2> DEFINE s == [NoSub EXCEPT !.at = "import", !.form = f, !.phone = p]
  <2>2. s.at # "crm" /\ s.crm = "null" /\ GoesOn(u, s)
    BY <2>1 DEF NoSub
  <2>3. UNCHANGED <<webhooks, delivered, muddled, resp>>
    BY <1>7 DEF StartImport, history
  <2> HIDE DEF s
  <2> QED
    BY <1>3, <2>2, <2>3
<1>8. ASSUME NEW u \in Subs, Promote(u) \/ Find(u) \/ Count(u) PROVE CallsTrue'
  <2>1. sub[u] \in Submission /\ sub[u].crm = "null"
    BY <1>1, <1>8 DEF Promote, Find, Count
  <2>2. /\ \A r : LET s == [sub[u] EXCEPT !.at = "respond", !.reg = r] IN s.at # "crm" /\ s.crm = "null"
        /\ LET s == [sub[u] EXCEPT !.at = "find"] IN s.at # "crm" /\ s.crm = "null"
        /\ LET s == [sub[u] EXCEPT !.at = "count"] IN s.at # "crm" /\ s.crm = "null"
        /\ LET s == [sub[u] EXCEPT !.at = "create", !.raced = FALSE] IN s.at # "crm" /\ s.crm = "null"
    BY <2>1 DEF Submission
  <2>3. UNCHANGED <<webhooks, delivered, muddled, resp>>
    BY <1>8 DEF Promote, Find, Count, history
  <2>4. CASE Promote(u)
    BY <1>3, <1>5, <2>2, <2>3, <2>4 DEF Promote
  <2>5. CASE Find(u)
    BY <1>3, <1>5, <2>2, <2>3, <2>5 DEF Find
  <2>6. CASE Count(u)
    BY <1>3, <1>5, <2>2, <2>3, <2>6 DEF Count
  <2> QED
    BY <1>8, <2>4, <2>5, <2>6
<1>9. ASSUME NEW u \in Subs, Create(u) \/ ImportRow(u) PROVE CallsTrue'
  <2>1. UNCHANGED <<webhooks, delivered, muddled, resp>> /\ sub[u].at # "crm"
    BY <1>9 DEF Create, ImportRow, history
  <2>2. CASE Answers(u)
    BY <1>5, <2>1, <2>2
  <2>3. ASSUME NEW s, s.at # "crm", s.crm = "null",
               sub' = [v \in Subs |-> IF v = u THEN s ELSE [sub[v] EXCEPT !.raced = sub[v].at = "create"]]
        PROVE  CallsTrue'
    <3>1. \A v \in Subs : v # u => /\ sub'[v].at = sub[v].at /\ sub'[v].resp = sub[v].resp
                                   /\ sub'[v].crm = sub[v].crm
      BY <1>1, <2>3 DEF Submission
    <3>2. sub'[u] = s
      BY <2>3
    <3>3. \A v \in Subs : IF sub'[v].at = "crm"
                          THEN sub[v].at = "crm" /\ sub'[v].resp = sub[v].resp /\ sub'[v].crm = sub[v].crm
                          ELSE sub'[v].crm = "null"
      BY <1>1, <2>3, <3>1, <3>2
    <3> QED
      BY <2>1, <3>3, CallsFramed
  <2>4. \A r : LET s == [sub[u] EXCEPT !.at = "respond", !.reg = r] IN s.at # "crm" /\ s.crm = "null"
    BY <1>1, <2>1 DEF Submission
  <2>5. CASE Create(u) /\ ~ Answers(u)
    BY <2>3, <2>4, <2>5 DEF Create
  <2>6. CASE ImportRow(u) /\ ~ Answers(u)
    BY <1>4, <2>3, <2>6 DEF ImportRow
  <2> QED
    BY <1>9, <2>2, <2>5, <2>6
<1>10. ASSUME NEW u \in Subs, RespondAnonymously(u) PROVE CallsTrue'
  <2>1. PICK x \in Resps :
          /\ resp[x].is = "free"
          /\ resp' = [resp EXCEPT ![x] = [NoResp EXCEPT !.is = "row", !.form = sub[u].form, !.doc = sub[u].doc]]
    BY <1>10 DEF RespondAnonymously
  <2>2. \A y \in Resps : IF y = x THEN resp'[y].is = "row" /\ resp'[y].crm = "null" ELSE resp'[y] = resp[y]
    BY <1>1, <2>1 DEF NoResp
  <2>3. UNCHANGED <<webhooks, delivered, muddled>>
    BY <1>10 DEF RespondAnonymously, history
  <2>4. \A v \in Subs : IF v = u THEN sub'[v].at = "idle" /\ sub'[v].crm = "null" ELSE sub'[v] = sub[v]
    BY <1>1, <1>10 DEF RespondAnonymously, Answers, NoSub
  <2> QED
    BY <1>1, <2>1, <2>2, <2>3, <2>4, CallsFramed
<1>11. ASSUME NEW x \in Resps, RecordNowhere(x) PROVE CallsTrue'
  BY <1>11, CallsLost DEF RecordNowhere
<1>12. CASE Crash
  BY <1>12, CallsLost DEF Crash
<1>13. ASSUME NEW x \in Resps, DeleteResp(x) PROVE CallsTrue'
  <2>1. \A y \in Resps : resp'[y].crm = resp[y].crm /\ (resp'[y].is = "free" => resp[y].is = "free")
    BY <1>1, <1>13 DEF DeleteResp, RespRow
  <2> QED
    BY <1>2, <1>13, <2>1 DEF DeleteResp, history
<1>14. ASSUME NEW r \in Regs, DeleteReg(r) PROVE CallsTrue'
  <2>1. \A y \in Resps : resp'[y].crm = resp[y].crm /\ (resp'[y].is = "free" => resp[y].is = "free")
    BY <1>1, <1>14 DEF DeleteReg, RespRow
  <2> QED
    BY <1>2, <1>14, <2>1 DEF DeleteReg, history
<1>15. ASSUME UNCHANGED <<webhooks, delivered, muddled, sub, resp>> PROVE CallsTrue'
  BY <1>2, <1>15
<1>16. ASSUME NEW r \in Regs, SetStatus(r) PROVE CallsTrue'
  BY <1>15, <1>16 DEF SetStatus, history
<1>17. ASSUME NEW d \in Docs, Upload(d) \/ Prune(d) PROVE CallsTrue'
  BY <1>15, <1>17 DEF Upload, Prune, history
<1>18. ASSUME NEW a \in Staff,
              ReadEvent(a) \/ WriteEvent(a) \/ ListActive(a) \/ Tell(a) \/ TellEnds(a)
       PROVE  CallsTrue'
  BY <1>15, <1>18 DEF ReadEvent, WriteEvent, ListActive, Tell, TellEnds, history
<1>19. CASE UNCHANGED deskVars
  BY <1>15, <1>19 DEF deskVars, desk, history
<1> QED
  BY <1>6, <1>7, <1>8, <1>9, <1>10, <1>11, <1>12, <1>13, <1>14, <1>16, <1>17, <1>18, <1>19,
     CallsResponded, CallsDispatched, CallsEnded DEF NextDesk

-----------------------------------------------------------------------------
(* The cancellations. *)

\* A step that disturbs none: a registration it leaves is as it was, or marked as late
\* when the event is closed; who was told stays told; no request is undisturbed but one
\* that was and has not moved.
LEMMA ListsFramed ==
  ASSUME ListsHold, UNCHANGED <<event, notified>>,
         \A r \in Rows' : \/ /\ r \in Rows /\ reg'[r].status = reg[r].status
                             /\ reg'[r].late = reg[r].late /\ (r \in told => r \in told')
                          \/ event = "cancelled" => reg'[r].late,
         \A a \in Staff : staff'[a].clean => staff'[a] = staff[a]
  PROVE  ListsHold'
<1>1. ASSUME event = "cancelled", NEW left, \A r \in Rows : ToldOrLate(r, left),
             NEW r \in Rows' 
      PROVE  ToldOrLate(r, left)'
  BY <1>1 DEF ToldOrLate
<1>2. notified' => event' = "cancelled" /\ \A r \in Rows' : ToldOrLate(r, {})'
  BY <1>1 DEF ListsHold
<1>3. ASSUME NEW a \in Staff, staff'[a].clean
      PROVE  /\ event' = "cancelled" /\ staff'[a].at \in {"list", "tell"}
             /\ staff'[a].at = "tell" => \A r \in Rows' : ToldOrLate(r, staff[a].left)'
  BY <1>1, <1>3 DEF ListsHold
<1> QED
  BY <1>2, <1>3 DEF ListsHold

LEMMA ListsClosing ==
  ASSUME TypeOKDesk, ListsHold, NEW a \in Staff,
         WriteEvent(a) \/ ListActive(a) \/ Tell(a) \/ TellEnds(a)
  PROVE  ListsHold'
<1>1. /\ staff \in [Staff -> Asked] /\ staff[a] \in Asked /\ reg \in [Regs -> RegRow]
      /\ NoStaff.clean = FALSE
  BY DeskTypes DEF NoStaff
<1>2. UNCHANGED reg /\ Rows' = Rows
  BY DEF WriteEvent, ListActive, Tell, TellEnds, Rows
<1>3. CASE WriteEvent(a)
  <2> DEFINE others == [b \in Staff |-> [staff[b] EXCEPT !.clean = FALSE]]
             lists == [staff[a] EXCEPT !.at = "list", !.clean = TRUE]
  <2>1. \A b \in Staff : others[b].clean = FALSE
    BY <1>1 DEF Asked
  <2>2. lists.at = "list" /\ others = [b \in Staff |-> others[b]]
    BY <1>1 DEF Asked
  <2>3. \/ staff[a].to = "cancelled" /\ staff' = [others EXCEPT ![a] = lists]
        \/ staff' = [others EXCEPT ![a] = NoStaff]
    BY <1>3 DEF WriteEvent
  <2> HIDE DEF others, lists
  <2>4. \A b \in Staff : staff'[b].clean => b = a /\ staff[a].to = "cancelled" /\ staff'[b] = lists
    BY <1>1, <2>1, <2>2, <2>3
  <2>5. event' = staff[a].to /\ ~ notified'
    BY <1>3 DEF WriteEvent
  <2> QED
    BY <2>2, <2>4, <2>5 DEF ListsHold
<1>4. ASSUME UNCHANGED <<event, notified>>, told \subseteq told', staff'[a].clean => staff[a].clean,
             \A b \in Staff \ {a} : staff'[b] = staff[b],
             staff'[a].clean =>
               staff'[a].at = "tell" /\ \A r \in Rows : ToldOrLate(r, staff[a].left)'
      PROVE  ListsHold'
  <2>1. \A left : \A r \in Rows : ToldOrLate(r, left) => (reg[r].status # "rejected" => r \in told' \/ r \in left \/ reg[r].late)
    BY <1>4 DEF ToldOrLate
  <2>2. notified' => event' = "cancelled" /\ \A r \in Rows' : ToldOrLate(r, {})'
    BY <1>2, <1>4, <2>1 DEF ListsHold, ToldOrLate
  <2>3. ASSUME NEW b \in Staff, staff'[b].clean
        PROVE  /\ event' = "cancelled" /\ staff'[b].at \in {"list", "tell"}
               /\ staff'[b].at = "tell" => \A r \in Rows' : ToldOrLate(r, staff[b].left)'
    <3>1. event' = "cancelled"
      BY <1>4, <2>3 DEF ListsHold
    <3>2. CASE b = a
      BY <1>2, <1>4, <2>3, <3>1, <3>2 DEF ToldOrLate
    <3>3. CASE b # a
      BY <1>2, <1>4, <2>1, <2>3, <3>1, <3>3 DEF ListsHold, ToldOrLate
    <3> QED
      BY <3>2, <3>3
  <2> QED
    BY <2>2, <2>3 DEF ListsHold
<1>5. CASE ListActive(a)
  <2>1. UNCHANGED <<event, notified, told>>
    BY <1>5 DEF ListActive, history
  <2>2. CASE staff' = [staff EXCEPT ![a] = NoStaff]
    BY <1>1, <1>4, <2>1, <2>2
  <2>3. CASE staff' = [staff EXCEPT ![a].at = "tell", ![a].left = ActiveRegs]
    <3>1. /\ staff'[a].at = "tell" /\ staff'[a].left = ActiveRegs /\ staff'[a].clean = staff[a].clean
          /\ \A b \in Staff \ {a} : staff'[b] = staff[b]
      BY <1>1, <2>3 DEF Asked
    <3>2. \A r \in Rows : reg[r].status # "rejected" => r \in ActiveRegs
      BY <1>1 DEF Rows, RegRow, FunnelStatuses, ActiveRegs
    <3>3. \A r \in Rows : ToldOrLate(r, staff[a].left)'
      BY <1>2, <3>1, <3>2 DEF ToldOrLate
    <3> QED
      BY <1>4, <2>1, <3>1, <3>3
  <2> QED
    BY <1>5, <2>2, <2>3 DEF ListActive
<1>6. CASE Tell(a)
  <2>1. PICK r \in staff[a].left :
          \/ /\ told' = IF r \in Rows THEN told \cup {r} ELSE told
             /\ staff' = [staff EXCEPT ![a].left = staff[a].left \ {r}]
          \/ /\ staff' = [staff EXCEPT ![a].left = staff[a].left \ {r}, ![a].clean = FALSE]
             /\ UNCHANGED told
    BY <1>6 DEF Tell
  <2>2. UNCHANGED <<event, notified>> /\ staff[a].at = "tell"
    BY <1>6 DEF Tell, history
  <2>3. CASE /\ told' = IF r \in Rows THEN told \cup {r} ELSE told
             /\ staff' = [staff EXCEPT ![a].left = staff[a].left \ {r}]
    <3>1. /\ staff'[a].at = "tell" /\ staff'[a].left = staff[a].left \ {r}
          /\ staff'[a].clean = staff[a].clean /\ \A b \in Staff \ {a} : staff'[b] = staff[b]
      BY <1>1, <2>2, <2>3 DEF Asked
    <3>2. told \subseteq told' /\ (r \in Rows => r \in told')
      BY <2>3
    <3>3. ASSUME staff[a].clean, NEW q \in Rows PROVE ToldOrLate(q, staff[a].left)'
      <4>1. ToldOrLate(q, staff[a].left)
        BY <2>2, <3>3 DEF ListsHold
      <4> QED
        BY <1>2, <3>1, <3>2, <4>1 DEF ToldOrLate
    <3> QED
      BY <1>4, <2>2, <3>1, <3>2, <3>3
  <2>4. CASE /\ staff' = [staff EXCEPT ![a].left = staff[a].left \ {r}, ![a].clean = FALSE]
             /\ UNCHANGED told
    <3>1. ~ staff'[a].clean /\ \A b \in Staff \ {a} : staff'[b] = staff[b]
      BY <1>1, <2>4 DEF Asked
    <3> QED
      BY <1>4, <2>2, <2>4, <3>1
  <2> QED
    BY <2>1, <2>3, <2>4
<1>7. CASE TellEnds(a)
  <2>1. /\ UNCHANGED <<event, told>> /\ staff[a].at = "tell" /\ staff[a].left = {}
        /\ staff' = [staff EXCEPT ![a] = NoStaff] /\ notified' = (notified \/ staff[a].clean)
    BY <1>7 DEF TellEnds
  <2>2. \A b \in Staff : staff'[b].clean => staff'[b] = staff[b]
    BY <1>1, <2>1
  <2>3. ASSUME notified' PROVE event' = "cancelled" /\ \A r \in Rows' : ToldOrLate(r, {})'
    <3>1. notified \/ staff[a].clean
      BY <2>1, <2>3
    <3>2. event = "cancelled" /\ \A r \in Rows : ToldOrLate(r, {})
      BY <2>1, <3>1 DEF ListsHold
    <3> QED
      BY <1>2, <2>1, <3>2 DEF ToldOrLate
  <2>4. ASSUME NEW b \in Staff, staff'[b].clean
        PROVE  /\ event' = "cancelled" /\ staff'[b].at \in {"list", "tell"}
               /\ staff'[b].at = "tell" => \A r \in Rows' : ToldOrLate(r, staff[b].left)'
    BY <1>2, <2>1, <2>2, <2>4 DEF ListsHold, ToldOrLate
  <2> QED
    BY <2>3, <2>4 DEF ListsHold
<1> QED
  BY <1>3, <1>5, <1>6, <1>7

LEMMA ListsNext ==
  ASSUME TypeOKDesk, ListsHold, [NextDesk]_deskVars
  PROVE  ListsHold'
<1>1. staff \in [Staff -> Asked] /\ reg \in [Regs -> RegRow] /\ NoStaff.clean = FALSE
  BY DeskTypes DEF NoStaff
<1>2. ASSUME UNCHANGED <<event, notified, staff, told, reg>> PROVE ListsHold'
  BY <1>2, ListsFramed DEF Rows
<1>3. ASSUME UNCHANGED <<event, notified, told, reg>>, staff' = [a \in Staff |-> NoStaff] PROVE ListsHold'
  BY <1>1, <1>3, ListsFramed DEF Rows
<1>4. ASSUME NEW u \in Subs, Create(u) \/ ImportRow(u) PROVE ListsHold'
  <2>1. UNCHANGED <<event, notified, staff, told>>
    BY <1>4 DEF Create, ImportRow, history
  <2>2. CASE UNCHANGED reg
    BY <1>2, <2>1, <2>2
  <2>3. ASSUME NEW r \in Regs, NEW how \in {"counted", "raced", "imported"},
               reg[r].is = "free", Created(u, r, how)
        PROVE  ListsHold'
    <3>1. /\ Rows' = Rows \cup {r} /\ reg'[r].late = (event # "published")
          /\ \A s \in Regs \ {r} : reg'[s] = reg[s]
      BY <2>3, CreatedRows
    <3>2. r \notin Rows /\ Rows \subseteq Regs
      BY <2>3 DEF Rows
    <3>3. \A q \in Rows' : \/ q \in Rows /\ reg'[q] = reg[q]
                           \/ event = "cancelled" => reg'[q].late
      BY <3>1, <3>2
    <3> QED
      BY <2>1, <3>3, ListsFramed
  <2> QED
    BY <1>4, <2>2, <2>3 DEF Create, ImportRow
<1>5. ASSUME NEW u \in Subs,
             \/ SubmitForm(u) \/ Promote(u) \/ Find(u) \/ Count(u) \/ Respond(u)
             \/ RespondAnonymously(u) \/ Dispatch(u) \/ StartImport(u)
      PROVE  ListsHold'
  BY <1>2, <1>5 DEF SubmitForm, Promote, Find, Count, Respond, RespondAnonymously, Dispatch,
                    StartImport, history
<1>6. ASSUME NEW x \in Resps,
             CallEnds(x) \/ RecordSent(x) \/ RecordFailed(x) \/ RecordNowhere(x) \/ DeleteResp(x)
      PROVE  ListsHold'
  BY <1>2, <1>3, <1>6 DEF CallEnds, RecordSent, RecordFailed, RecordNowhere, ProcessEnds, DeleteResp, history
<1>7. CASE Crash
  BY <1>3, <1>7 DEF Crash, ProcessEnds
<1>8. ASSUME NEW r \in Regs, SetStatus(r) PROVE ListsHold'
  <2>1. PICK s \in FunnelStatuses : reg' = [reg EXCEPT ![r].status = s, ![r].late = reg[r].late \/ event # "published"]
    BY <1>8 DEF SetStatus
  <2>2. UNCHANGED <<event, notified, staff, told>>
    BY <1>8 DEF SetStatus, history
  <2>3. Rows' = Rows /\ (\A q \in Regs \ {r} : reg'[q] = reg[q]) /\ Rows \subseteq Regs
    BY <1>1, <2>1 DEF Rows, RegRow
  <2>4. reg'[r].late = (reg[r].late \/ event # "published")
    BY <1>1, <2>1 DEF RegRow
  <2>5. \A q \in Rows' : \/ q \in Rows /\ reg'[q] = reg[q]
                         \/ event = "cancelled" => reg'[q].late
    BY <2>3, <2>4
  <2> QED
    BY <2>2, <2>5, ListsFramed
<1>9. ASSUME NEW r \in Regs, DeleteReg(r) PROVE ListsHold'
  <2>1. UNCHANGED <<event, notified, staff>> /\ told' = told \ {r}
    BY <1>9 DEF DeleteReg, history
  <2>2. Rows' = Rows \ {r} /\ \A q \in Rows \ {r} : reg'[q] = reg[q]
    BY <1>1, <1>9 DEF DeleteReg, Rows
  <2> QED
    BY <2>1, <2>2, ListsFramed
<1>10. ASSUME NEW d \in Docs, Upload(d) \/ Prune(d) PROVE ListsHold'
  BY <1>2, <1>10 DEF Upload, Prune, history
<1>11. ASSUME NEW a \in Staff, ReadEvent(a) PROVE ListsHold'
  <2>1. PICK to \in Transitions[event] : staff' = [staff EXCEPT ![a] = [NoStaff EXCEPT !.at = "write", !.to = to]]
    BY <1>11 DEF ReadEvent
  <2>2. [NoStaff EXCEPT !.at = "write", !.to = to].clean = FALSE
    BY DEF NoStaff
  <2>3. \A b \in Staff : staff'[b].clean => staff'[b] = staff[b]
    BY <1>1, <2>1, <2>2
  <2> QED
    BY <1>11, <2>3, ListsFramed DEF ReadEvent, history, Rows
<1>12. CASE UNCHANGED deskVars
  BY <1>2, <1>12 DEF deskVars, desk, history
<1> QED
  BY <1>4, <1>5, <1>6, <1>7, <1>8, <1>9, <1>10, <1>11, <1>12, ListsClosing DEF NextDesk

-----------------------------------------------------------------------------
LEMMA DeskHolds == SpecDesk => []DeskInv
<1>1. DeskInv /\ [NextDesk]_deskVars => DeskInv'
  BY DeskTypedNext, PlaceNext, CallsNext, ListsNext DEF DeskInv
<1> QED
  BY <1>1, DeskInit, PTL DEF SpecDesk

\* Every variable of the desk keeps its type, however the submissions interleave.
THEOREM DeskTyped == SpecDesk => []TypeOKDesk
<1>1. DeskInv => TypeOKDesk
  BY DEF DeskInv
<1> QED
  BY <1>1, DeskHolds, PTL

\* Whatever the interleaving of the submissions, the imports and the deletions, the
\* registrations inserted on an undisturbed count stay within events.capacity.
THEOREM CountedFit == SpecDesk => []OverbookedOnlyByRace
<1>1. DeskInv => OverbookedOnlyByRace
  BY DEF DeskInv
<1> QED
  BY <1>1, DeskHolds, PTL

\* dispatchToPipedrive: a response marked sent was delivered, and one dispatched again only
\* after the result of its last call was stored is never delivered twice.
THEOREM CrmSeesEachOnce == SpecDesk => []CrmStatusIsTrue
<1>1. DeskInv => CrmStatusIsTrue
  <2> SUFFICES ASSUME DeskInv PROVE CrmStatusIsTrue
    OBVIOUS
  <2>1. TypeOKDesk /\ CallsTrue
    BY DEF DeskInv
  <2>2. \A x \in Responses : resp[x].crm = "sent" => delivered[x] > 0
    BY <2>1 DEF CallsTrue, Responses
  <2>3. \A x \in Resps : x \notin muddled => delivered[x] <= 1
    BY <2>1 DEF CallsTrue, OneAtATime
  <2>4. \A x \in Resps : delivered[x] > 1 => x \in muddled
    BY <2>1, <2>3, CallsCounted
  <2> QED
    BY <2>2, <2>4 DEF CrmStatusIsTrue
<1> QED
  BY <1>1, DeskHolds, PTL

\* EventLifecycleService.cancel: once its list has been gone through undisturbed, whoever
\* is registered and not rejected has the notice, or came or was decided after it closed.
THEOREM CancellationTellsAll == SpecDesk => []AbsentOnlyIfLate
<1>1. DeskInv => AbsentOnlyIfLate
  BY DEF DeskInv, ListsHold, ToldOrLate, AbsentOnlyIfLate
<1> QED
  BY <1>1, DeskHolds, PTL

-----------------------------------------------------------------------------
(* Forms, their fields and what becomes of the answers: FormAnswers. *)

Form == [is : {"free", "row", "gone"}, slug : Slugs \cup {None}]
Field == [is : {"free", "row", "gone"}, form : Forms \cup {None}, label : Labels \cup {None},
          kind : Kinds, required : BOOLEAN]
ScopedRule == [is : {"free", "row"}, trigger : Triggers, active : BOOLEAN, forms : SUBSET Forms,
               chosen : SUBSET Forms]
AnswerMap == [Fields -> Values]
EditLocals == [at : {"idle", "form", "field", "drop", "rule", "answers", "merge"},
               form : Forms \cup {None},
               field : Fields \cup {None}, rule : {None}, slug : Slugs \cup {None},
               label : Labels \cup {None, Keep}, kind : Kinds \cup {Keep}, trigger : Triggers,
               forms : SUBSET Forms, visit : Visits \cup {None}, read : AnswerMap]
Page == [is : {"closed", "open", "sent"}, form : Forms \cup {None},
         page : [Fields -> Labels \cup {None}], answered : SUBSET Fields, required : SUBSET Fields,
         by : {"label", "id"}, changed : BOOLEAN]

\* What a request of the staff holds by the write it is about to do.
Prepared(r) ==
  /\ r.at = "form" => r.slug \in Slugs
  /\ r.at = "field" => /\ r.form \in Forms /\ r.label \in Labels \cup {Keep}
                       /\ r.field = None => r.label \in Labels /\ r.kind \in Kinds
  /\ r.at = "drop" => r.field \in Fields
  /\ r.at \in {"answers", "merge"} => r.visit \in Visits /\ r.field \in Fields

FormsTyped ==
  /\ form \in [Forms -> Form] /\ field \in [Fields -> Field] /\ rule \in [Rules -> ScopedRule]
  /\ ed \in [Editors -> EditLocals] /\ \A e \in Editors : Prepared(ed[e])
  /\ visit \in [Visits -> Page]
  /\ regAns \in [Visits -> AnswerMap] /\ respAns \in [Visits -> AnswerMap]
  /\ fired \subseteq Rules \X Forms /\ requests \in Nat
  /\ bypassed \subseteq Rules /\ drift \subseteq Visits

\* A field stays in the form it was made for; rules are scoped to forms that exist; only the
\* answers that were sent are edited.
RowsStand ==
  /\ \A x \in Fields : field[x].is = "row" => field[x].form \in Forms
  /\ \A e \in Editors : ed[e].at = "field" /\ ed[e].field # None =>
       field[ed[e].field].form = ed[e].form /\ field[ed[e].field].is # "free"
  /\ \A w \in Rules : rule[w].is = "row" => rule[w].forms \subseteq FormRows
  /\ \A e \in Editors : ed[e].at \in {"answers", "merge"} => visit[ed[e].visit].is = "sent"
  /\ \A v \in Visits : visit[v].is # "closed" => visit[v].form \in Forms

\* The field that an active date rule reads is there, and nobody is about to remove it.
Needs(w) == /\ rule[w].is = "row" /\ rule[w].active /\ rule[w].trigger = "on_date_form_field"
            /\ w \notin bypassed
Spared(x) == \A e \in Editors : ~(ed[e].at = "drop" /\ ed[e].field = x)
DatesKept == \A w \in Rules : Needs(w) => \A f \in rule[w].forms : \E x \in DateFields(f) : Spared(x)

\* A page that nothing changed shows the form as it is.
PageTrue(v) ==
  visit[v].is = "open" /\ ~visit[v].changed =>
    \A x \in Fields : visit[v].page[x] = IF x \in FieldsOf(visit[v].form) THEN field[x].label ELSE None

\* What was sent under labels is where it was stored until the staff edit it.
Arrived(p, ans, need, m) ==
  /\ \A x \in need : m[x] # None
  /\ ~p.changed => \A x \in Fields : \/ m[x] = IF x \in ans THEN x ELSE None
                                     \/ \E y \in ans \ {x} : p.page[y] = p.page[x]
Reached(p, m) == Arrived(p, p.answered, p.required, m)
AnswerKept(v) ==
  visit[v].is = "sent" /\ visit[v].by = "label" /\ Untouched(v) => Reached(visit[v], regAns[v])

\* An edit has read what is stored, and between its two writes the copies differ by it alone.
Merging(e, v) == ed[e].at = "merge" /\ ed[e].visit = v
CopyKept(v) ==
  v \notin drift =>
    /\ visit[v].is = "closed" \/ visit[v].form \in FormRows
    /\ (\A e \in Editors : ~Merging(e, v)) => regAns[v] = respAns[v]
    /\ \A e \in Editors : ed[e].at = "answers" /\ ed[e].visit = v => ed[e].read = regAns[v]
    /\ \A e \in Editors : Merging(e, v) => /\ regAns[v] = [respAns[v] EXCEPT ![ed[e].field] = e]
                                           /\ \A o \in Editors : Merging(o, v) => o = e

FormsInv ==
  /\ FormsTyped /\ RowsStand /\ DatesKept
  /\ \A v \in Visits : PageTrue(v) /\ AnswerKept(v) /\ CopyKept(v)

-----------------------------------------------------------------------------
LEMMA PlainForms ==
  /\ NoForm \in Form /\ NoField \in Field /\ NoScopedRule \in ScopedRule /\ NoEdit \in EditLocals /\ NoPage \in Page
  /\ NoEdit.at = "idle" /\ NoPage.is = "closed" /\ NoScopedRule.is = "free" /\ NoField.is = "free"
  /\ Prepared(NoEdit) /\ [x \in Fields |-> None] \in AnswerMap
<1>1. [x \in Fields |-> None] \in AnswerMap
  BY DEF AnswerMap, Values
<1>2. NoForm \in Form /\ NoField \in Field /\ NoScopedRule \in ScopedRule /\ NoEdit.at = "idle"
      /\ NoPage.is = "closed" /\ NoScopedRule.is = "free" /\ NoField.is = "free" /\ Prepared(NoEdit)
  BY DEF NoForm, Form, NoField, Field, NoScopedRule, ScopedRule, NoEdit, NoPage, Kinds, Triggers, Prepared
<1>3. NoPage \in Page
  BY DEF NoPage, Page
<1>4. NoEdit \in EditLocals
  BY <1>1 DEF NoEdit, EditLocals, Kinds, Triggers
<1> QED
  BY <1>1, <1>2, <1>3, <1>4

LEMMA InitFormsInv == InitForms => FormsInv
<1> SUFFICES ASSUME InitForms PROVE FormsInv
  OBVIOUS
<1>1. /\ form \in [Forms -> Form] /\ requests \in Nat /\ bypassed = {} /\ drift = {} /\ fired = {}
  BY PlainForms DEF InitForms, Form
<1>2. /\ field \in [Fields -> Field] /\ \A x \in Fields : field[x].is = "row" => field[x].form \in Forms
  <2>1. [is : {"row"}, form : FormRows, label : Labels, kind : Kinds, required : BOOLEAN] \subseteq Field
    BY DEF Field, FormRows
  <2>2. field \in [Fields -> Field]
    BY <2>1, PlainForms DEF InitForms
  <2>3. ASSUME NEW x \in Fields, field[x].is = "row" PROVE field[x].form \in Forms
    <3>1. field[x] \in {NoField} \cup [is : {"row"}, form : FormRows, label : Labels, kind : Kinds, required : BOOLEAN]
      BY DEF InitForms
    <3> QED
      BY <2>3, <3>1 DEF NoField, FormRows
  <2> QED
    BY <2>2, <2>3
<1>3. /\ rule = [w \in Rules |-> NoScopedRule] /\ ed = [e \in Editors |-> NoEdit]
      /\ visit = [v \in Visits |-> NoPage] /\ regAns = [v \in Visits |-> [x \in Fields |-> None]]
      /\ respAns = regAns
  BY DEF InitForms
<1>4. FormsTyped
  BY <1>1, <1>2, <1>3, PlainForms DEF FormsTyped
<1>5. RowsStand
  BY <1>2, <1>3, PlainForms DEF RowsStand
<1>6. DatesKept
  BY <1>3, PlainForms DEF DatesKept, Needs
<1>7. ASSUME NEW v \in Visits PROVE PageTrue(v) /\ AnswerKept(v) /\ CopyKept(v)
  <2>1. visit[v].is = "closed" /\ regAns[v] = respAns[v] /\ \A e \in Editors : ed[e].at = "idle"
    BY <1>3, PlainForms
  <2> QED
    BY <2>1 DEF PageTrue, AnswerKept, CopyKept, Merging
<1> QED
  BY <1>4, <1>5, <1>6, <1>7 DEF FormsInv

LEMMA FormsTypes ==
  ASSUME FormsInv
  PROVE  /\ form \in [Forms -> Form] /\ field \in [Fields -> Field] /\ rule \in [Rules -> ScopedRule]
         /\ ed \in [Editors -> EditLocals] /\ \A e \in Editors : Prepared(ed[e])
         /\ visit \in [Visits -> Page]
         /\ regAns \in [Visits -> AnswerMap] /\ respAns \in [Visits -> AnswerMap]
         /\ fired \subseteq Rules \X Forms /\ requests \in Nat
         /\ bypassed \subseteq Rules /\ drift \subseteq Visits
BY DEF FormsInv, FormsTyped

-----------------------------------------------------------------------------
(* What a step that leaves a part alone keeps. *)

\* The fields that date rules read stay, and no other rule comes to read one.
LEMMA DatesStay ==
  ASSUME DatesKept, FormsTyped',
         \A w \in Rules : Needs(w)' => Needs(w) /\ rule'[w].forms \subseteq rule[w].forms,
         \A w \in Rules, f \in Forms, x \in Fields :
           Needs(w)' /\ f \in rule'[w].forms /\ x \in DateFields(f) /\ Spared(x) => x \in DateFields(f)' /\ Spared(x)'
  PROVE  DatesKept'
<1> SUFFICES ASSUME NEW w \in Rules, Needs(w)', NEW f \in rule'[w].forms
             PROVE  \E x \in DateFields(f)' : Spared(x)'
  BY DEF DatesKept
<1>1. Needs(w) /\ f \in rule[w].forms
  OBVIOUS
<1>2. PICK x \in DateFields(f) : Spared(x)
  BY <1>1 DEF DatesKept
<1>3. x \in Fields /\ f \in Forms
  BY <1>2 DEF DateFields, FieldsOf, FormsTyped, ScopedRule
<1> QED
  BY <1>2, <1>3

\* Only the requests of the staff move, and none comes to the middle of its two writes.
LEMMA AnswersStay ==
  ASSUME FormsInv, NEW v \in Visits, regAns'[v] = regAns[v], respAns'[v] = respAns[v],
         visit'[v].is = visit[v].is, visit'[v].form = visit[v].form,
         visit[v].is = "sent" => visit'[v] = visit[v],
         v \in drift => v \in drift',
         v \notin drift' /\ visit[v].form \in FormRows => visit[v].form \in FormRows',
         v \notin drift' => \A e \in Editors : Merging(e, v) <=> Merging(e, v)',
         v \notin drift' => \A e \in Editors : Merging(e, v) => ed'[e].field = ed[e].field,
         \A e \in Editors : ed'[e].at = "answers" /\ ed'[e].visit = v =>
            ed'[e].read = regAns[v] \/ ed'[e] = ed[e]
  PROVE  AnswerKept(v)' /\ CopyKept(v)'
<1>1. AnswerKept(v) /\ CopyKept(v)
  BY DEF FormsInv
<1>2. AnswerKept(v)'
  BY <1>1 DEF AnswerKept, Untouched
<1>3. CopyKept(v)'
  <2> SUFFICES ASSUME v \notin drift'
               PROVE  /\ visit'[v].is = "closed" \/ visit'[v].form \in FormRows'
                      /\ (\A e \in Editors : ~Merging(e, v)') => regAns'[v] = respAns'[v]
                      /\ \A e \in Editors : ed'[e].at = "answers" /\ ed'[e].visit = v => ed'[e].read = regAns'[v]
                      /\ \A e \in Editors : Merging(e, v)' => /\ regAns'[v] = [respAns'[v] EXCEPT ![ed'[e].field] = e]
                                                              /\ \A o \in Editors : Merging(o, v)' => o = e
    BY DEF CopyKept
  <2>1. v \notin drift
    OBVIOUS
  <2>2. /\ visit'[v].is = "closed" \/ visit'[v].form \in FormRows'
        /\ (\A e \in Editors : ~Merging(e, v)') => regAns'[v] = respAns'[v]
    BY <1>1, <2>1 DEF CopyKept
  <2>3. \A e \in Editors : ed'[e].at = "answers" /\ ed'[e].visit = v => ed'[e].read = regAns'[v]
    BY <1>1, <2>1 DEF CopyKept
  <2>4. \A e \in Editors : Merging(e, v)' => /\ regAns'[v] = [respAns'[v] EXCEPT ![ed'[e].field] = e]
                                             /\ \A o \in Editors : Merging(o, v)' => o = e
    BY <1>1, <2>1 DEF CopyKept
  <2> QED
    BY <2>2, <2>3, <2>4
<1> QED
  BY <1>2, <1>3

\* Nothing that a page shows changes.
LEMMA PageStays ==
  ASSUME FormsInv, NEW v \in Visits, visit'[v] = visit[v], NEW f, f = visit[v].form,
         \A x \in Fields : \/ field'[x] = field[x]
                           \/ field'[x].form # f /\ (field[x].form = f => field[x].is # "row")
  PROVE  PageTrue(v)'
<1>1. PageTrue(v)
  BY DEF FormsInv
<1> QED
  BY <1>1 DEF PageTrue, FieldsOf

\* The page of a form that changed is marked; a page of another form shows what it did.
LEMMA PagesMarked ==
  ASSUME FormsInv, NEW f, FormChanged(f), NEW v \in Visits,
         \A x \in Fields : \/ field'[x] = field[x]
                           \/ field'[x].form = f /\ (field[x].form # f => field[x].is # "row")
  PROVE  /\ visit'[v] \in Page /\ visit'[v].is = visit[v].is /\ visit'[v].form = visit[v].form
         /\ visit[v].is = "sent" => visit'[v] = visit[v]
         /\ PageTrue(v)'
<1>1. visit[v] \in Page /\ PageTrue(v)
  BY FormsTypes DEF FormsInv
<1>2. CASE visit[v].form = f /\ visit[v].is = "open"
  <2> DEFINE p == [visit[v] EXCEPT !.changed = TRUE]
  <2>1. visit'[v] = p
    BY <1>2 DEF FormChanged
  <2>2. p \in Page /\ p.changed /\ p.is = visit[v].is /\ p.form = visit[v].form
    BY <1>1 DEF Page
  <2> HIDE DEF p
  <2>3. PageTrue(v)'
    BY <2>1, <2>2 DEF PageTrue
  <2> QED
    BY <1>2, <2>1, <2>2, <2>3
<1>3. CASE ~(visit[v].form = f /\ visit[v].is = "open")
  <2>1. visit'[v] = visit[v]
    BY <1>3 DEF FormChanged
  <2>2. CASE visit[v].is = "open"
    <3>1. PICK g \in Forms \ {f} : g = visit[v].form
      BY <1>3, <2>2 DEF FormsInv, RowsStand
    <3>2. \A x \in Fields : \/ field'[x] = field[x]
                            \/ field'[x].form # g /\ (field[x].form = g => field[x].is # "row")
      OBVIOUS
    <3>3. PageTrue(v)'
      BY <2>1, <3>1, <3>2, PageStays
    <3> QED
      BY <1>1, <2>1, <2>2, <3>3
  <2>3. CASE visit[v].is # "open"
    BY <1>1, <2>1, <2>3 DEF PageTrue
  <2> QED
    BY <1>1, <2>1, <2>2, <2>3
<1> QED
  BY <1>2, <1>3

LEMMA EditBegins ==
  ASSUME FormsInv, NEW e \in Editors, NEW r \in EditLocals, Prepared(r), Start(e, r), r.at \notin {"idle", "merge"},
         r.at = "field" /\ r.field # None => field[r.field].form = r.form /\ field[r.field].is # "free",
         r.at = "drop" /\ field[r.field].kind = "date" => ~Feeds(r.field),
         r.at = "answers" => visit[r.visit].is = "sent" /\ r.read = regAns[r.visit]
  PROVE  FormsInv'
<1>1. /\ ed[e].at = "idle" /\ ed' = [ed EXCEPT ![e] = r] /\ requests' \in Nat
      /\ UNCHANGED <<form, field, rule, visit, regAns, respAns, fired, bypassed, drift>>
  BY FormsTypes DEF Start
<1>2. FormsTyped'
  BY <1>1, FormsTypes DEF FormsTyped
<1>3. /\ ed'[e] = r /\ \A o \in Editors : o # e => ed'[o] = ed[o]
  BY <1>1, FormsTypes
<1>4. RowsStand'
  BY <1>1, <1>3 DEF FormsInv, RowsStand, FormRows
<1>5. DatesKept'
  <2>1. ASSUME NEW w \in Rules, NEW f \in Forms, NEW x \in Fields, Needs(w)', f \in rule'[w].forms, x \in DateFields(f), Spared(x)
        PROVE  Spared(x)'
    <3>1. CASE r.at = "drop" /\ r.field = x
      BY <1>1, <2>1, <3>1 DEF Needs, Feeds, ScopedRules, DateFields, FieldsOf
    <3>2. CASE ~(r.at = "drop" /\ r.field = x)
      BY <1>3, <2>1, <3>2 DEF Spared
    <3> QED
      BY <3>1, <3>2
  <2>2. \A f : DateFields(f)' = DateFields(f)
    BY <1>1 DEF DateFields, FieldsOf
  <2>3. \A w \in Rules : Needs(w)' => Needs(w) /\ rule'[w].forms \subseteq rule[w].forms
    BY <1>1 DEF Needs
  <2> QED
    BY <1>2, <2>1, <2>2, <2>3, DatesStay DEF FormsInv
<1>6. ASSUME NEW v \in Visits PROVE PageTrue(v)' /\ AnswerKept(v)' /\ CopyKept(v)'
  <2>1. PageTrue(v)'
    BY <1>1, PageStays
  <2>2. \A o \in Editors : Merging(o, v) <=> Merging(o, v)'
    BY <1>1, <1>3 DEF Merging
  <2>3. \A o \in Editors : Merging(o, v) => ed'[o].field = ed[o].field
    BY <1>1, <1>3 DEF Merging
  <2>4. FormRows' = FormRows
    BY <1>1 DEF FormRows
  <2>5. \A o \in Editors : ed'[o].at = "answers" /\ ed'[o].visit = v =>
            ed'[o].read = regAns[v] \/ ed'[o] = ed[o]
    BY <1>3
  <2> QED
    BY <1>1, <2>1, <2>2, <2>3, <2>4, <2>5, AnswersStay
<1> QED
  BY <1>2, <1>4, <1>5, <1>6 DEF FormsInv

LEMMA StepStarts ==
  ASSUME FormsInv, NEW e \in Editors,
         \/ StartForm(e) \/ StartRename(e) \/ StartField(e) \/ StartFieldUpdate(e) \/ StartFieldDelete(e)
         \/ StartRule(e) \/ StartAnswers(e)
  PROVE  FormsInv'
<1> DEFINE Fit(r) == /\ Prepared(r) /\ r.at \notin {"idle", "merge"}
                     /\ r.at = "field" /\ r.field # None => field[r.field].form = r.form /\ field[r.field].is # "free"
                     /\ r.at = "drop" /\ field[r.field].kind = "date" => ~Feeds(r.field)
                     /\ r.at = "answers" => visit[r.visit].is = "sent" /\ r.read = regAns[r.visit]
<1> SUFFICES \E r \in EditLocals : Fit(r) /\ Start(e, r)
  BY EditBegins
<1>0. None \notin Forms /\ None \notin Fields
  BY FormsAssumption
<1>1. CASE StartForm(e)
  <2>1. PICK s \in Slugs : Start(e, [NoEdit EXCEPT !.at = "form", !.slug = s])
    BY <1>1 DEF StartForm
  <2> DEFINE r == [NoEdit EXCEPT !.at = "form", !.slug = s]
  <2>2. r \in EditLocals /\ r.at = "form" /\ r.slug = s
    BY PlainForms DEF EditLocals
  <2> HIDE DEF r
  <2>3. Fit(r)
    BY <2>2 DEF Prepared
  <2> QED
    BY <2>1, <2>2, <2>3 DEF r
<1>7. CASE StartRename(e)
  <2>1. PICK s \in Slugs, f \in Forms : Start(e, [NoEdit EXCEPT !.at = "form", !.slug = s, !.form = f])
    BY <1>7 DEF StartRename, FormRows
  <2> DEFINE r == [NoEdit EXCEPT !.at = "form", !.slug = s, !.form = f]
  <2>2. r \in EditLocals /\ r.at = "form" /\ r.slug = s
    BY PlainForms DEF EditLocals
  <2> HIDE DEF r
  <2>3. Fit(r)
    BY <2>2 DEF Prepared
  <2> QED
    BY <2>1, <2>2, <2>3 DEF r
<1>2. CASE StartField(e)
  <2>1. PICK f \in FormRows, l \in Labels, k \in Kinds :
          Start(e, [NoEdit EXCEPT !.at = "field", !.form = f, !.label = l, !.kind = k])
    BY <1>2 DEF StartField
  <2> DEFINE r == [NoEdit EXCEPT !.at = "field", !.form = f, !.label = l, !.kind = k]
  <2>2. r \in EditLocals /\ r.at = "field" /\ r.form = f /\ r.label = l /\ r.kind = k /\ r.field = None
    BY PlainForms DEF EditLocals, FormRows, NoEdit
  <2> HIDE DEF r
  <2>3. Fit(r)
    BY <2>2 DEF Prepared, FormRows
  <2> QED
    BY <2>1, <2>2, <2>3 DEF r
<1>3. CASE StartFieldUpdate(e)
  <2>1. PICK x \in Fields, l \in Labels \cup {Keep}, k \in Kinds \cup {Keep} :
          /\ field[x].is = "row"
          /\ Start(e, [NoEdit EXCEPT !.at = "field", !.form = field[x].form, !.field = x, !.label = l, !.kind = k])
    BY <1>3 DEF StartFieldUpdate
  <2> DEFINE r == [NoEdit EXCEPT !.at = "field", !.form = field[x].form, !.field = x, !.label = l, !.kind = k]
  <2>2. field[x].form \in Forms
    BY <2>1 DEF FormsInv, RowsStand
  <2>3. r \in EditLocals /\ r.at = "field" /\ r.form = field[x].form /\ r.label = l /\ r.kind = k /\ r.field = x
    BY <2>2, PlainForms DEF EditLocals
  <2> HIDE DEF r
  <2>4. Fit(r)
    BY <1>0, <2>1, <2>2, <2>3 DEF Prepared
  <2> QED
    BY <2>1, <2>3, <2>4 DEF r
<1>4. CASE StartFieldDelete(e)
  <2>1. PICK x \in Fields : /\ field[x].kind = "date" => ~Feeds(x)
                            /\ Start(e, [NoEdit EXCEPT !.at = "drop", !.field = x])
    BY <1>4 DEF StartFieldDelete
  <2> DEFINE r == [NoEdit EXCEPT !.at = "drop", !.field = x]
  <2>2. r \in EditLocals /\ r.at = "drop" /\ r.field = x
    BY PlainForms DEF EditLocals
  <2> HIDE DEF r
  <2>3. Fit(r)
    BY <2>1, <2>2 DEF Prepared
  <2> QED
    BY <2>1, <2>2, <2>3 DEF r
<1>5. CASE StartRule(e)
  <2>1. PICK t \in Triggers, fs \in SUBSET Forms : Start(e, [NoEdit EXCEPT !.at = "rule", !.trigger = t, !.forms = fs])
    BY <1>5 DEF StartRule
  <2> DEFINE r == [NoEdit EXCEPT !.at = "rule", !.trigger = t, !.forms = fs]
  <2>2. r \in EditLocals /\ r.at = "rule"
    BY PlainForms DEF EditLocals
  <2> HIDE DEF r
  <2>3. Fit(r)
    BY <2>2 DEF Prepared
  <2> QED
    BY <2>1, <2>2, <2>3 DEF r
<1>6. CASE StartAnswers(e)
  <2>1. PICK v \in Visits, x \in Fields :
          /\ visit[v].is = "sent"
          /\ Start(e, [NoEdit EXCEPT !.at = "answers", !.visit = v, !.field = x, !.read = regAns[v]])
    BY <1>6 DEF StartAnswers
  <2> DEFINE r == [NoEdit EXCEPT !.at = "answers", !.visit = v, !.field = x, !.read = regAns[v]]
  <2>2. r \in EditLocals /\ r.at = "answers" /\ r.visit = v /\ r.field = x /\ r.read = regAns[v]
    BY PlainForms, FormsTypes DEF EditLocals
  <2> HIDE DEF r
  <2>3. Fit(r)
    BY <2>1, <2>2 DEF Prepared
  <2> QED
    BY <2>1, <2>2, <2>3 DEF r
<1> QED
  BY <1>1, <1>2, <1>3, <1>4, <1>5, <1>6, <1>7

-----------------------------------------------------------------------------
(* The writes of the staff to forms, fields and rules. *)

\* A request that ends.
LEMMA EditEnds ==
  ASSUME FormsInv, NEW e \in Editors, Ends(e)
  PROVE  /\ ed' \in [Editors -> EditLocals] /\ \A o \in Editors : Prepared(ed'[o])
         /\ ed'[e] = NoEdit /\ NoEdit.at = "idle" /\ \A o \in Editors \ {e} : ed'[o] = ed[o]
         /\ \A x \in Fields : Spared(x) => Spared(x)'
<1>1. /\ ed' \in [Editors -> EditLocals] /\ ed'[e] = NoEdit /\ NoEdit.at = "idle"
      /\ \A o \in Editors \ {e} : ed'[o] = ed[o]
  BY FormsTypes, PlainForms DEF Ends
<1>2. \A o \in Editors : Prepared(ed'[o])
  BY <1>1, FormsTypes, PlainForms
<1>3. \A x \in Fields : Spared(x) => Spared(x)'
  BY <1>1 DEF Spared
<1> QED
  BY <1>1, <1>2, <1>3

\* ... and that had not written answers.
LEMMA EditOver ==
  ASSUME FormsInv, NEW e \in Editors, Ends(e), ed[e].at # "merge", UNCHANGED <<regAns, respAns, drift>>,
         NEW v \in Visits, visit'[v].is = visit[v].is, visit'[v].form = visit[v].form,
         visit[v].is = "sent" => visit'[v] = visit[v],
         FormRows \subseteq FormRows'
  PROVE  AnswerKept(v)' /\ CopyKept(v)'
<1>1. ed'[e] = NoEdit /\ NoEdit.at = "idle" /\ \A o \in Editors \ {e} : ed'[o] = ed[o]
  BY EditEnds
<1>2. \A o \in Editors : Merging(o, v) <=> Merging(o, v)'
  BY <1>1 DEF Merging
<1>3. \A o \in Editors : Merging(o, v) => ed'[o].field = ed[o].field
  BY <1>1 DEF Merging
<1>4. \A o \in Editors : ed'[o].at = "answers" /\ ed'[o].visit = v => ed'[o].read = regAns[v] \/ ed'[o] = ed[o]
  BY <1>1
<1> QED
  BY <1>2, <1>3, <1>4, AnswersStay

LEMMA StepWriteForm == ASSUME FormsInv, NEW e \in Editors, WriteForm(e) PROVE FormsInv'
<1>1. /\ ed[e].at = "form" /\ Ends(e)
      /\ UNCHANGED <<field, rule, visit, bypassed, regAns, respAns, fired, requests, drift>>
  BY DEF WriteForm, Others
<1>2. form' \in [Forms -> Form] /\ FormRows \subseteq FormRows'
  <2>1. ed[e].slug \in Slugs
    BY <1>1, FormsTypes DEF Prepared
  <2>2. CASE UNCHANGED form
    BY <2>2, FormsTypes DEF FormRows
  <2>3. CASE \E f \in Forms : form' = [form EXCEPT ![f] = [is |-> "row", slug |-> ed[e].slug]]
    BY <2>1, <2>3, FormsTypes DEF FormRows, Form
  <2> QED
    BY <2>2, <2>3 DEF WriteForm
<1>3. FormsTyped'
  BY <1>1, <1>2, EditEnds, FormsTypes DEF FormsTyped
<1>4. RowsStand'
  BY <1>1, <1>2, EditEnds DEF FormsInv, RowsStand
<1>5. DatesKept'
  <2>1. \A f : DateFields(f)' = DateFields(f)
    BY <1>1 DEF DateFields, FieldsOf
  <2>2. \A w \in Rules : Needs(w)' => Needs(w) /\ rule'[w].forms \subseteq rule[w].forms
    BY <1>1 DEF Needs
  <2> QED
    BY <1>1, <1>3, <2>1, <2>2, EditEnds, DatesStay DEF FormsInv
<1>6. ASSUME NEW v \in Visits PROVE PageTrue(v)' /\ AnswerKept(v)' /\ CopyKept(v)'
  BY <1>1, <1>2, PageStays, EditOver
<1> QED
  BY <1>3, <1>4, <1>5, <1>6 DEF FormsInv

LEMMA StepDeleteForm == ASSUME FormsInv, NEW e \in Editors, DeleteForm(e) PROVE FormsInv'
<1>1. PICK f \in FormRows :
    /\ requests' = requests + 1
    /\ form' = [form EXCEPT ![f].is = "gone"]
    /\ field' = [x \in Fields |-> IF x \in FieldsOf(f) THEN [field[x] EXCEPT !.is = "gone"] ELSE field[x]]
    /\ rule' = [w \in Rules |-> [rule[w] EXCEPT !.forms = rule[w].forms \ {f}]]
    /\ respAns' = [v \in Visits |-> IF visit[v].form = f THEN [x \in Fields |-> None] ELSE respAns[v]]
    /\ drift' = drift \cup {v \in Visits : visit[v].form = f}
    /\ FormChanged(f) /\ UNCHANGED <<ed, regAns, fired, bypassed>>
  BY DEF DeleteForm
<1>2. f \in Forms /\ FormRows' = FormRows \ {f} /\ form' \in [Forms -> Form]
  <2>1. form \in [Forms -> Form] /\ f \in Forms
    BY FormsTypes DEF FormRows
  <2> DEFINE r == [form[f] EXCEPT !.is = "gone"]
  <2>2. form' = [form EXCEPT ![f] = r]
    BY <1>1
  <2>3. r \in Form /\ r.is = "gone"
    BY <2>1 DEF Form
  <2> HIDE DEF r
  <2> QED
    BY <2>1, <2>2, <2>3 DEF FormRows
<1>3. /\ field' \in [Fields -> Field]
      /\ \A x \in Fields :
           /\ field'[x].form = field[x].form /\ field'[x].kind = field[x].kind
           /\ field'[x].is = IF x \in FieldsOf(f) THEN "gone" ELSE field[x].is
           /\ x \notin FieldsOf(f) => field'[x] = field[x]
  <2>1. ASSUME NEW x \in Fields
        PROVE  /\ field'[x] \in Field /\ field'[x].form = field[x].form /\ field'[x].kind = field[x].kind
               /\ field'[x].is = IF x \in FieldsOf(f) THEN "gone" ELSE field[x].is
               /\ x \notin FieldsOf(f) => field'[x] = field[x]
    <3>1. field[x] \in Field
      BY FormsTypes
    <3>2. CASE x \in FieldsOf(f)
      <4>1. field'[x] = [field[x] EXCEPT !.is = "gone"]
        BY <1>1, <3>2
      <4> QED
        BY <3>1, <3>2, <4>1 DEF Field
    <3>3. CASE x \notin FieldsOf(f)
      <4>1. field'[x] = field[x]
        BY <1>1, <3>3
      <4> QED
        BY <3>1, <3>3, <4>1
    <3> QED
      BY <3>2, <3>3
  <2>2. field' = [x \in Fields |-> field'[x]]
    BY <1>1
  <2> QED
    BY <2>1, <2>2
<1>4. /\ rule' \in [Rules -> ScopedRule]
      /\ \A w \in Rules :
           /\ rule'[w].is = rule[w].is /\ rule'[w].active = rule[w].active
           /\ rule'[w].trigger = rule[w].trigger /\ rule'[w].forms = rule[w].forms \ {f}
  <2>1. ASSUME NEW w \in Rules PROVE [rule[w] EXCEPT !.forms = rule[w].forms \ {f}] \in ScopedRule
    BY FormsTypes DEF ScopedRule
  <2> QED
    BY <1>1, <2>1, FormsTypes DEF ScopedRule
<1>5. ASSUME NEW v \in Visits
      PROVE  /\ visit'[v] \in Page /\ visit'[v].is = visit[v].is /\ visit'[v].form = visit[v].form
             /\ visit[v].is = "sent" => visit'[v] = visit[v]
             /\ PageTrue(v)'
  <2>1. \A x \in Fields : \/ field'[x] = field[x]
                          \/ field'[x].form = f /\ (field[x].form # f => field[x].is # "row")
    BY <1>3 DEF FieldsOf
  <2> QED
    BY <1>1, <2>1, PagesMarked
<1>6. FormsTyped'
  <2>1. visit' \in [Visits -> Page]
    BY <1>1, <1>5 DEF FormChanged
  <2>2. respAns' \in [Visits -> AnswerMap]
    BY <1>1, PlainForms, FormsTypes
  <2> QED
    <3>1. requests' \in Nat
      BY <1>1, FormsTypes
    <3>2. drift' \subseteq Visits
      BY <1>1, FormsTypes
    <3>3. /\ ed' \in [Editors -> EditLocals] /\ \A o \in Editors : Prepared(ed'[o])
          /\ regAns' \in [Visits -> AnswerMap] /\ fired' \subseteq Rules \X Forms /\ bypassed' \subseteq Rules
      BY <1>1, FormsTypes
    <3> QED
      BY <1>2, <1>3, <1>4, <2>1, <2>2, <3>1, <3>2, <3>3 DEF FormsTyped
<1>7. RowsStand'
  <2>1. \A o \in Editors : ed[o].at = "field" /\ ed[o].field # None => ed[o].field \in Fields
    BY FormsTypes DEF EditLocals
  <2>2. \A o \in Editors : ed[o].at \in {"answers", "merge"} => ed[o].visit \in Visits
    BY FormsTypes DEF Prepared
  <2> QED
    <3>1. \A x \in Fields : field'[x].is = "row" => field'[x].form \in Forms
      BY <1>3 DEF FormsInv, RowsStand
    <3>2. \A o \in Editors : ed'[o].at = "field" /\ ed'[o].field # None =>
            field'[ed'[o].field].form = ed'[o].form /\ field'[ed'[o].field].is # "free"
      BY <1>1, <1>3, <2>1 DEF FormsInv, RowsStand
    <3>3. \A w \in Rules : rule'[w].is = "row" => rule'[w].forms \subseteq FormRows'
      BY <1>2, <1>4 DEF FormsInv, RowsStand
    <3>4. \A o \in Editors : ed'[o].at \in {"answers", "merge"} => visit'[ed'[o].visit].is = "sent"
      BY <1>1, <1>5, <2>2 DEF FormsInv, RowsStand
    <3>5. \A v \in Visits : visit'[v].is # "closed" => visit'[v].form \in Forms
      BY <1>5 DEF FormsInv, RowsStand
    <3> QED
      BY <3>1, <3>2, <3>3, <3>4, <3>5 DEF RowsStand
<1>8. DatesKept'
  <2>1. \A w \in Rules : Needs(w)' => Needs(w) /\ rule'[w].forms \subseteq rule[w].forms
    BY <1>1, <1>4 DEF Needs
  <2>2. ASSUME NEW w \in Rules, NEW g \in Forms, NEW x \in Fields, g \in rule'[w].forms, x \in DateFields(g), Spared(x)
        PROVE  x \in DateFields(g)' /\ Spared(x)'
    <3>1. g # f
      BY <1>4, <2>2
    <3>2. field'[x] = field[x]
      BY <1>3, <2>2, <3>1 DEF DateFields, FieldsOf
    <3> QED
      BY <1>1, <2>2, <3>2 DEF DateFields, FieldsOf, Spared
  <2> QED
    BY <1>6, <2>1, <2>2, DatesStay DEF FormsInv
<1>9. ASSUME NEW v \in Visits PROVE AnswerKept(v)' /\ CopyKept(v)'
  <2>1. CASE visit[v].form = f
    <3>1. v \in drift'
      BY <1>1, <2>1
    <3>2. AnswerKept(v)
      BY DEF FormsInv
    <3>3. AnswerKept(v)'
      BY <1>1, <1>5, <3>2 DEF AnswerKept, Untouched
    <3> QED
      BY <3>1, <3>3 DEF CopyKept
  <2>2. CASE visit[v].form # f
    <3>1. respAns'[v] = respAns[v] /\ regAns'[v] = regAns[v] /\ (v \in drift => v \in drift')
      BY <1>1, <2>2
    <3>2. visit[v].form \in FormRows => visit[v].form \in FormRows'
      BY <1>2, <2>2
    <3>3. \A o \in Editors : (Merging(o, v) <=> Merging(o, v)') /\ ed'[o] = ed[o]
      BY <1>1 DEF Merging
    <3> QED
      BY <1>5, <3>1, <3>2, <3>3, AnswersStay
  <2> QED
    BY <2>1, <2>2
<1> QED
  BY <1>5, <1>6, <1>7, <1>8, <1>9 DEF FormsInv

LEMMA StepWriteField == ASSUME FormsInv, NEW e \in Editors, WriteField(e) PROVE FormsInv'
<1>0. PICK r \in EditLocals : r = ed[e] /\ Prepared(r)
  BY FormsTypes
<1>1. r.at = "field" /\ Ends(e) /\ UNCHANGED <<form, rule, regAns, respAns, fired, requests, drift>>
  BY <1>0 DEF WriteField, Others
<1>2. CASE UNCHANGED <<field, visit, bypassed>>
  <2>1. FormsTyped'
    BY <1>1, <1>2, EditEnds, FormsTypes DEF FormsTyped
  <2>2. RowsStand'
    BY <1>1, <1>2, EditEnds DEF FormsInv, RowsStand, FormRows
  <2>3. DatesKept'
    <3>1. \A f : DateFields(f)' = DateFields(f)
      BY <1>2 DEF DateFields, FieldsOf
    <3>2. \A w \in Rules : Needs(w)' => Needs(w) /\ rule'[w].forms \subseteq rule[w].forms
      BY <1>1, <1>2 DEF Needs
    <3> QED
      BY <1>1, <2>1, <3>1, <3>2, EditEnds, DatesStay DEF FormsInv
  <2>4. FormRows' = FormRows
    BY <1>1 DEF FormRows
  <2>5. ASSUME NEW v \in Visits PROVE PageTrue(v)' /\ AnswerKept(v)' /\ CopyKept(v)'
    BY <1>0, <1>1, <1>2, <2>4, PageStays, EditOver
  <2> QED
    BY <2>1, <2>2, <2>3, <2>5 DEF FormsInv
<1>3. CASE \E x \in Fields :
          /\ IF r.field = None THEN field[x].is = "free" /\ FreshField(x) /\ r.form \in FormRows
                               ELSE x = r.field /\ field[x].is = "row"
          /\ field' = [field EXCEPT ![x] = [is |-> "row", form |-> r.form,
                         label |-> IF r.label = Keep THEN field[x].label ELSE r.label,
                         kind |-> IF r.kind = Keep THEN field[x].kind ELSE r.kind,
                         required |-> r.field = None \/ field[x].required]]
          /\ bypassed' = bypassed \cup Retyped(x, r.kind)
          /\ FormChanged(r.form)
  <2>1. PICK x \in Fields :
          /\ IF r.field = None THEN field[x].is = "free" /\ FreshField(x) /\ r.form \in FormRows
                               ELSE x = r.field /\ field[x].is = "row"
          /\ field' = [field EXCEPT ![x] = [is |-> "row", form |-> r.form,
                         label |-> IF r.label = Keep THEN field[x].label ELSE r.label,
                         kind |-> IF r.kind = Keep THEN field[x].kind ELSE r.kind,
                         required |-> r.field = None \/ field[x].required]]
          /\ bypassed' = bypassed \cup Retyped(x, r.kind)
          /\ FormChanged(r.form)
    BY <1>3
  <2>2. field[x] \in Field /\ field \in [Fields -> Field]
    BY FormsTypes
  <2>3. r.form \in Forms
    BY <1>0, <1>1 DEF Prepared
  <2>4. field[x].is = "row" => field[x].form = r.form
    BY <1>0, <1>1, <2>1 DEF FormsInv, RowsStand
  <2>5. PICK c \in Field : /\ field' = [field EXCEPT ![x] = c] /\ c.is = "row" /\ c.form = r.form
                           /\ c.kind = IF r.kind = Keep THEN field[x].kind ELSE r.kind
    <3> DEFINE c == [is |-> "row", form |-> r.form,
                     label |-> IF r.label = Keep THEN field[x].label ELSE r.label,
                     kind |-> IF r.kind = Keep THEN field[x].kind ELSE r.kind,
                     required |-> r.field = None \/ field[x].required]
    <3>1. c.label \in Labels \cup {None} /\ c.kind \in Kinds
      BY <1>0, <1>1, <2>2 DEF Prepared, Field, EditLocals
    <3>2. c.required \in BOOLEAN
      BY Zenon
    <3>3. c = [is |-> "row", form |-> r.form, label |-> c.label, kind |-> c.kind, required |-> c.required]
      BY Zenon
    <3>4. c \in Field
      <4> HIDE DEF c
      <4> QED
        BY <2>3, <3>1, <3>2, <3>3 DEF Field
    <3>5. c.is = "row" /\ c.form = r.form /\ c.kind = IF r.kind = Keep THEN field[x].kind ELSE r.kind
      BY Zenon
    <3>6. field' = [field EXCEPT ![x] = c]
      BY <2>1, Zenon
    <3> HIDE DEF c
    <3> QED
      BY <3>4, <3>5, <3>6
  <2>6. field' \in [Fields -> Field] /\ field'[x] = c /\ \A y \in Fields \ {x} : field'[y] = field[y]
    BY <2>2, <2>5
  <2>7. ASSUME NEW v \in Visits
        PROVE  /\ visit'[v] \in Page /\ visit'[v].is = visit[v].is /\ visit'[v].form = visit[v].form
               /\ visit[v].is = "sent" => visit'[v] = visit[v]
               /\ PageTrue(v)'
    <3>1. \A y \in Fields : \/ field'[y] = field[y]
                            \/ field'[y].form = r.form /\ (field[y].form # r.form => field[y].is # "row")
      BY <2>4, <2>5, <2>6
    <3> QED
      BY <2>1, <3>1, PagesMarked
  <2>8. FormsTyped'
    <3>1. visit' \in [Visits -> Page]
      BY <2>1, <2>7 DEF FormChanged
    <3>2. bypassed' \subseteq Rules
      BY <2>1, FormsTypes DEF Retyped, ScopedRules
    <3> QED
      BY <1>1, <2>6, <3>1, <3>2, EditEnds, FormsTypes DEF FormsTyped
  <2>9. RowsStand'
    <3>1. \A y \in Fields : field'[y].is = "row" => field'[y].form \in Forms
      BY <2>3, <2>5, <2>6 DEF FormsInv, RowsStand
    <3>2. ASSUME NEW o \in Editors, ed'[o].at = "field", ed'[o].field # None
          PROVE  field'[ed'[o].field].form = ed'[o].form /\ field'[ed'[o].field].is # "free"
      <4>1. ed'[o] = ed[o] /\ ed[o].field \in Fields
        BY <1>1, <3>2, EditEnds, FormsTypes DEF EditLocals
      <4>2. field[ed[o].field].form = ed[o].form /\ field[ed[o].field].is # "free"
        BY <3>2, <4>1 DEF FormsInv, RowsStand
      <4>3. CASE ed[o].field = x
        <5>1. field[x].is = "row"
          BY <2>1, <4>2, <4>3
        <5> QED
          BY <2>4, <2>5, <2>6, <4>1, <4>2, <4>3, <5>1
      <4> QED
        BY <2>6, <4>1, <4>2, <4>3
    <3>3. FormRows' = FormRows
      BY <1>1 DEF FormRows
    <3>4. \A o \in Editors : ed'[o].at \in {"answers", "merge"} => ed'[o] = ed[o] /\ ed[o].visit \in Visits
      BY <1>1, EditEnds, FormsTypes DEF Prepared
    <3> QED
      BY <1>1, <2>7, <3>1, <3>2, <3>3, <3>4 DEF FormsInv, RowsStand
  <2>10. DatesKept'
    <3>1. \A w \in Rules : Needs(w)' => Needs(w) /\ rule'[w].forms \subseteq rule[w].forms
      BY <1>1, <2>1 DEF Needs
    <3>2. ASSUME NEW w \in Rules, NEW f \in Forms, NEW y \in Fields, Needs(w)', f \in rule'[w].forms, y \in DateFields(f)
          PROVE  y \in DateFields(f)'
      <4>1. CASE y # x
        BY <2>6, <3>2, <4>1 DEF DateFields, FieldsOf
      <4>2. CASE y = x
        <5>1. field[x].is = "row" /\ field[x].form = f /\ field[x].kind = "date"
          BY <3>2, <4>2 DEF DateFields, FieldsOf
        <5>2. w \notin Retyped(x, r.kind)
          BY <2>1, <3>2 DEF Needs
        <5>3. r.kind \in {"date", Keep}
          BY <1>1, <3>2, <5>1, <5>2 DEF Retyped, Needs, ScopedRules
        <5>4. c.kind = "date" /\ c.form = f
          BY <2>4, <2>5, <5>1, <5>3
        <5> QED
          BY <2>5, <2>6, <4>2, <5>4 DEF DateFields, FieldsOf
      <4> QED
        BY <4>1, <4>2
    <3> QED
      BY <1>1, <2>8, <3>1, <3>2, EditEnds, DatesStay DEF FormsInv
  <2>11. FormRows' = FormRows
    BY <1>1 DEF FormRows
  <2>12. ASSUME NEW v \in Visits PROVE AnswerKept(v)' /\ CopyKept(v)'
    BY <1>0, <1>1, <2>7, <2>11, EditOver
  <2> QED
    BY <2>7, <2>8, <2>9, <2>10, <2>12 DEF FormsInv
<1> QED
  <2> USE <1>0
  <2> QED
    BY <1>2, <1>3, Zenon DEF WriteField

LEMMA StepDropField == ASSUME FormsInv, NEW e \in Editors, DropField(e) PROVE FormsInv'
<1>0. PICK x \in Fields : x = ed[e].field /\ ed[e].at = "drop" /\ Ends(e)
  BY FormsTypes DEF DropField, Prepared
<1>1. UNCHANGED <<form, rule, bypassed, regAns, respAns, fired, requests, drift>>
  BY DEF DropField, Others
<1>2. PICK f : f = field[x].form
  OBVIOUS
<1>3. /\ field' \in [Fields -> Field] /\ \A y \in Fields \ {x} : field'[y] = field[y]
      /\ field'[x].form = f /\ field'[x].is = IF field[x].is = "row" THEN "gone" ELSE field[x].is
  <2>1. field \in [Fields -> Field]
    BY FormsTypes
  <2>2. CASE field[x].is = "row"
    <3> DEFINE c == [field[x] EXCEPT !.is = "gone"]
    <3>1. field' = [field EXCEPT ![x] = c]
      BY <1>0, <2>2 DEF DropField
    <3>2. c \in Field /\ c.is = "gone" /\ c.form = f
      BY <1>2, <2>1 DEF Field
    <3> HIDE DEF c
    <3> QED
      BY <2>1, <2>2, <3>1, <3>2
  <2>3. CASE field[x].is # "row"
    BY <1>0, <1>2, <2>1, <2>3 DEF DropField
  <2> QED
    BY <2>2, <2>3
<1>4. ASSUME NEW v \in Visits
      PROVE  /\ visit'[v] \in Page /\ visit'[v].is = visit[v].is /\ visit'[v].form = visit[v].form
             /\ visit[v].is = "sent" => visit'[v] = visit[v]
             /\ PageTrue(v)'
  <2>1. CASE field[x].is = "row"
    <3>1. \A y \in Fields : \/ field'[y] = field[y]
                            \/ field'[y].form = f /\ (field[y].form # f => field[y].is # "row")
      BY <1>2, <1>3
    <3>2. FormChanged(f)
      BY <1>0, <1>2, <2>1 DEF DropField
    <3> QED
      BY <3>1, <3>2, PagesMarked
  <2>2. CASE field[x].is # "row"
    <3>1. UNCHANGED <<field, visit>>
      BY <1>0, <2>2 DEF DropField
    <3> QED
      BY <3>1, FormsTypes, PageStays
  <2> QED
    BY <2>1, <2>2
<1>5. FormsTyped'
  <2>1. visit' \in [Visits -> Page]
    BY <1>4, FormsTypes DEF DropField, FormChanged
  <2> QED
    BY <1>0, <1>1, <1>3, <2>1, EditEnds, FormsTypes DEF FormsTyped
<1>6. RowsStand'
  <2>1. \A y \in Fields : field'[y].is = "row" => field'[y].form \in Forms
    BY <1>3 DEF FormsInv, RowsStand
  <2>2. ASSUME NEW o \in Editors, ed'[o].at = "field", ed'[o].field # None
        PROVE  field'[ed'[o].field].form = ed'[o].form /\ field'[ed'[o].field].is # "free"
    <3>1. ed'[o] = ed[o] /\ ed[o].field \in Fields
      BY <1>0, <2>2, EditEnds, FormsTypes DEF EditLocals
    <3>2. field[ed[o].field].form = ed[o].form /\ field[ed[o].field].is # "free"
      BY <2>2, <3>1 DEF FormsInv, RowsStand
    <3> QED
      BY <1>2, <1>3, <3>1, <3>2
  <2>3. FormRows' = FormRows
    BY <1>1 DEF FormRows
  <2>4. \A o \in Editors : ed'[o].at \in {"answers", "merge"} => ed'[o] = ed[o] /\ ed[o].visit \in Visits
    BY <1>0, EditEnds, FormsTypes DEF Prepared
  <2> QED
    BY <1>1, <1>4, <2>1, <2>2, <2>3, <2>4 DEF FormsInv, RowsStand
<1>7. DatesKept'
  <2>1. \A w \in Rules : Needs(w)' => Needs(w) /\ rule'[w].forms \subseteq rule[w].forms
    BY <1>1 DEF Needs
  <2>2. ASSUME NEW g \in Forms, NEW y \in Fields, y \in DateFields(g), Spared(y)
        PROVE  y \in DateFields(g)' /\ Spared(y)'
    <3>1. y # x
      BY <1>0, <2>2 DEF Spared
    <3>2. field'[y] = field[y]
      BY <1>3, <3>1
    <3> QED
      BY <1>0, <2>2, <3>2, EditEnds DEF DateFields, FieldsOf
  <2> QED
    BY <1>5, <2>1, <2>2, DatesStay DEF FormsInv
<1>8. FormRows' = FormRows
  BY <1>1 DEF FormRows
<1>9. ASSUME NEW v \in Visits PROVE AnswerKept(v)' /\ CopyKept(v)'
  BY <1>0, <1>1, <1>4, <1>8, EditOver
<1> QED
  BY <1>4, <1>5, <1>6, <1>7, <1>9 DEF FormsInv

\* A rule comes to be active, past the check or with the fields that it needs.
LEMMA DatesJoin ==
  ASSUME FormsInv, FormsTyped', NEW w \in Rules, UNCHANGED field,
         \A x \in Fields : Spared(x) => Spared(x)',
         \A o \in Rules \ {w} : Needs(o)' => Needs(o) /\ rule'[o].forms = rule[o].forms,
         rule'[w].forms \subseteq Forms,
         Needs(w)' => \/ Needs(w) /\ rule'[w].forms = rule[w].forms
                      \/ ~Bypasses(rule'[w].forms, rule'[w].trigger)
  PROVE  DatesKept'
<1>1. \A f : DateFields(f)' = DateFields(f)
  BY DEF DateFields, FieldsOf
<1> SUFFICES ASSUME NEW o \in Rules, Needs(o)', NEW f \in rule'[o].forms
             PROVE  \E x \in DateFields(f)' : Spared(x)'
  BY DEF DatesKept
<1>2. f \in Forms
  BY DEF FormsTyped, ScopedRule
<1>3. CASE Needs(o) /\ rule'[o].forms = rule[o].forms
  <2>1. PICK x \in DateFields(f) : Spared(x)
    BY <1>3 DEF FormsInv, DatesKept
  <2> QED
    BY <1>1, <1>2, <2>1 DEF DateFields, FieldsOf
<1>4. CASE o = w /\ ~Bypasses(rule'[w].forms, rule'[w].trigger)
  <2>1. rule'[w].trigger = "on_date_form_field" /\ f \in rule'[w].forms
    BY <1>4 DEF Needs
  <2>2. /\ MayScope(rule'[w].forms, rule'[w].trigger)
        /\ \A e \in Editors : ~(/\ ed[e].at = "drop" /\ field[ed[e].field].kind = "date"
                                 /\ field[ed[e].field].form \in rule'[w].forms)
    BY <1>4 DEF Bypasses
  <2>3. PICK x : x \in DateFields(f)
    BY <2>1, <2>2 DEF MayScope
  <2>4. x \in Fields /\ field[x].kind = "date" /\ field[x].form = f
    BY <2>3 DEF DateFields, FieldsOf
  <2>5. Spared(x)
    BY <2>1, <2>2, <2>4 DEF Spared
  <2> QED
    BY <1>1, <1>2, <2>3, <2>4, <2>5
<1> QED
  BY <1>3, <1>4

LEMMA StepInsertRule == ASSUME FormsInv, NEW e \in Editors, InsertRule(e) PROVE FormsInv'
<1>0. PICK r \in EditLocals : r = ed[e] /\ r.at = "rule" /\ Ends(e)
  BY FormsTypes DEF InsertRule
<1>1. /\ UNCHANGED <<form, field, visit, regAns, respAns, fired, requests, drift>>
      /\ \/ UNCHANGED <<rule, bypassed>>
         \/ /\ r.forms \subseteq FormRows
            /\ \E w \in Rules :
                  /\ rule[w].is = "free"
                  /\ rule' = [rule EXCEPT ![w] = [is |-> "row", trigger |-> r.trigger, active |-> TRUE,
                                                  forms |-> r.forms, chosen |-> r.forms]]
                  /\ bypassed' = IF Bypasses(r.forms, r.trigger) THEN bypassed \cup {w} ELSE bypassed
  BY <1>0 DEF InsertRule, Others
<1>2. FormRows' = FormRows /\ \A x \in Fields : Spared(x) => Spared(x)'
  BY <1>0, <1>1, EditEnds DEF FormRows
<1>3. /\ rule' \in [Rules -> ScopedRule] /\ bypassed' \subseteq Rules
      /\ \A w \in Rules : rule'[w].is = "row" => rule'[w].forms \subseteq FormRows
  <2>1. r.forms \in SUBSET Forms /\ r.trigger \in Triggers
    BY DEF EditLocals
  <2>2. [is |-> "row", trigger |-> r.trigger, active |-> TRUE, forms |-> r.forms, chosen |-> r.forms] \in ScopedRule
    BY <2>1 DEF ScopedRule
  <2>3. CASE UNCHANGED <<rule, bypassed>>
    BY <2>3, FormsTypes DEF FormsInv, RowsStand
  <2>4. CASE ~UNCHANGED <<rule, bypassed>>
    <3>1. PICK w \in Rules, c \in ScopedRule : /\ rule' = [rule EXCEPT ![w] = c] /\ c.forms = r.forms
                                              /\ r.forms \subseteq FormRows /\ bypassed' \in {bypassed, bypassed \cup {w}}
      BY <1>1, <2>2, <2>4
    <3> QED
      BY <3>1, FormsTypes DEF FormsInv, RowsStand
  <2> QED
    BY <2>3, <2>4
<1>4. FormsTyped'
  BY <1>0, <1>1, <1>3, EditEnds, FormsTypes DEF FormsTyped
<1>5. RowsStand'
  BY <1>0, <1>1, <1>2, <1>3, EditEnds DEF FormsInv, RowsStand
<1>6. DatesKept'
  <2>1. CASE UNCHANGED <<rule, bypassed>>
    <3>1. \A f : DateFields(f)' = DateFields(f)
      BY <1>1 DEF DateFields, FieldsOf
    <3>2. \A w \in Rules : Needs(w)' => Needs(w) /\ rule'[w].forms \subseteq rule[w].forms
      BY <2>1 DEF Needs
    <3> QED
      BY <1>2, <1>4, <3>1, <3>2, DatesStay DEF FormsInv
  <2>2. CASE ~UNCHANGED <<rule, bypassed>>
    <3>1. PICK w \in Rules :
            /\ rule[w].is = "free"
            /\ rule' = [rule EXCEPT ![w] = [is |-> "row", trigger |-> r.trigger, active |-> TRUE,
                                            forms |-> r.forms, chosen |-> r.forms]]
            /\ bypassed' = IF Bypasses(r.forms, r.trigger) THEN bypassed \cup {w} ELSE bypassed
      BY <1>1, <2>2
    <3>2. /\ \A o \in Rules \ {w} : rule'[o] = rule[o] /\ (o \in bypassed => o \in bypassed')
          /\ rule'[w].forms = r.forms /\ rule'[w].trigger = r.trigger
          /\ w \notin bypassed' => ~Bypasses(r.forms, r.trigger)
      BY <3>1, FormsTypes
    <3>3. \A o \in Rules \ {w} : Needs(o)' => Needs(o) /\ rule'[o].forms = rule[o].forms
      BY <3>2 DEF Needs
    <3>4. Needs(w)' => ~Bypasses(rule'[w].forms, rule'[w].trigger)
      BY <3>2 DEF Needs
    <3>5. rule'[w].forms \subseteq Forms
      BY <3>2 DEF EditLocals
    <3> QED
      BY <1>1, <1>2, <1>4, <3>3, <3>4, <3>5, DatesJoin
  <2> QED
    BY <2>1, <2>2
<1>7. ASSUME NEW v \in Visits PROVE PageTrue(v)' /\ AnswerKept(v)' /\ CopyKept(v)'
  BY <1>0, <1>1, <1>2, PageStays, EditOver
<1> QED
  BY <1>4, <1>5, <1>6, <1>7 DEF FormsInv

LEMMA StepSetActive == ASSUME FormsInv, NEW e \in Editors, SetActive(e) PROVE FormsInv'
<1>1. PICK w \in Rules :
        /\ rule[w].is = "row" /\ requests' = requests + 1
        /\ rule' = [rule EXCEPT ![w].active = ~rule[w].active]
        /\ bypassed' = IF ~rule[w].active /\ Bypasses(rule[w].forms, rule[w].trigger)
                          THEN bypassed \cup {w} ELSE bypassed
        /\ UNCHANGED <<form, field, ed, visit, regAns, respAns, fired, drift>>
  BY DEF SetActive, ScopedRules
<1>2. /\ rule' \in [Rules -> ScopedRule] /\ \A o \in Rules \ {w} : rule'[o] = rule[o]
      /\ rule'[w].is = "row" /\ rule'[w].forms = rule[w].forms /\ rule'[w].trigger = rule[w].trigger
      /\ rule'[w].active => ~rule[w].active
  <2> DEFINE c == [rule[w] EXCEPT !.active = ~rule[w].active]
  <2>1. rule' = [rule EXCEPT ![w] = c] /\ rule \in [Rules -> ScopedRule]
    BY <1>1, FormsTypes
  <2>2. /\ c \in ScopedRule /\ c.is = "row" /\ c.forms = rule[w].forms /\ c.trigger = rule[w].trigger
        /\ c.active => ~rule[w].active
    BY <1>1, <2>1 DEF ScopedRule
  <2> HIDE DEF c
  <2> QED
    BY <2>1, <2>2
<1>3. FormsTyped'
  <2>1. requests' \in Nat /\ bypassed' \subseteq Rules
    BY <1>1, FormsTypes
  <2> QED
    BY <1>1, <1>2, <2>1, FormsTypes DEF FormsTyped
<1>4. FormRows' = FormRows /\ \A x \in Fields : Spared(x) => Spared(x)'
  BY <1>1 DEF FormRows, Spared
<1>5. RowsStand'
  BY <1>1, <1>2, <1>4 DEF FormsInv, RowsStand
<1>6. DatesKept'
  <2>1. \A o \in Rules \ {w} : Needs(o)' => Needs(o) /\ rule'[o].forms = rule[o].forms
    BY <1>1, <1>2 DEF Needs
  <2>2. Needs(w)' => ~Bypasses(rule'[w].forms, rule'[w].trigger)
    BY <1>1, <1>2 DEF Needs
  <2>3. rule'[w].forms \subseteq Forms
    BY <1>2, FormsTypes DEF ScopedRule
  <2> QED
    BY <1>1, <1>3, <1>4, <2>1, <2>2, <2>3, DatesJoin
<1>7. ASSUME NEW v \in Visits PROVE PageTrue(v)' /\ AnswerKept(v)' /\ CopyKept(v)'
  <2>1. PageTrue(v)'
    BY <1>1, PageStays
  <2>2. \A o \in Editors : (Merging(o, v) <=> Merging(o, v)') /\ ed'[o] = ed[o]
    BY <1>1 DEF Merging
  <2> QED
    BY <1>1, <1>4, <2>1, <2>2, AnswersStay
<1> QED
  BY <1>3, <1>5, <1>6, <1>7 DEF FormsInv

-----------------------------------------------------------------------------
(* Those who answer, and the edits of their answers. *)

\* What changes neither a form, nor a field, nor a rule, nor which fields are being removed.
LEMMA DeskAside ==
  ASSUME FormsInv, FormsTyped', UNCHANGED <<form, field, rule, bypassed>>,
         \A e \in Editors : /\ ed'[e].at = "field" => ed'[e] = ed[e]
                            /\ ed'[e].at = "drop" => ed'[e] = ed[e]
                            /\ ed'[e].at \in {"answers", "merge"} => visit'[ed'[e].visit].is = "sent",
         \A v \in Visits : visit'[v].is # "closed" => visit'[v].form \in Forms
  PROVE  RowsStand' /\ DatesKept'
<1>1. RowsStand'
  BY DEF FormsInv, RowsStand, FormRows
<1>2. DatesKept'
  <2>1. \A f : DateFields(f)' = DateFields(f)
    BY DEF DateFields, FieldsOf
  <2>2. \A w \in Rules : Needs(w)' => Needs(w) /\ rule'[w].forms \subseteq rule[w].forms
    BY DEF Needs
  <2>3. \A x \in Fields : Spared(x) => Spared(x)'
    BY DEF Spared
  <2> QED
    BY <2>1, <2>2, <2>3, DatesStay DEF FormsInv
<1> QED
  BY <1>1, <1>2

LEMMA StepOpenPage == ASSUME FormsInv, NEW v \in Visits, OpenPage(v) PROVE FormsInv'
<1>1. PICK f \in FormRows :
        /\ visit[v].is = "closed"
        /\ visit' = [visit EXCEPT ![v] = [NoPage EXCEPT !.is = "open", !.form = f,
             !.page = [x \in Fields |-> IF x \in FieldsOf(f) THEN field[x].label ELSE None]]]
        /\ UNCHANGED <<form, field, rule, ed, regAns, respAns, fired, requests, bypassed, drift>>
  BY DEF OpenPage
<1>2. PICK p \in Page : /\ p.is = "open" /\ p.form = f
                        /\ p.page = [x \in Fields |-> IF x \in FieldsOf(f) THEN field[x].label ELSE None]
                        /\ visit' = [visit EXCEPT ![v] = p]
  <2> DEFINE g == [x \in Fields |-> IF x \in FieldsOf(f) THEN field[x].label ELSE None]
             p == [NoPage EXCEPT !.is = "open", !.form = f, !.page = g]
  <2>1. g \in [Fields -> Labels \cup {None}]
    BY FormsTypes DEF Field
  <2>2. visit' = [visit EXCEPT ![v] = p]
    BY <1>1
  <2> HIDE DEF g
  <2>3. p \in Page /\ p.is = "open" /\ p.form = f /\ p.page = g
    BY <2>1, PlainForms DEF Page, FormRows
  <2> HIDE DEF p
  <2> QED
    BY <2>2, <2>3 DEF g
<1>3. visit'[v] = p /\ \A u \in Visits \ {v} : visit'[u] = visit[u]
  BY <1>2, FormsTypes
<1>4. FormsTyped'
  BY <1>1, <1>2, FormsTypes DEF FormsTyped
<1>5. RowsStand' /\ DatesKept'
  <2>1. \A e \in Editors : ed'[e].at \in {"answers", "merge"} => visit'[ed'[e].visit].is = "sent"
    BY <1>1, <1>3, FormsTypes DEF FormsInv, RowsStand, Prepared
  <2>2. \A u \in Visits : visit'[u].is # "closed" => visit'[u].form \in Forms
    BY <1>2, <1>3 DEF FormsInv, RowsStand, FormRows
  <2> QED
    BY <1>1, <1>4, <2>1, <2>2, DeskAside
<1>6. ASSUME NEW u \in Visits PROVE PageTrue(u)' /\ AnswerKept(u)' /\ CopyKept(u)'
  <2>1. FormRows' = FormRows /\ \A o \in Editors : Merging(o, u)' <=> Merging(o, u)
    BY <1>1 DEF FormRows, Merging
  <2>2. CASE u = v
    <3>1. CopyKept(u)
      BY DEF FormsInv
    <3>2. CopyKept(u)'
      BY <1>1, <1>2, <1>3, <2>1, <2>2, <3>1 DEF CopyKept
    <3>3. AnswerKept(u)'
      BY <1>2, <1>3, <2>2 DEF AnswerKept
    <3>4. PageTrue(u)'
      BY <1>1, <1>2, <1>3, <2>2 DEF PageTrue, FieldsOf
    <3> QED
      BY <3>2, <3>3, <3>4
  <2>3. CASE u # v
    <3>1. visit'[u] = visit[u]
      BY <1>3, <2>3
    <3> QED
      BY <1>1, <2>1, <3>1, PageStays, AnswersStay
  <2> QED
    BY <2>2, <2>3
<1> QED
  BY <1>4, <1>5, <1>6 DEF FormsInv

\* What is stored when a page is sent: each required answer, and, if the page shows the form
\* as it is, each answer under its own field but for fields that share a label.
PageSent(p, ans, sent, need) ==
  /\ ans \subseteq Fields /\ \A x \in ans : p.page[x] # None
  /\ sent \in Lookups(p.page, ans)
  /\ need \subseteq FieldsOf(p.form) /\ \A x \in need : field[x].label \in DOMAIN sent

LEMMA StoredReaches ==
  ASSUME FormsInv, NEW v \in Visits, NEW p, p = visit[v], p.is = "open",
         NEW ans, NEW sent, NEW need, PageSent(p, ans, sent, need),
         NEW m, m = Mapped(p.form, sent)
  PROVE  m \in AnswerMap /\ Arrived(p, ans, need, m)
<1> DEFINE pg == p.page
           f == p.form
<1>0. ans \subseteq Fields /\ need \subseteq FieldsOf(f) /\ \A x \in need : field[x].label \in DOMAIN sent
  BY DEF PageSent
<1>1. /\ sent \in [{pg[x] : x \in ans} -> ans] /\ \A l \in DOMAIN sent : pg[sent[l]] = l
  BY DEF PageSent, Lookups
<1>2. \A x \in Fields : m[x] = IF x \in FieldsOf(f) /\ field[x].label \in DOMAIN sent THEN sent[field[x].label] ELSE None
  BY DEF Mapped
<1>3. \A l \in DOMAIN sent : sent[l] \in ans
  BY <1>1
<1>4. m \in AnswerMap
  <2>1. \A x \in Fields : m[x] \in Values
    BY <1>0, <1>2, <1>3 DEF Values
  <2>2. m = [x \in Fields |-> m[x]]
    BY DEF Mapped
  <2> QED
    BY <2>1, <2>2 DEF AnswerMap
<1>5. None \notin Fields /\ need \subseteq Fields
  BY <1>0, FormsAssumption DEF FieldsOf
<1>6. \A x \in need : m[x] # None
  BY <1>0, <1>2, <1>3, <1>5
<1>7. \A x \in ans : pg[x] # None
  BY DEF PageSent
<1>8. ASSUME ~p.changed, NEW x \in Fields
      PROVE  \/ m[x] = IF x \in ans THEN x ELSE None
             \/ \E y \in ans \ {x} : pg[y] = pg[x]
  <2>1. \A y \in Fields : pg[y] = IF y \in FieldsOf(f) THEN field[y].label ELSE None
    BY <1>8 DEF FormsInv, PageTrue
  <2>2. CASE x \in ans
    <3>1. x \in FieldsOf(f) /\ field[x].label = pg[x] /\ pg[x] \in DOMAIN sent
      BY <1>0, <1>1, <2>1, <2>2, <1>7
    <3>2. m[x] = sent[pg[x]] /\ sent[pg[x]] \in ans /\ pg[sent[pg[x]]] = pg[x]
      BY <1>1, <1>2, <1>3, <3>1
    <3> HIDE DEF pg
    <3> QED
      BY <2>2, <3>2
  <2>3. CASE x \notin ans
    <3>1. CASE x \in FieldsOf(f) /\ field[x].label \in DOMAIN sent
      <4>1. field[x].label = pg[x] /\ pg[sent[pg[x]]] = pg[x] /\ sent[pg[x]] \in ans
        BY <1>1, <1>3, <2>1, <3>1
      <4> HIDE DEF pg
      <4> QED
        BY <2>3, <4>1
    <3>2. CASE ~(x \in FieldsOf(f) /\ field[x].label \in DOMAIN sent)
      <4>1. m[x] = None
        BY <1>2, <3>2
      <4> HIDE DEF pg
      <4> QED
        BY <2>3, <4>1
    <3> QED
      BY <3>1, <3>2
  <2> QED
    BY <2>2, <2>3
<1> QED
  BY <1>4, <1>6, <1>8 DEF Arrived

LEMMA StepSubmitPage == ASSUME FormsInv, NEW v \in Visits, SubmitPage(v) PROVE FormsInv'
<1>0. PICK p \in Page : p = visit[v]
  BY FormsTypes
<1>1. PICK ans \in SUBSET {x \in Fields : p.page[x] # None}, by \in {"label", "id"} :
      \E sent \in Lookups(p.page, ans) :
        /\ p.is = "open" /\ p.form \in FormRows
        /\ \A x \in {y \in FieldsOf(p.form) : field[y].required} : Resolves(x, by, ans, sent)
        /\ LET stored == IF by = "id" THEN [x \in Fields |-> None] ELSE Mapped(p.form, sent) IN
           /\ regAns' = [regAns EXCEPT ![v] = stored]
           /\ respAns' = [respAns EXCEPT ![v] = stored]
        /\ visit' = [visit EXCEPT ![v] = [p EXCEPT !.is = "sent", !.answered = ans, !.by = by,
                                              !.required = {y \in FieldsOf(p.form) : field[y].required}]]
        /\ fired' = fired \cup Fires(p.form)
        /\ UNCHANGED <<form, field, rule, ed, requests, bypassed, drift>>
  BY <1>0 DEF SubmitPage
<1>20. PICK sent \in Lookups(p.page, ans) :
        \E stored :
            /\ p.is = "open" /\ p.form \in FormRows
            /\ \A x \in {y \in FieldsOf(p.form) : field[y].required} : Resolves(x, by, ans, sent)
            /\ stored = IF by = "id" THEN [x \in Fields |-> None] ELSE Mapped(p.form, sent)
            /\ regAns' = [regAns EXCEPT ![v] = stored]
            /\ respAns' = [respAns EXCEPT ![v] = stored]
            /\ visit' = [visit EXCEPT ![v] = [p EXCEPT !.is = "sent", !.answered = ans, !.by = by,
                                                  !.required = {y \in FieldsOf(p.form) : field[y].required}]]
            /\ fired' = fired \cup Fires(p.form)
            /\ UNCHANGED <<form, field, rule, ed, requests, bypassed, drift>>
  BY <1>1
<1>2. PICK stored :
        /\ p.is = "open" /\ p.form \in FormRows
        /\ \A x \in {y \in FieldsOf(p.form) : field[y].required} : Resolves(x, by, ans, sent)
        /\ stored = IF by = "id" THEN [x \in Fields |-> None] ELSE Mapped(p.form, sent)
        /\ regAns' = [regAns EXCEPT ![v] = stored]
        /\ respAns' = [respAns EXCEPT ![v] = stored]
        /\ visit' = [visit EXCEPT ![v] = [p EXCEPT !.is = "sent", !.answered = ans, !.by = by,
                                              !.required = {y \in FieldsOf(p.form) : field[y].required}]]
        /\ fired' = fired \cup Fires(p.form)
        /\ UNCHANGED <<form, field, rule, ed, requests, bypassed, drift>>
  BY <1>20
<1>3. PICK need \in SUBSET FieldsOf(p.form) : need = {y \in FieldsOf(p.form) : field[y].required}
  OBVIOUS
<1>4. need \subseteq Fields /\ ans \subseteq Fields
  BY DEF FieldsOf
<1>5. PICK s \in Page : /\ s.is = "sent" /\ s.form = p.form /\ s.page = p.page /\ s.answered = ans
                        /\ s.by = by /\ s.required = need /\ s.changed = p.changed
                        /\ visit' = [visit EXCEPT ![v] = s]
  <2> DEFINE s == [p EXCEPT !.is = "sent", !.answered = ans, !.by = by, !.required = need]
  <2>1. visit' = [visit EXCEPT ![v] = s]
    BY <1>2, <1>3
  <2>2. /\ s \in Page /\ s.is = "sent" /\ s.form = p.form /\ s.page = p.page /\ s.answered = ans
        /\ s.by = by /\ s.required = need /\ s.changed = p.changed
    BY <1>4 DEF Page
  <2> HIDE DEF s
  <2> QED
    BY <2>1, <2>2
<1>6. by = "label" => stored \in AnswerMap /\ Reached(s, stored)
  <2> SUFFICES ASSUME by = "label" PROVE stored \in AnswerMap /\ Reached(s, stored)
    OBVIOUS
  <2>1. \A x \in need : field[x].label \in DOMAIN sent
    BY <1>2, <1>3 DEF Resolves
  <2>2. stored = Mapped(p.form, sent)
    BY <1>2
  <2>3. stored \in AnswerMap /\ Arrived(p, ans, need, stored)
    <3>1. ans \subseteq Fields /\ \A y \in ans : p.page[y] # None
      OBVIOUS
    <3>2. p = visit[v] /\ p.is = "open"
      BY <1>0, <1>2
    <3>3. PageSent(p, ans, sent, need)
      BY <2>1, <3>1 DEF PageSent
    <3> QED
      BY <2>2, <3>2, <3>3, StoredReaches
  <2> QED
    BY <1>5, <2>3 DEF Reached, Arrived
<1>7. stored \in AnswerMap
  BY <1>2, <1>6, PlainForms
<1>8. /\ visit'[v] = s /\ regAns'[v] = stored /\ respAns'[v] = stored
      /\ \A u \in Visits \ {v} : visit'[u] = visit[u] /\ regAns'[u] = regAns[u] /\ respAns'[u] = respAns[u]
  BY <1>2, <1>5, FormsTypes
<1>9. FormsTyped'
  <2>1. fired' \subseteq Rules \X Forms
    BY <1>2, FormsTypes DEF Fires, ScopedRules, FormRows
  <2> QED
    BY <1>2, <1>5, <1>7, <2>1, FormsTypes DEF FormsTyped
<1>10. \A e \in Editors : ed[e].at \in {"answers", "merge"} => ed[e].visit \in Visits \ {v}
  BY <1>0, <1>2, FormsTypes DEF FormsInv, RowsStand, Prepared
<1>11. RowsStand' /\ DatesKept'
  <2>1. \A e \in Editors : ed'[e].at \in {"answers", "merge"} => visit'[ed'[e].visit].is = "sent"
    BY <1>2, <1>8, <1>10 DEF FormsInv, RowsStand
  <2>2. \A u \in Visits : visit'[u].is # "closed" => visit'[u].form \in Forms
    BY <1>2, <1>5, <1>8 DEF FormsInv, RowsStand, FormRows
  <2> QED
    BY <1>2, <1>9, <2>1, <2>2, DeskAside
<1>12. ASSUME NEW u \in Visits PROVE PageTrue(u)' /\ AnswerKept(u)' /\ CopyKept(u)'
  <2>1. FormRows' = FormRows /\ \A o \in Editors : Merging(o, u)' <=> Merging(o, u)
    BY <1>2 DEF FormRows, Merging
  <2>2. CASE u = v
    <3>1. CopyKept(u)'
      <4>1. \A o \in Editors : ~(ed'[o].at \in {"answers", "merge"} /\ ed'[o].visit = v)
        BY <1>2, <1>10
      <4> QED
        BY <1>2, <1>5, <1>8, <2>1, <2>2, <4>1 DEF CopyKept, Merging
    <3>2. AnswerKept(u)'
      BY <1>5, <1>6, <1>8, <2>2 DEF AnswerKept
    <3>3. PageTrue(u)'
      BY <1>5, <1>8, <2>2 DEF PageTrue
    <3> QED
      BY <3>1, <3>2, <3>3
  <2>3. CASE u # v
    <3>1. visit'[u] = visit[u] /\ regAns'[u] = regAns[u] /\ respAns'[u] = respAns[u]
      BY <1>8, <2>3
    <3> QED
      BY <1>2, <2>1, <3>1, PageStays, AnswersStay
  <2> QED
    BY <2>2, <2>3
<1> QED
  BY <1>9, <1>11, <1>12 DEF FormsInv

LEMMA StepWriteAnswers == ASSUME FormsInv, NEW e \in Editors, WriteAnswers(e) PROVE FormsInv'
<1>0. PICK r \in EditLocals : r = ed[e] /\ r.at = "answers" /\ r.visit \in Visits /\ r.field \in Fields
  BY FormsTypes DEF WriteAnswers, Prepared
<1>1. PICK v \in Visits, x \in Fields : v = r.visit /\ x = r.field
  BY <1>0
<1>2. /\ regAns' = [regAns EXCEPT ![v] = [r.read EXCEPT ![x] = e]]
      /\ drift' = IF Editing(v) = {e} THEN drift ELSE drift \cup {v}
      /\ ed' = [ed EXCEPT ![e].at = "merge"]
      /\ UNCHANGED <<form, field, rule, visit, respAns, fired, requests, bypassed>>
  BY <1>0, <1>1 DEF WriteAnswers
<1>3. PICK w \in AnswerMap : w = [r.read EXCEPT ![x] = e] /\ w[x] = e
  <2>1. r.read \in AnswerMap
    BY DEF EditLocals
  <2>2. e \in Values
    BY DEF Values
  <2> DEFINE w == [r.read EXCEPT ![x] = e]
  <2>3. w \in AnswerMap /\ w[x] = e
    BY <2>1, <2>2 DEF AnswerMap
  <2> HIDE DEF w
  <2> QED
    BY <2>3 DEF w
<1>4. PICK d \in EditLocals : /\ d.at = "merge" /\ d.visit = v /\ d.field = x /\ Prepared(d)
                        /\ ed' = [ed EXCEPT ![e] = d]
  <2> DEFINE d == [r EXCEPT !.at = "merge"]
  <2>1. ed' = [ed EXCEPT ![e] = d]
    BY <1>0, <1>2
  <2>2. d \in EditLocals /\ d.at = "merge" /\ d.visit = v /\ d.field = x
    BY <1>1 DEF EditLocals
  <2> HIDE DEF d
  <2>3. Prepared(d)
    BY <2>2 DEF Prepared
  <2> QED
    BY <2>1, <2>2, <2>3
<1>5. /\ ed'[e] = d /\ \A o \in Editors \ {e} : ed'[o] = ed[o]
      /\ regAns'[v] = w /\ \A u \in Visits \ {v} : regAns'[u] = regAns[u]
  BY <1>2, <1>3, <1>4, FormsTypes
<1>6. FormsTyped'
  <2>1. drift' \subseteq Visits
    BY <1>2, FormsTypes
  <2>2. \A o \in Editors : Prepared(ed'[o])
    BY <1>4, <1>5, FormsTypes
  <2> QED
    BY <1>2, <1>3, <1>4, <2>1, <2>2, FormsTypes DEF FormsTyped
<1>7. visit[v].is = "sent"
  BY <1>0, <1>1 DEF FormsInv, RowsStand
<1>8. RowsStand' /\ DatesKept'
  <2>1. \A o \in Editors : ed'[o].at \in {"answers", "merge"} => visit'[ed'[o].visit].is = "sent"
    BY <1>2, <1>4, <1>5, <1>7, ZenonT(40) DEF FormsInv, RowsStand
  <2>2. \A u \in Visits : visit'[u].is # "closed" => visit'[u].form \in Forms
    BY <1>2 DEF FormsInv, RowsStand
  <2>3. \A o \in Editors : ed'[o].at \in {"field", "drop"} => ed'[o] = ed[o]
    BY <1>4, <1>5
  <2> QED
    BY <1>2, <1>6, <2>1, <2>2, <2>3, DeskAside
<1>9. ASSUME NEW u \in Visits PROVE PageTrue(u)' /\ AnswerKept(u)' /\ CopyKept(u)'
  <2>1. PageTrue(u)'
    BY <1>2, PageStays
  <2>2. CASE u = v
    <3>1. AnswerKept(u)'
      BY <1>3, <1>5, <2>2 DEF AnswerKept, Untouched
    <3>2. CopyKept(u)'
      <4> SUFFICES ASSUME v \notin drift' PROVE CopyKept(u)'
        BY <2>2 DEF CopyKept
      <4>1. v \notin drift /\ Editing(v) = {e}
        BY <1>2
      <4>2. \A o \in Editors \ {e} : ed[o].visit # v
        BY <4>1 DEF Editing
      <4>3. CopyKept(v)
        BY DEF FormsInv
      <4>4. r.read = regAns[v] /\ regAns[v] = respAns[v] /\ visit[v].form \in FormRows
        BY <1>0, <1>1, <1>7, <4>1, <4>2, <4>3 DEF CopyKept, Merging
      <4>5. \A o \in Editors : Merging(o, v)' <=> o = e
        BY <1>4, <1>5, <4>2 DEF Merging
      <4>6. \A o \in Editors : ~(ed'[o].at = "answers" /\ ed'[o].visit = v)
        BY <1>4, <1>5, <4>2
      <4>7. regAns'[v] = [respAns'[v] EXCEPT ![ed'[e].field] = e]
        BY <1>2, <1>3, <1>4, <1>5, <4>4
      <4>8. visit'[v].form \in FormRows'
        BY <1>2, <4>4 DEF FormRows
      <4> QED
        BY <2>2, <4>5, <4>6, <4>7, <4>8 DEF CopyKept
    <3> QED
      BY <2>1, <3>1, <3>2
  <2>3. CASE u # v
    <3>1. FormRows' = FormRows /\ visit'[u] = visit[u] /\ respAns'[u] = respAns[u] /\ regAns'[u] = regAns[u]
      BY <1>2, <1>5, <2>3 DEF FormRows
    <3>2. /\ \A o \in Editors : Merging(o, u) <=> Merging(o, u)'
          /\ \A o \in Editors : Merging(o, u) => ed'[o].field = ed[o].field
      BY <1>0, <1>1, <1>4, <1>5, <2>3 DEF Merging
    <3>3. \A o \in Editors : ed'[o].at = "answers" /\ ed'[o].visit = u => ed'[o].read = regAns[u] \/ ed'[o] = ed[o]
      BY <1>4, <1>5
    <3>4. u \in drift => u \in drift'
      BY <1>2
    <3> QED
      BY <2>1, <3>1, <3>2, <3>3, <3>4, AnswersStay
  <2> QED
    BY <2>2, <2>3
<1> QED
  BY <1>6, <1>8, <1>9 DEF FormsInv

LEMMA StepMergeAnswers == ASSUME FormsInv, NEW e \in Editors, MergeAnswers(e) PROVE FormsInv'
<1>0. PICK r \in EditLocals : r = ed[e] /\ r.at = "merge" /\ r.visit \in Visits /\ r.field \in Fields /\ Ends(e)
  BY FormsTypes DEF MergeAnswers, Prepared
<1>1. PICK v \in Visits, x \in Fields : v = r.visit /\ x = r.field
  BY <1>0
<1>2. /\ respAns' = IF visit[v].form \in FormRows
                    THEN [respAns EXCEPT ![v] = [respAns[v] EXCEPT ![x] = e]] ELSE respAns
      /\ drift' = IF Editing(v) = {e} THEN drift ELSE drift \cup {v}
      /\ UNCHANGED <<form, field, rule, visit, regAns, fired, requests, bypassed>>
  BY <1>0, <1>1 DEF MergeAnswers, MergedIn
<1>3. [respAns[v] EXCEPT ![x] = e] \in AnswerMap
  BY FormsTypes DEF AnswerMap, Values
<1>4. FormsTyped'
  <2>1. drift' \subseteq Visits /\ respAns' \in [Visits -> AnswerMap]
    BY <1>2, <1>3, FormsTypes
  <2> QED
    BY <1>0, <1>2, <2>1, EditEnds, FormsTypes DEF FormsTyped
<1>5. ed'[e].at = "idle" /\ \A o \in Editors \ {e} : ed'[o] = ed[o]
  BY <1>0, EditEnds
<1>6. RowsStand' /\ DatesKept'
  <2>1. /\ \A o \in Editors : ed'[o].at \in {"answers", "merge"} => visit'[ed'[o].visit].is = "sent"
        /\ \A u \in Visits : visit'[u].is # "closed" => visit'[u].form \in Forms
        /\ \A o \in Editors : ed'[o].at \in {"field", "drop"} => ed'[o] = ed[o]
    BY <1>2, <1>5 DEF FormsInv, RowsStand
  <2> QED
    BY <1>2, <1>4, <2>1, DeskAside
<1>7. ASSUME NEW u \in Visits PROVE PageTrue(u)' /\ AnswerKept(u)' /\ CopyKept(u)'
  <2>1. PageTrue(u)'
    BY <1>2, PageStays
  <2>2. CASE u = v
    <3>1. AnswerKept(u)'
      BY <1>2 DEF FormsInv, AnswerKept, Untouched
    <3>2. CopyKept(u)'
      <4> SUFFICES ASSUME v \notin drift' PROVE CopyKept(u)'
        BY <2>2 DEF CopyKept
      <4>1. v \notin drift /\ \A o \in Editors \ {e} : ed[o].visit # v
        BY <1>2 DEF Editing
      <4>2. CopyKept(v) /\ visit[v].is = "sent" /\ Merging(e, v)
        BY <1>0, <1>1 DEF FormsInv, RowsStand, Merging
      <4>3. visit[v].form \in FormRows /\ regAns[v] = [respAns[v] EXCEPT ![x] = e]
        BY <1>0, <1>1, <4>1, <4>2 DEF CopyKept
      <4>4. respAns'[v] = regAns'[v]
        BY <1>2, <4>3, FormsTypes
      <4>5. \A o \in Editors : ~Merging(o, v)' /\ ~(ed'[o].at = "answers" /\ ed'[o].visit = v)
        BY <1>5, <4>1 DEF Merging
      <4>6. visit'[v].form \in FormRows'
        BY <1>2, <4>3 DEF FormRows
      <4> QED
        BY <2>2, <4>4, <4>5, <4>6 DEF CopyKept
    <3> QED
      BY <2>1, <3>1, <3>2
  <2>3. CASE u # v
    <3>1. FormRows' = FormRows /\ visit'[u] = visit[u] /\ respAns'[u] = respAns[u] /\ regAns'[u] = regAns[u]
      BY <1>2, <2>3, FormsTypes DEF FormRows
    <3>2. /\ \A o \in Editors : Merging(o, u) <=> Merging(o, u)'
          /\ \A o \in Editors : Merging(o, u) => ed'[o].field = ed[o].field
      BY <1>0, <1>1, <1>5, <2>3 DEF Merging
    <3>3. \A o \in Editors : ed'[o].at = "answers" /\ ed'[o].visit = u => ed'[o].read = regAns[u] \/ ed'[o] = ed[o]
      BY <1>5
    <3>4. u \in drift => u \in drift'
      BY <1>2
    <3> QED
      BY <2>1, <3>1, <3>2, <3>3, <3>4, AnswersStay
  <2> QED
    BY <2>2, <2>3
<1> QED
  BY <1>4, <1>6, <1>7 DEF FormsInv

LEMMA StepFails == ASSUME FormsInv, NEW e \in Editors, Fails(e) PROVE FormsInv'
<1>1. /\ Ends(e) /\ UNCHANGED <<form, field, rule, visit, regAns, respAns, fired, requests, bypassed>>
      /\ drift' = IF ed[e].at = "merge" THEN drift \cup {ed[e].visit} ELSE drift
  BY DEF Fails
<1>2. ed'[e].at = "idle" /\ \A o \in Editors \ {e} : ed'[o] = ed[o]
  BY <1>1, EditEnds
<1>3. FormsTyped'
  <2>1. drift' \subseteq Visits
    BY <1>1, FormsTypes DEF Prepared
  <2> QED
    BY <1>1, <2>1, EditEnds, FormsTypes DEF FormsTyped
<1>4. RowsStand' /\ DatesKept'
  <2>1. /\ \A o \in Editors : ed'[o].at \in {"answers", "merge"} => visit'[ed'[o].visit].is = "sent"
        /\ \A u \in Visits : visit'[u].is # "closed" => visit'[u].form \in Forms
        /\ \A o \in Editors : ed'[o].at \in {"field", "drop"} => ed'[o] = ed[o]
    BY <1>1, <1>2 DEF FormsInv, RowsStand
  <2> QED
    BY <1>1, <1>3, <2>1, DeskAside
<1>5. ASSUME NEW u \in Visits PROVE PageTrue(u)' /\ AnswerKept(u)' /\ CopyKept(u)'
  <2>1. PageTrue(u)'
    BY <1>1, PageStays
  <2>2. u \notin drift' =>
          /\ \A o \in Editors : Merging(o, u) <=> Merging(o, u)'
          /\ \A o \in Editors : Merging(o, u) => ed'[o].field = ed[o].field
    BY <1>1, <1>2 DEF Merging
  <2>3. \A o \in Editors : ed'[o].at = "answers" /\ ed'[o].visit = u => ed'[o].read = regAns[u] \/ ed'[o] = ed[o]
    BY <1>2
  <2>4. FormRows' = FormRows /\ (u \in drift => u \in drift')
    BY <1>1 DEF FormRows
  <2> QED
    BY <1>1, <2>1, <2>2, <2>3, <2>4, AnswersStay
<1> QED
  BY <1>3, <1>4, <1>5 DEF FormsInv

LEMMA StepForms == FormsInv /\ [NextForms]_formVars => FormsInv'
<1> SUFFICES ASSUME FormsInv, [NextForms]_formVars PROVE FormsInv'
  OBVIOUS
<1>1. CASE UNCHANGED formVars
  BY <1>1 DEF formVars, FormsInv, FormsTyped, RowsStand, FormRows, DatesKept, Needs, Spared, DateFields,
              FieldsOf, PageTrue, AnswerKept, Untouched, CopyKept, Merging
<1>2. ASSUME NEW e \in Editors,
         \/ StartForm(e) \/ StartRename(e) \/ WriteForm(e) \/ DeleteForm(e)
         \/ StartField(e) \/ StartFieldUpdate(e) \/ WriteField(e)
         \/ StartFieldDelete(e) \/ DropField(e)
         \/ StartRule(e) \/ InsertRule(e) \/ SetActive(e)
         \/ StartAnswers(e) \/ WriteAnswers(e) \/ MergeAnswers(e) \/ Fails(e)
      PROVE  FormsInv'
  BY <1>2, StepStarts, StepWriteForm, StepDeleteForm, StepWriteField, StepDropField, StepInsertRule,
     StepSetActive, StepWriteAnswers, StepMergeAnswers, StepFails
<1>3. ASSUME NEW v \in Visits, OpenPage(v) \/ SubmitPage(v) PROVE FormsInv'
  BY <1>3, StepOpenPage, StepSubmitPage
<1> QED
  BY <1>1, <1>2, <1>3 DEF NextForms

LEMMA FormsAlways == SpecForms => []FormsInv
BY InitFormsInv, StepForms, PTL DEF SpecForms

\* Every variable of the forms keeps its type, and no rule is scoped to a form that is gone.
THEOREM FormsTypeCorrect == SpecForms => []TypeOKForms
<1>1. FormsInv => TypeOKForms
  BY DEF FormsInv, FormsTyped, RowsStand, TypeOKForms, Form, Field, ScopedRule, AnswerMap, ScopedRules
<1> QED
  BY <1>1, FormsAlways, PTL

\* What is answered under a label is stored under the field that had it (answer-validation.ts,
\* mapAnswersToFieldIds), whatever the staff do to the form while the page is open.
THEOREM AnswersArrive == SpecForms => []AnswersReachTheirField
<1>1. FormsInv => AnswersReachTheirField
  BY DEF FormsInv, AnswerKept, Reached, Arrived, AnswersReachTheirField
<1> QED
  BY <1>1, FormsAlways, PTL

\* The guard of the deletion of a field (form-field.service.ts, delete) keeps the field that
\* an active date rule reads, whatever happens between its check and its write.
THEOREM DateFieldStays == SpecForms => []DateRuleHasItsField
<1>1. FormsInv => DateRuleHasItsField
  BY DEF FormsInv, DatesKept, Needs, DateRuleHasItsField, ScopedRules
<1> QED
  BY <1>1, FormsAlways, PTL

\* The two copies of the answers that updateAnswers writes one after the other are the same
\* but while, or after, two requests overlapped or one was cut short.
THEOREM CopiesStayEqual == SpecForms => []CopiesAgree
<1>1. FormsInv => CopiesAgree
  BY DEF FormsInv, CopyKept, Merging, CopiesAgree
<1> QED
  BY <1>1, FormsAlways, PTL

-----------------------------------------------------------------------------
(* The check-in at the door: CheckIn. *)

Guest == [is : {"free", "row", "gone"}, phone : Numbers \cup {None}, event : Nights \cup {None},
          attended : BOOLEAN]
Door == [at : {"idle", "mark"}, phone : Numbers \cup {None}, mine : SUBSET Guests,
         event : Nights \cup {None}, quiet : BOOLEAN]

DoorTyped ==
  /\ guest \in [Guests -> Guest] /\ night \in [Nights -> Instants \cup {None}] /\ clock \in Instants
  /\ door \in [Doors -> Door] /\ doorCalls \in 0 .. MaxDoorCalls
  /\ \A g \in Seats : guest[g].phone \in Numbers /\ guest[g].event \in Nights

\* What a check-in that nothing disturbed is about to mark is what it would find now.
FoundBy(r, g) ==
  /\ g \in pickClosestToToday(Matches(r.phone)) /\ r.event = guest[g].event
  /\ r.mine = {o \in Matches(r.phone) : guest[o].event = r.event}
Undisturbed(r) == r.at = "mark" /\ r.quiet => r.phone \in Numbers /\ \E g \in Guests : FoundBy(r, g)

DoorInv == DoorTyped /\ \A d \in Doors : Undisturbed(door[d])

-----------------------------------------------------------------------------
LEMMA PlainDoor == NoDoor \in Door /\ NoDoor.at = "idle" /\ Nobody \in Guest /\ Nobody.is = "free"
  BY DEF NoDoor, Door, Nobody, Guest

LEMMA InitDoorInv == InitDoor => DoorInv
<1> SUFFICES ASSUME InitDoor PROVE DoorInv
  OBVIOUS
<1>1. PICK x \in [Guests -> Numbers] : \E e \in [Guests -> Nights], S \in SUBSET Guests :
        guest = [g \in Guests |-> IF g \in S THEN [is |-> "row", phone |-> x[g], event |-> e[g], attended |-> FALSE]
                                  ELSE Nobody]
  BY DEF InitDoor
<1>2. PICK e \in [Guests -> Nights], S \in SUBSET Guests :
        guest = [g \in Guests |-> IF g \in S THEN [is |-> "row", phone |-> x[g], event |-> e[g], attended |-> FALSE]
                                  ELSE Nobody]
  BY <1>1
<1>3. guest \in [Guests -> Guest] /\ \A g \in Seats : guest[g].phone \in Numbers /\ guest[g].event \in Nights
  <2>1. ASSUME NEW g \in Guests
        PROVE  guest[g] \in Guest /\ (guest[g].is = "row" => guest[g].phone \in Numbers /\ guest[g].event \in Nights)
    <3>1. CASE g \in S
      <4>1. guest[g] = [is |-> "row", phone |-> x[g], event |-> e[g], attended |-> FALSE]
        BY <1>2, <3>1
      <4> QED
        BY <4>1 DEF Guest
    <3>2. CASE g \notin S
      BY <1>2, <3>2, PlainDoor
    <3> QED
      BY <3>1, <3>2
  <2>2. guest = [g \in Guests |-> guest[g]]
    BY <1>2
  <2> QED
    BY <2>1, <2>2 DEF Seats
<1>4. door \in [Doors -> Door] /\ \A d \in Doors : door[d].at = "idle"
  BY PlainDoor DEF InitDoor
<1>5. night \in [Nights -> Instants \cup {None}] /\ clock \in Instants /\ doorCalls \in 0 .. MaxDoorCalls
  BY DoorAssumption DEF InitDoor
<1> QED
  BY <1>3, <1>4, <1>5 DEF DoorInv, DoorTyped, Undisturbed

\* Whoever changes a row, a date or the time disturbs the check-ins under way.
LEMMA DoorsDisturbed ==
  ASSUME DoorInv, \A d \in Doors : door'[d] = NoDoor \/ door'[d] = Disturbed[d],
         door' = [d \in Doors |-> door'[d]],
         guest' \in [Guests -> Guest], night' \in [Nights -> Instants \cup {None}], clock' \in Instants,
         doorCalls' \in 0 .. MaxDoorCalls,
         \A g \in Guests : guest'[g].is = "row" => guest'[g].phone \in Numbers /\ guest'[g].event \in Nights
  PROVE  DoorInv'
<1>1. ASSUME NEW d \in Doors PROVE door'[d] \in Door /\ ~(door'[d].at = "mark" /\ door'[d].quiet)
  <2>1. CASE door'[d] = NoDoor
    BY <2>1, PlainDoor
  <2>2. CASE door'[d] = Disturbed[d]
    <3>1. door[d] \in Door
      BY DEF DoorInv, DoorTyped
    <3>2. door'[d] = [door[d] EXCEPT !.quiet = @ /\ door[d].at = "idle"]
      BY <2>2 DEF Disturbed
    <3>3. door'[d] \in Door /\ door'[d].at = door[d].at /\ (door'[d].quiet => door[d].at = "idle")
      BY <3>1, <3>2 DEF Door
    <3> QED
      BY <3>3
  <2> QED
    BY <2>1, <2>2
<1>2. door' \in [Doors -> Door]
  BY <1>1
<1> QED
  BY <1>1, <1>2 DEF DoorInv, DoorTyped, Undisturbed, Seats

LEMMA DoorTypes ==
  ASSUME DoorInv
  PROVE  /\ guest \in [Guests -> Guest] /\ night \in [Nights -> Instants \cup {None}] /\ clock \in Instants
         /\ door \in [Doors -> Door] /\ doorCalls \in 0 .. MaxDoorCalls
         /\ \A g \in Guests : guest[g].is = "row" => guest[g].phone \in Numbers /\ guest[g].event \in Nights
BY DEF DoorInv, DoorTyped, Seats

LEMMA CallsGrow == DoorInv /\ Requested => doorCalls' \in 0 .. MaxDoorCalls
  BY DoorTypes, DoorAssumption DEF Requested

LEMMA MarkingTyped ==
  ASSUME DoorInv, NEW ids, NEW e, NEW b \in BOOLEAN, setAttendance(ids, e, b)
  PROVE  /\ guest' \in [Guests -> Guest]
         /\ \A g \in Guests : guest'[g].is = "row" => guest'[g].phone \in Numbers /\ guest'[g].event \in Nights
<1>1. ASSUME NEW g \in Guests
      PROVE  /\ guest'[g] \in Guest
             /\ guest'[g].is = "row" => guest'[g].phone \in Numbers /\ guest'[g].event \in Nights
  <2>1. guest[g] \in Guest /\ (guest[g].is = "row" => guest[g].phone \in Numbers /\ guest[g].event \in Nights)
    BY DoorTypes
  <2>2. guest'[g] = guest[g] \/ guest'[g] = [guest[g] EXCEPT !.attended = b]
    BY DEF setAttendance
  <2> QED
    BY <2>1, <2>2 DEF Guest
<1>2. guest' = [g \in Guests |-> guest'[g]]
  BY DEF setAttendance
<1> QED
  BY <1>1, <1>2

LEMMA StepAtTheDoor == ASSUME DoorInv, NEW d \in Doors, AtTheDoor(d) PROVE DoorInv'
<1>1. PICK x \in Numbers : \E g \in pickClosestToToday(Matches(x)) :
        /\ Requested /\ UNCHANGED <<guest, night, clock>>
        /\ door' = [door EXCEPT ![d] =
             [NoDoor EXCEPT !.at = "mark", !.phone = x, !.event = guest[g].event,
                            !.mine = {o \in Matches(x) : guest[o].event = guest[g].event}]]
  BY DEF AtTheDoor
<1>2. PICK g \in pickClosestToToday(Matches(x)) :
        /\ Requested /\ UNCHANGED <<guest, night, clock>>
        /\ door' = [door EXCEPT ![d] =
             [NoDoor EXCEPT !.at = "mark", !.phone = x, !.event = guest[g].event,
                            !.mine = {o \in Matches(x) : guest[o].event = guest[g].event}]]
  BY <1>1
<1>3. g \in Guests /\ guest[g].event \in Nights /\ Matches(x) \subseteq Guests
  BY DoorTypes DEF pickClosestToToday, Matches, findByPhoneWithEventDate, Seats
<1>4. PICK r \in Door : /\ r.at = "mark" /\ r.phone = x /\ r.event = guest[g].event
                       /\ r.mine = {o \in Matches(x) : guest[o].event = guest[g].event}
                       /\ door' = [door EXCEPT ![d] = r]
  <2> DEFINE m == {o \in Matches(x) : guest[o].event = guest[g].event}
             r == [NoDoor EXCEPT !.at = "mark", !.phone = x, !.event = guest[g].event, !.mine = m]
  <2>1. m \subseteq Guests
    BY <1>3
  <2>2. door' = [door EXCEPT ![d] = r]
    BY <1>2
  <2> HIDE DEF m
  <2>3. r \in Door /\ r.at = "mark" /\ r.phone = x /\ r.event = guest[g].event /\ r.mine = m
    BY <1>3, <2>1, PlainDoor DEF Door
  <2> HIDE DEF r
  <2> QED
    BY <2>2, <2>3 DEF m
<1>5. DoorTyped'
  BY <1>2, <1>4, CallsGrow, DoorTypes DEF DoorTyped, Seats
<1>6. FoundBy(r, g)
  BY <1>4 DEF FoundBy
<1>7. ASSUME NEW o \in Doors PROVE Undisturbed(door[o])'
  <2>1. Undisturbed(door'[o])
    BY <1>3, <1>4, <1>6, DoorTypes DEF DoorInv, Undisturbed
  <2>2. PICK s : s = door'[o]
    OBVIOUS
  <2>3. \A p \in Guests : FoundBy(s, p)' <=> FoundBy(s, p)
    BY <1>2 DEF FoundBy, pickClosestToToday, Matches, findByPhoneWithEventDate, Seats, Nearer, NearerInstant
  <2> QED
    BY <2>1, <2>2, <2>3 DEF Undisturbed
<1> QED
  BY <1>5, <1>7 DEF DoorInv

LEMMA StepMarkPresent == ASSUME DoorInv, NEW d \in Doors, MarkPresent(d) PROVE DoorInv'
<1>1. /\ setAttendance(door[d].mine, door[d].event, TRUE) /\ door' = [Disturbed EXCEPT ![d] = NoDoor]
      /\ UNCHANGED <<night, clock, doorCalls>>
  BY DEF MarkPresent
<1>2. /\ \A o \in Doors : door'[o] = NoDoor \/ door'[o] = Disturbed[o]
      /\ door' = [o \in Doors |-> door'[o]]
  BY <1>1 DEF Disturbed
<1> QED
  BY <1>1, <1>2, MarkingTyped, DoorTypes, DoorsDisturbed

LEMMA StepMeanwhile ==
  ASSUME DoorInv, StaffMarks \/ StaffDeletes \/ Enrol \/ CorrectPhone \/ Reschedule \/ TimeGoesBy
  PROVE  DoorInv'
<1>1. /\ door' = Disturbed
      /\ doorCalls' \in 0 .. MaxDoorCalls
  BY CallsGrow, DoorTypes DEF StaffMarks, StaffDeletes, Enrol, CorrectPhone, Reschedule, TimeGoesBy
<1>2. /\ \A o \in Doors : door'[o] = NoDoor \/ door'[o] = Disturbed[o]
      /\ door' = [o \in Doors |-> door'[o]]
  BY <1>1 DEF Disturbed
<1> DEFINE Fine == /\ guest' \in [Guests -> Guest]
                   /\ \A g \in Guests : guest'[g].is = "row" => guest'[g].phone \in Numbers /\ guest'[g].event \in Nights
                   /\ night' \in [Nights -> Instants \cup {None}] /\ clock' \in Instants
<1> SUFFICES Fine
  BY <1>1, <1>2, DoorsDisturbed
<1>3. CASE StaffMarks
  <2>1. PICK S \in SUBSET Seats, e \in Nights, b \in BOOLEAN : setAttendance(S, e, b) /\ UNCHANGED <<night, clock>>
    BY <1>3 DEF StaffMarks
  <2> QED
    BY <2>1, MarkingTyped, DoorTypes
<1>4. CASE StaffDeletes
  <2>1. PICK S \in SUBSET Seats, e \in Nights :
          /\ UNCHANGED <<night, clock>>
          /\ guest' = [g \in Guests |-> IF g \in S /\ guest[g].event = e THEN [guest[g] EXCEPT !.is = "gone"] ELSE guest[g]]
    BY <1>4 DEF StaffDeletes
  <2>2. ASSUME NEW g \in Guests
        PROVE  /\ guest'[g] \in Guest
               /\ guest'[g].is = "row" => guest'[g].phone \in Numbers /\ guest'[g].event \in Nights
    <3>1. guest[g] \in Guest /\ (guest[g].is = "row" => guest[g].phone \in Numbers /\ guest[g].event \in Nights)
      BY DoorTypes
    <3>2. guest'[g] = guest[g] \/ guest'[g] = [guest[g] EXCEPT !.is = "gone"]
      BY <2>1
    <3> QED
      BY <3>1, <3>2 DEF Guest
  <2>3. guest' = [g \in Guests |-> guest'[g]]
    BY <2>1
  <2> QED
    BY <2>1, <2>2, <2>3, DoorTypes
<1>5. CASE Enrol
  <2>1. PICK g \in Guests, x \in Numbers, e \in Nights :
          /\ UNCHANGED <<night, clock>>
          /\ guest' = [guest EXCEPT ![g] = [Nobody EXCEPT !.is = "row", !.phone = x, !.event = e]]
    BY <1>5 DEF Enrol
  <2> DEFINE r == [Nobody EXCEPT !.is = "row", !.phone = x, !.event = e]
  <2>2. r \in Guest /\ r.phone = x /\ r.event = e
    BY PlainDoor DEF Guest
  <2>3. guest' = [guest EXCEPT ![g] = r]
    BY <2>1
  <2> HIDE DEF r
  <2> QED
    BY <2>1, <2>2, <2>3, DoorTypes
<1>6. CASE CorrectPhone
  <2>1. PICK g \in Guests, x \in Numbers :
          /\ UNCHANGED <<night, clock>> /\ guest[g].is = "row"
          /\ guest' = [guest EXCEPT ![g].phone = x]
    BY <1>6 DEF CorrectPhone, Seats
  <2> DEFINE r == [guest[g] EXCEPT !.phone = x]
  <2>2. r \in Guest /\ r.phone = x /\ r.event = guest[g].event /\ guest[g].event \in Nights
    BY <2>1, DoorTypes DEF Guest
  <2>3. guest' = [guest EXCEPT ![g] = r]
    BY <2>1
  <2> HIDE DEF r
  <2> QED
    BY <2>1, <2>2, <2>3, DoorTypes
<1>7. CASE Reschedule
  BY <1>7, DoorTypes DEF Reschedule
<1>8. CASE TimeGoesBy
  <2>1. UNCHANGED <<guest, night>> /\ clock < LastInstant /\ clock' = clock + 1
    BY <1>8 DEF TimeGoesBy
  <2>2. clock' \in Instants
    BY <2>1, DoorTypes, DoorAssumption DEF Instants
  <2> QED
    BY <2>1, <2>2, DoorTypes
<1> QED
  BY <1>3, <1>4, <1>5, <1>6, <1>7, <1>8

LEMMA StepDoor == DoorInv /\ [NextDoor]_doorVars => DoorInv'
<1> SUFFICES ASSUME DoorInv, [NextDoor]_doorVars PROVE DoorInv'
  OBVIOUS
<1>1. CASE UNCHANGED doorVars
  BY <1>1 DEF doorVars, DoorInv, DoorTyped, Undisturbed, FoundBy, pickClosestToToday, Matches,
              findByPhoneWithEventDate, Seats, Nearer, NearerInstant
<1>2. CASE NextDoor
  BY <1>2, StepAtTheDoor, StepMarkPresent, StepMeanwhile DEF NextDoor
<1> QED
  BY <1>1, <1>2

LEMMA DoorAlways == SpecDoor => []DoorInv
BY InitDoorInv, StepDoor, PTL DEF SpecDoor

\* Every variable of the check-in keeps its type.
THEOREM DoorTypeCorrect == SpecDoor => []TypeOKDoor
<1>1. DoorInv => TypeOKDoor
  BY DEF DoorInv, DoorTyped, TypeOKDoor, Guest, Door
<1> QED
  BY <1>1, DoorAlways, PTL

-----------------------------------------------------------------------------
(* Whom a check-in marks. *)

\* The key that phones are matched by is the same when they are one person's.
LEMMA KeysOfOne ==
  ASSUME NEW x \in Numbers, NEW y \in Numbers
  PROVE  (phoneMatchKey(x) = phoneMatchKey(y)) <=> SamePhone(x, y)
<1>1. ASSUME NEW z \in Numbers
      PROVE  phoneMatchKey(z) = IF z.country = "other" THEN z ELSE [country |-> "55", ddd |-> z.ddd, line |-> z.line]
  BY DoorAssumption DEF phoneMatchKey, brNationalNumber
<1>2. CASE x.country = "other" /\ y.country = "other"
  BY <1>1, <1>2 DEF SamePhone
<1>3. CASE x.country = "other" /\ y.country # "other"
  <2>1. phoneMatchKey(x).country = "other" /\ phoneMatchKey(y).country = "55"
    BY <1>1, <1>3
  <2>2. phoneMatchKey(x) # phoneMatchKey(y)
    BY <2>1
  <2> QED
    BY <1>3, <2>2 DEF SamePhone
<1>4. CASE x.country # "other" /\ y.country = "other"
  <2>1. phoneMatchKey(y).country = "other" /\ phoneMatchKey(x).country = "55"
    BY <1>1, <1>4
  <2>2. phoneMatchKey(x) # phoneMatchKey(y)
    BY <2>1
  <2> QED
    BY <1>4, <2>2 DEF SamePhone
<1>5. CASE x.country # "other" /\ y.country # "other"
  <2>1. /\ phoneMatchKey(x) = [country |-> "55", ddd |-> x.ddd, line |-> x.line]
        /\ phoneMatchKey(y) = [country |-> "55", ddd |-> y.ddd, line |-> y.line]
    BY <1>1, <1>5
  <2>2. (phoneMatchKey(x) = phoneMatchKey(y)) <=> x.ddd = y.ddd /\ x.line = y.line
    BY <2>1
  <2> QED
    BY <1>5, <2>2 DEF SamePhone
<1> QED
  BY <1>2, <1>3, <1>4, <1>5

LEMMA SuffixOfOne ==
  ASSUME NEW x \in Numbers, NEW y \in Numbers, SamePhone(x, y)
  PROVE  x.line = phoneMatchSuffix(phoneMatchKey(y))
BY DoorAssumption DEF SamePhone, phoneMatchSuffix, phoneMatchKey, brNationalNumber

\* The registrations found for a phone are those of the person who has it.
LEMMA MatchesAreTheirs ==
  ASSUME DoorInv, NEW x \in Numbers
  PROVE  Matches(x) = {g \in Seats : SamePhone(guest[g].phone, x) /\ night[guest[g].event] # None}
BY KeysOfOne, SuffixOfOne, DoorTypes DEF Matches, findByPhoneWithEventDate, Seats

LEMMA DayTyped == ASSUME NEW t \in Instants PROVE Day(t) \in Int
BY DoorAssumption DEF Day, Instants

\* The event chosen is today's if there is one today.
LEMMA TodayFirst ==
  ASSUME DoorInv, NEW S, S \subseteq {g \in Seats : night[guest[g].event] # None}, NEW g \in pickClosestToToday(S),
         NEW o \in S, Day(night[guest[o].event]) = Day(clock)
  PROVE  Day(night[guest[g].event]) = Day(clock)
<1>1. g \in S /\ ~Nearer(guest[o].event, guest[g].event)
  BY DEF pickClosestToToday
<1>2. /\ night[guest[g].event] \in Instants /\ night[guest[o].event] \in Instants /\ clock \in Instants
  BY <1>1, DoorTypes DEF Seats
<1>3. /\ Day(night[guest[g].event]) \in Int /\ Day(night[guest[o].event]) \in Int /\ Day(clock) \in Int
  BY <1>2, DayTyped
<1>4. ~(Apart(Day(night[guest[o].event]), Day(clock)) < Apart(Day(night[guest[g].event]), Day(clock)))
  BY <1>1 DEF Nearer
<1> QED
  BY <1>3, <1>4 DEF Apart

\* What MarkPresent changes.
LEMMA MarkedBy ==
  ASSUME DoorInv, NEW d \in Doors, MarkPresent(d), NEW g \in Guests
  PROVE  /\ guest'[g] # guest[g] => g \in door[d].mine /\ g \in Seats /\ guest[g].event = door[d].event
         /\ guest'[g] # guest[g] => guest'[g] = [guest[g] EXCEPT !.attended = TRUE] /\ guest'[g].attended
         /\ g \in door[d].mine /\ g \in Seats /\ guest[g].event = door[d].event => guest'[g].attended
<1>1. guest[g] \in Guest
  BY DoorTypes
<1>2. guest'[g] = IF g \in door[d].mine \cap Seats /\ guest[g].event = door[d].event
                  THEN [guest[g] EXCEPT !.attended = TRUE] ELSE guest[g]
  BY DEF MarkPresent, setAttendance
<1>3. [guest[g] EXCEPT !.attended = TRUE].attended = TRUE
  BY <1>1 DEF Guest
<1> QED
  BY <1>2, <1>3

\* Who checks in is marked at one event, today's if they have one, in every registration of
\* theirs there and in no one else's (registration.service.ts, checkIn), unless something
\* changed between the query and the update.
THEOREM RightEventIsMarked == SpecDoor => DoorMarksTheRightEvent
<1>1. ASSUME DoorInv, NEW d \in Doors, MarkPresent(d)
      PROVE  LET marked == {g \in Guests : guest'[g] # guest[g]}
                 theirs == {g \in Seats : SamePhone(guest[g].phone, door[d].phone) /\ night[guest[g].event] # None} IN
             /\ \A g, o \in marked : guest[g].event = guest[o].event
             /\ \A g \in marked : guest'[g].attended /\ guest'[g] = [guest[g] EXCEPT !.attended = TRUE]
             /\ door[d].quiet =>
                  /\ marked \subseteq theirs
                  /\ \A g \in theirs : guest[g].event = door[d].event => guest'[g].attended
                  /\ \A g \in theirs : Day(night[guest[g].event]) = Day(clock) =>
                                         Day(night[door[d].event]) = Day(clock)
                  /\ \E g \in theirs : guest'[g].attended
  <2> DEFINE marked == {g \in Guests : guest'[g] # guest[g]}
             theirs == {g \in Seats : SamePhone(guest[g].phone, door[d].phone) /\ night[guest[g].event] # None}
  <2>1. \A g, o \in marked : guest[g].event = guest[o].event
    BY <1>1, MarkedBy
  <2>2. \A g \in marked : guest'[g].attended /\ guest'[g] = [guest[g] EXCEPT !.attended = TRUE]
    BY <1>1, MarkedBy
  <2>3. ASSUME door[d].quiet
        PROVE  /\ marked \subseteq theirs
               /\ \A g \in theirs : guest[g].event = door[d].event => guest'[g].attended
               /\ \A g \in theirs : Day(night[guest[g].event]) = Day(clock) =>
                                      Day(night[door[d].event]) = Day(clock)
               /\ \E g \in theirs : guest'[g].attended
    <3>1. door[d].phone \in Numbers /\ \E g \in Guests : FoundBy(door[d], g)
      BY <1>1, <2>3 DEF DoorInv, Undisturbed, MarkPresent
    <3>2. PICK n \in Guests : FoundBy(door[d], n)
      BY <3>1
    <3>3. theirs = Matches(door[d].phone)
      BY <1>1, <3>1, MatchesAreTheirs
    <3>4. /\ n \in pickClosestToToday(theirs) /\ n \in theirs /\ guest[n].event = door[d].event
          /\ door[d].mine = {o \in theirs : guest[o].event = door[d].event}
      BY <3>2, <3>3 DEF FoundBy, pickClosestToToday
    <3>5. theirs \subseteq {g \in Seats : night[guest[g].event] # None} /\ theirs \subseteq Guests
      BY DEF Seats
    <3> HIDE DEF theirs
    <3>6. marked \subseteq theirs
      BY <1>1, <3>4, MarkedBy
    <3>7. \A g \in theirs : guest[g].event = door[d].event => guest'[g].attended
      BY <1>1, <3>4, <3>5, MarkedBy
    <3>8. \A g \in theirs : Day(night[guest[g].event]) = Day(clock) => Day(night[door[d].event]) = Day(clock)
      BY <1>1, <3>4, <3>5, TodayFirst
    <3> QED
      BY <3>4, <3>6, <3>7, <3>8
  <2> QED
    BY <2>1, <2>2, <2>3
<1>2. DoorInv /\ [NextDoor]_doorVars =>
        [\A d \in Doors :
           LET marked == {g \in Guests : guest'[g] # guest[g]}
               theirs == {g \in Seats : SamePhone(guest[g].phone, door[d].phone) /\ night[guest[g].event] # None} IN
           MarkPresent(d) =>
             /\ \A g, o \in marked : guest[g].event = guest[o].event
             /\ \A g \in marked : guest'[g].attended /\ guest'[g] = [guest[g] EXCEPT !.attended = TRUE]
             /\ door[d].quiet =>
                  /\ marked \subseteq theirs
                  /\ \A g \in theirs : guest[g].event = door[d].event => guest'[g].attended
                  /\ \A g \in theirs : Day(night[guest[g].event]) = Day(clock) =>
                                         Day(night[door[d].event]) = Day(clock)
                  /\ \E g \in theirs : guest'[g].attended]_doorVars
  BY <1>1, Zenon
<1> QED
  BY <1>2, DoorAlways, PTL DEF DoorMarksTheRightEvent, SpecDoor

-----------------------------------------------------------------------------
(* The automation engine: EngineTriggers. *)

StatusNames == {"pending", "approved", "rejected"}
Person == [is : {"free", "row", "gone"}, status : StatusNames, origin : Sheets \cup {None},
           answered : SUBSET Sheets]
Hand == [at : {"idle", "change", "find", "filter", "fire", "enqueue"}, person : People \cup {None},
         status : StatusNames, rules : SUBSET Notices, owed : SUBSET Notices]
Job == [at : {"idle", "start", "run"}, rule : Notices \cup {None}, left : SUBSET People,
        run : 0 .. 1, owed : SUBSET People]

EngineTypes ==
  /\ person \in [People -> Person] /\ live \subseteq Notices
  /\ hand \in [Hands -> Hand] /\ job \in Job /\ ticks \in Nat

\* A change of status only answers to rules about the status.
StatusRules == \A h \in Hands : \A n \in hand[h].rules : NoticeOf[n].trigger \in StatusTriggers

\* The key under which the outbox keeps an occasion.
KeyOf(o) == IF o[3] = "recurring" THEN <<o[1], o[2], o[3], 10 * o[4]>> ELSE o

\* What was written to somebody who is still registered is in the outbox, and nobody is
\* written to before registering.
HeardIsKept ==
  \A o \in heard : /\ o[1] \in Registered => KeyOf(o) \in keys
                   /\ o[1] \in People /\ person[o[1]].is # "free"

EngineInv == EngineTypes /\ StatusRules /\ HeardIsKept /\ OncePerOccasion

-----------------------------------------------------------------------------
LEMMA InitEngineInv == InitEngine => EngineInv
<1> SUFFICES ASSUME InitEngine PROVE EngineInv
  OBVIOUS
<1>1. person \in [People -> Person]
  BY DEF InitEngine, NoPerson, Person, StatusNames
<1>2. EngineTypes
  BY <1>1 DEF InitEngine, EngineTypes, NoHand, Hand, NoJob, Job, StatusNames
<1>3. StatusRules /\ HeardIsKept /\ OncePerOccasion
  BY DEF InitEngine, StatusRules, NoHand, HeardIsKept, OncePerOccasion
<1> QED
  BY <1>2, <1>3 DEF EngineInv

LEMMA NothingOwed == NoHand \in Hand /\ NoJob \in Job
  BY DEF NoHand, Hand, NoJob, Job, StatusNames

LEMMA OwedTyped ==
  /\ live \subseteq Notices => \A p, s, f : Owed(p, s, f) \subseteq Notices
  /\ \A n : OwedRecurring(n) \subseteq People
  BY DEF Owed, OwedRecurring, Registered

\* Forgiving takes nothing from what a request does next.
LEMMA ForgiveTyped ==
  ASSUME EngineTypes, NEW rules, NEW ps, Forgive(rules, ps)
  PROVE  /\ hand' \in [Hands -> Hand] /\ job' \in Job
         /\ \A h \in Hands : hand'[h].rules = hand[h].rules
<1>1. ASSUME NEW h \in Hands
      PROVE  hand'[h] \in Hand /\ hand'[h].rules = hand[h].rules
  <2> DEFINE left == IF hand[h].person \in ps THEN {} ELSE hand[h].owed \ rules
  <2>1. hand'[h] = [hand[h] EXCEPT !.owed = left]
    BY DEF Forgive
  <2>2. hand[h] \in Hand /\ left \in SUBSET Notices
    BY DEF EngineTypes, Hand
  <2> HIDE DEF left
  <2> QED
    BY <2>1, <2>2 DEF Hand
<1>2. hand' \in [Hands -> Hand]
  BY <1>1 DEF Forgive
<1>3. job' \in Job
  <2> DEFINE left == IF job.rule \in rules THEN {} ELSE job.owed \ ps
  <2>1. job' = [job EXCEPT !.owed = left]
    BY DEF Forgive
  <2>2. job \in Job /\ left \in SUBSET People
    BY DEF EngineTypes, Job
  <2> HIDE DEF left
  <2> QED
    BY <2>1, <2>2 DEF Job
<1> QED
  BY <1>1, <1>2, <1>3

LEMMA StepEngineTypes == EngineTypes /\ StatusRules /\ [NextEngine]_engineVars => (EngineTypes /\ StatusRules)'
<1> SUFFICES ASSUME EngineTypes, StatusRules, [NextEngine]_engineVars PROVE (EngineTypes /\ StatusRules)'
  OBVIOUS
<1> USE EngineAssumption
<1>1. /\ person \in [People -> Person] /\ live \subseteq Notices
      /\ hand \in [Hands -> Hand] /\ job \in Job /\ ticks \in Nat
  BY DEF EngineTypes
<1> DEFINE Fine(r) == r \in Hand /\ \A n \in r.rules : NoticeOf[n].trigger \in StatusTriggers
           Handy == hand' \in [Hands -> Hand] /\ StatusRules'
           Rest == person' \in [People -> Person] /\ live' \subseteq Notices /\ ticks' \in Nat
<1>2. ASSUME Handy, Rest, job' \in Job PROVE (EngineTypes /\ StatusRules)'
  BY <1>2 DEF EngineTypes
<1>3. ASSUME NEW h \in Hands, NEW r, hand' = [hand EXCEPT ![h] = r], Fine(r) PROVE Handy
  BY <1>1, <1>3 DEF StatusRules
<1>4. Fine(NoHand) /\ NoJob \in Job
  BY NothingOwed DEF NoHand
<1>5. ASSUME UNCHANGED hand PROVE Handy
  BY <1>1, <1>5 DEF StatusRules
<1>6. ASSUME NEW rules, NEW ps, Forgive(rules, ps) PROVE Handy /\ job' \in Job
  BY <1>6, ForgiveTyped DEF StatusRules
<1>7. \A h \in Hands : Fine(hand[h])
  BY <1>1 DEF StatusRules
<1> HIDE DEF Handy
<1>8. CASE UNCHANGED engineVars
  BY <1>1, <1>2, <1>5, <1>8 DEF engineVars
<1>9. ASSUME NEW h \in Hands, Register(h) PROVE (EngineTypes /\ StatusRules)'
  <2>1. PICK p \in People, f \in Sheets :
          /\ person' = [person EXCEPT ![p] = [NoPerson EXCEPT !.is = "row", !.origin = f]]
          /\ hand' = [hand EXCEPT ![h] = [NoHand EXCEPT !.at = "find", !.person = p,
                                                        !.owed = Owed(p, "pending", f)]]
    BY <1>9 DEF Register
  <2> DEFINE r == [NoHand EXCEPT !.at = "find", !.person = p, !.owed = Owed(p, "pending", f)]
             x == [NoPerson EXCEPT !.is = "row", !.origin = f]
  <2>2. x \in Person
    BY DEF NoPerson, Person, StatusNames
  <2>3. Fine(r)
    BY <1>1, OwedTyped DEF NoHand, Hand, StatusNames
  <2>4. Handy
    BY <1>3, <2>1, <2>3
  <2> HIDE DEF r, x
  <2>5. person' \in [People -> Person]
    BY <1>1, <2>1, <2>2 DEF x
  <2> QED
    BY <1>1, <1>2, <1>9, <2>4, <2>5 DEF Register, Turn
<1>10. ASSUME NEW p \in People, AnswerSheet(p) PROVE (EngineTypes /\ StatusRules)'
  <2>1. PICK f \in Sheets : person' = [person EXCEPT ![p].answered = @ \cup {f}]
    BY <1>10 DEF AnswerSheet
  <2>2. person' \in [People -> Person]
    BY <1>1, <2>1 DEF Person
  <2> QED
    BY <1>1, <1>2, <1>5, <1>10, <2>2 DEF AnswerSheet, Turn
<1>11. ASSUME NEW h \in Hands, ReadStatus(h) PROVE (EngineTypes /\ StatusRules)'
  <2>1. PICK p \in Registered, s \in DOMAIN TRIGGER_MAP :
          hand' = [hand EXCEPT ![h] = [NoHand EXCEPT !.at = "change", !.person = p, !.status = s]]
    BY <1>11 DEF ReadStatus
  <2> DEFINE r == [NoHand EXCEPT !.at = "change", !.person = p, !.status = s]
  <2>2. Fine(r)
    BY DEF NoHand, Hand, StatusNames, Registered, TRIGGER_MAP
  <2>3. Handy
    BY <1>3, <2>1, <2>2
  <2> QED
    BY <1>1, <1>2, <1>11, <2>3 DEF ReadStatus, Turn
<1>12. ASSUME NEW h \in Hands, ChangeStatus(h) PROVE (EngineTypes /\ StatusRules)'
  <2> DEFINE p == hand[h].person
             s == hand[h].status
             owed == Owed(p, s, person[p].origin)
             r == [hand[h] EXCEPT !.at = "find", !.owed = owed]
  <2>1. CASE p \in Registered
    <3>1. /\ person' = [person EXCEPT ![p].status = s]
          /\ hand' = [hand EXCEPT ![h].at = "find", ![h].owed = owed]
          /\ job' = IF s = "approved" THEN job ELSE [job EXCEPT !.owed = @ \ {p}]
      BY <1>12, <2>1 DEF ChangeStatus
    <3>2. owed \in SUBSET Notices /\ s \in StatusNames /\ p \in People
      BY <1>1, <2>1, OwedTyped DEF Hand, Registered
    <3> HIDE DEF owed, p, s
    <3>3. Fine(r)
      BY <1>7, <3>2 DEF Hand
    <3>4. hand' = [hand EXCEPT ![h] = r]
      BY <1>1, <3>1
    <3> HIDE DEF r
    <3>5. Handy
      BY <1>3, <3>3, <3>4
    <3>6. person' \in [People -> Person]
      BY <1>1, <3>1, <3>2 DEF Person
    <3>7. job' \in Job
      BY <1>1, <3>1 DEF Job
    <3> QED
      BY <1>1, <1>2, <1>12, <3>5, <3>6, <3>7 DEF ChangeStatus, Goes
  <2>2. CASE p \notin Registered
    <3>1. hand' = [hand EXCEPT ![h] = NoHand] /\ UNCHANGED <<person, job>>
      BY <1>12, <2>2 DEF ChangeStatus
    <3> QED
      BY <1>1, <1>2, <1>3, <1>4, <1>12, <3>1 DEF ChangeStatus, Goes
  <2> QED
    BY <2>1, <2>2
<1>13. ASSUME NEW n \in Notices, SwitchRule(n) PROVE (EngineTypes /\ StatusRules)'
  <2>1. Handy /\ job' \in Job
    BY <1>6, <1>13 DEF SwitchRule
  <2> QED
    BY <1>1, <1>2, <1>13, <2>1 DEF SwitchRule, Turn
<1>14. CASE SwitchEvent
  <2>1. Handy /\ job' \in Job
    <3>1. CASE Sendable'
      BY <1>1, <1>5, <1>14, <3>1 DEF SwitchEvent
    <3>2. CASE ~Sendable'
      BY <1>6, <1>14, <3>2 DEF SwitchEvent
    <3> QED
      BY <3>1, <3>2
  <2> QED
    BY <1>1, <1>2, <1>14, <2>1 DEF SwitchEvent, Turn
<1>15. ASSUME NEW p \in People, DeletePerson(p) PROVE (EngineTypes /\ StatusRules)'
  <2>1. Handy /\ job' \in Job
    BY <1>6, <1>15 DEF DeletePerson
  <2>2. person' \in [People -> Person]
    BY <1>1, <1>15 DEF DeletePerson, Person
  <2> QED
    BY <1>1, <1>2, <1>15, <2>1, <2>2 DEF DeletePerson, Turn
<1>16. ASSUME NEW h \in Hands, FindRules(h) \/ FilterRules(h) \/ FireRules(h) \/ EnqueueNotice(h)
       PROVE  (EngineTypes /\ StatusRules)'
  <2>1. \E at \in {"filter", "fire", "enqueue"} :
          \E ns \in SUBSET {n \in Notices : NoticeOf[n].trigger \in StatusTriggers} :
            hand' = [hand EXCEPT ![h] = [hand[h] EXCEPT !.at = at, !.rules = ns]]
    <3>1. hand[h] \in Hand /\ hand[h].rules \subseteq {n \in Notices : NoticeOf[n].trigger \in StatusTriggers}
      BY <1>7 DEF Hand
    <3>2. CASE FindRules(h)
      <4> DEFINE ns == {n \in live : NoticeOf[n].trigger = TRIGGER_MAP[hand[h].status]}
      <4>1. TRIGGER_MAP[hand[h].status] \in StatusTriggers
        BY <3>1 DEF Hand, StatusNames, TRIGGER_MAP, StatusTriggers
      <4>2. ns \in SUBSET {n \in Notices : NoticeOf[n].trigger \in StatusTriggers}
        BY <1>1, <4>1
      <4>3. hand' = [hand EXCEPT ![h] = [hand[h] EXCEPT !.at = "filter", !.rules = ns]]
        BY <1>1, <3>2 DEF FindRules
      <4> QED
        BY <4>2, <4>3
    <3>3. CASE FilterRules(h)
      <4> DEFINE ns == filterRulesByForm(hand[h].rules, hand[h].person, hand[h].status)
      <4>1. ns \in SUBSET {n \in Notices : NoticeOf[n].trigger \in StatusTriggers}
        BY <3>1 DEF filterRulesByForm
      <4>2. hand' = [hand EXCEPT ![h] = [hand[h] EXCEPT !.at = "fire", !.rules = ns]]
        BY <1>1, <3>3 DEF FilterRules
      <4> HIDE DEF ns
      <4> QED
        BY <4>1, <4>2
    <3>4. CASE FireRules(h)
      <4> DEFINE ns == IF hand[h].person \in Registered /\ Sendable THEN hand[h].rules \cap live ELSE {}
      <4>1. ns \in SUBSET {n \in Notices : NoticeOf[n].trigger \in StatusTriggers}
        BY <3>1
      <4>2. hand' = [hand EXCEPT ![h] = [hand[h] EXCEPT !.at = "enqueue", !.rules = ns]]
        BY <1>1, <3>4 DEF FireRules
      <4> HIDE DEF ns
      <4> QED
        BY <4>1, <4>2
    <3>5. CASE EnqueueNotice(h)
      <4>1. PICK n \in hand[h].rules : /\ hand' = [hand EXCEPT ![h].rules = @ \ {n}]
                                       /\ hand[h].at = "enqueue"
        BY <3>5 DEF EnqueueNotice
      <4> DEFINE ns == hand[h].rules \ {n}
      <4>2. ns \in SUBSET {m \in Notices : NoticeOf[m].trigger \in StatusTriggers}
        BY <3>1
      <4>3. hand' = [hand EXCEPT ![h] = [hand[h] EXCEPT !.at = "enqueue", !.rules = ns]]
        BY <1>1, <3>1, <4>1 DEF Hand
      <4> HIDE DEF ns
      <4> QED
        BY <4>2, <4>3
    <3> QED
      BY <1>16, <3>2, <3>3, <3>4, <3>5
  <2>2. PICK at \in {"filter", "fire", "enqueue"} :
          \E ns \in SUBSET {n \in Notices : NoticeOf[n].trigger \in StatusTriggers} :
            hand' = [hand EXCEPT ![h] = [hand[h] EXCEPT !.at = at, !.rules = ns]]
    BY <2>1
  <2>3. PICK ns \in SUBSET {n \in Notices : NoticeOf[n].trigger \in StatusTriggers} :
          hand' = [hand EXCEPT ![h] = [hand[h] EXCEPT !.at = at, !.rules = ns]]
    BY <2>2
  <2>4. Fine([hand[h] EXCEPT !.at = at, !.rules = ns])
    BY <1>7 DEF Hand
  <2>5. Handy
    BY <1>3, <2>3, <2>4
  <2> QED
    BY <1>1, <1>2, <1>16, <2>5 DEF FindRules, FilterRules, FireRules, EnqueueNotice, Goes
<1>17. ASSUME NEW h \in Hands, HandEnds(h) \/ HandFails(h) PROVE (EngineTypes /\ StatusRules)'
  BY <1>1, <1>2, <1>3, <1>4, <1>17 DEF HandEnds, HandFails, Goes, Mishap
<1>18. ASSUME NEW n \in Notices, Tick(n) PROVE (EngineTypes /\ StatusRules)'
  <2> DEFINE owed == OwedRecurring(n)
             j == [NoJob EXCEPT !.at = "start", !.rule = n, !.owed = owed]
  <2>1. job' = j
    BY <1>18 DEF Tick
  <2>2. owed \in SUBSET People
    BY OwedTyped
  <2> HIDE DEF owed
  <2>3. j \in Job
    BY <2>2, NothingOwed DEF Job
  <2> HIDE DEF j
  <2> QED
    BY <1>1, <1>2, <1>5, <1>18, <2>1, <2>3 DEF Tick
<1>19. CASE JobReads
  <2> DEFINE ps == {p \in Registered : /\ job.rule \in live /\ person[p].status = "approved"
                                       /\ responded(job.rule, p)}
  <2>1. ps \in SUBSET People
    BY DEF Registered
  <2>2. job' = [job EXCEPT !.at = "run", !.left = ps] \/ job' = NoJob
    BY <1>19 DEF JobReads
  <2> HIDE DEF ps
  <2>3. job' \in Job
    BY <1>1, <1>4, <2>1, <2>2 DEF Job
  <2> QED
    BY <1>1, <1>2, <1>5, <1>19, <2>3 DEF JobReads, Goes, Mishap
<1>20. ASSUME NEW p \in People, JobFires(p) PROVE (EngineTypes /\ StatusRules)'
  <2> DEFINE rest == [job EXCEPT !.left = @ \ {p}]
  <2>1. rest \in Job /\ [rest EXCEPT !.owed = @ \ {p}] \in Job
    BY <1>1 DEF Job
  <2>2. job' \in {rest, [rest EXCEPT !.owed = @ \ {p}]}
    BY <1>20 DEF JobFires
  <2>3. job' \in Job
    BY <2>1, <2>2
  <2> QED
    BY <1>1, <1>2, <1>5, <1>20, <2>3 DEF JobFires, Goes, Mishap
<1>21. CASE JobEnds
  BY <1>1, <1>2, <1>4, <1>5, <1>21 DEF JobEnds, Goes
<1>22. CASE EngineDies
  <2>1. Handy
    BY <1>4, <1>22 DEF EngineDies, Handy, StatusRules
  <2>2. job' \in {NoJob, [job EXCEPT !.at = "start", !.run = 1, !.left = {}]}
    BY <1>22 DEF EngineDies
  <2>3. 1 \in 0 .. 1 /\ {} \in SUBSET People
    OBVIOUS
  <2>4. [job EXCEPT !.at = "start", !.run = 1, !.left = {}] \in Job
    BY <1>1, <2>3 DEF Job
  <2> QED
    BY <1>1, <1>2, <1>4, <1>22, <2>1, <2>2, <2>4 DEF EngineDies, Mishap
<1> QED
  BY <1>8, <1>9, <1>10, <1>11, <1>12, <1>13, <1>14, <1>15, <1>16, <1>17, <1>18, <1>19, <1>20,
     <1>21, <1>22 DEF NextEngine

-----------------------------------------------------------------------------
(* Once for each occasion. *)

\* Nothing is written, and nobody who was written to comes back.
LEMMA NothingWritten ==
  ASSUME HeardIsKept, OncePerOccasion, UNCHANGED <<keys, heard, twice>>,
         \A p \in People : /\ person[p].is # "free" => person'[p].is # "free"
                           /\ p \in Registered' => p \in Registered \/ person[p].is = "free"
  PROVE  (HeardIsKept /\ OncePerOccasion)'
  BY DEF HeardIsKept, OncePerOccasion, KeyOf

\* The key of an occasion stands for it: what was written has its key in the outbox.
LEMMA EnqueuedOnce ==
  ASSUME HeardIsKept, OncePerOccasion, NEW o, o[1] \in People, KeyOf(o)[1] = o[1],
         Enqueued(KeyOf(o), o), UNCHANGED person
  PROVE  (HeardIsKept /\ OncePerOccasion)'
<1>1. CASE KeyOf(o) \in keys \/ o[1] \notin Registered
  <2>1. UNCHANGED <<keys, heard, twice>>
    BY <1>1 DEF Enqueued
  <2>2. Registered' = Registered
    BY DEF Registered
  <2> QED
    BY <2>1, <2>2, NothingWritten
<1>2. CASE ~(KeyOf(o) \in keys \/ o[1] \notin Registered)
  <2>1. o \notin heard
    BY <1>2 DEF HeardIsKept
  <2>2. keys' = keys \cup {KeyOf(o)} /\ heard' = heard \cup {o} /\ twice' = twice
    BY <1>2, <2>1 DEF Enqueued
  <2>3. person[o[1]].is = "row" /\ Registered' = Registered
    BY <1>2 DEF Registered
  <2>4. \A x : KeyOf(x)' = KeyOf(x)
    BY DEF KeyOf
  <2> QED
    BY <2>2, <2>3, <2>4 DEF HeardIsKept, OncePerOccasion
<1> QED
  BY <1>1, <1>2

LEMMA StepOnce == EngineInv /\ [NextEngine]_engineVars => (HeardIsKept /\ OncePerOccasion)'
<1> SUFFICES ASSUME EngineInv, [NextEngine]_engineVars PROVE (HeardIsKept /\ OncePerOccasion)'
  OBVIOUS
<1>1. /\ EngineTypes /\ StatusRules /\ HeardIsKept /\ OncePerOccasion
      /\ person \in [People -> Person] /\ hand \in [Hands -> Hand] /\ job \in Job /\ ticks \in Nat
  BY DEF EngineInv, EngineTypes
<1>2. ASSUME UNCHANGED <<person, keys, heard, twice>> PROVE (HeardIsKept /\ OncePerOccasion)'
  <2>1. Registered' = Registered
    BY <1>2 DEF Registered
  <2> QED
    BY <1>1, <1>2, <2>1, NothingWritten
<1>3. CASE UNCHANGED engineVars
  BY <1>2, <1>3 DEF engineVars
<1>4. ASSUME NEW h \in Hands, Register(h) PROVE (HeardIsKept /\ OncePerOccasion)'
  <2>1. PICK p \in People, f \in Sheets :
          /\ person[p].is = "free"
          /\ person' = [person EXCEPT ![p] = [NoPerson EXCEPT !.is = "row", !.origin = f]]
    BY <1>4 DEF Register
  <2>2. person'[p].is = "row" /\ \A o \in People \ {p} : person'[o] = person[o]
    BY <1>1, <2>1 DEF NoPerson
  <2>3. UNCHANGED <<keys, heard, twice>>
    BY <1>4 DEF Register, Told
  <2> QED
    BY <1>1, <2>1, <2>2, <2>3, NothingWritten DEF Registered
<1>5. ASSUME NEW p \in People, AnswerSheet(p) PROVE (HeardIsKept /\ OncePerOccasion)'
  <2>1. \A o \in People : person'[o].is = person[o].is
    BY <1>1, <1>5 DEF AnswerSheet, Person
  <2>2. UNCHANGED <<keys, heard, twice>>
    BY <1>5 DEF AnswerSheet, Told
  <2> QED
    BY <1>1, <2>1, <2>2, NothingWritten DEF Registered
<1>6. ASSUME NEW h \in Hands, ChangeStatus(h) PROVE (HeardIsKept /\ OncePerOccasion)'
  <2>1. \A o \in People : person'[o].is = person[o].is
    BY <1>1, <1>6 DEF ChangeStatus, Person
  <2>2. UNCHANGED <<keys, heard, twice>>
    BY <1>6 DEF ChangeStatus, Told
  <2> QED
    BY <1>1, <2>1, <2>2, NothingWritten DEF Registered
<1>7. ASSUME NEW p \in People, DeletePerson(p) PROVE (HeardIsKept /\ OncePerOccasion)'
  <2>1. /\ person' = [person EXCEPT ![p].is = "gone"] /\ keys' = {k \in keys : k[1] # p}
        /\ UNCHANGED <<heard, twice>>
    BY <1>7 DEF DeletePerson
  <2>2. /\ person'[p].is = "gone"
        /\ \A o \in People \ {p} : person'[o] = person[o]
    BY <1>1, <2>1 DEF Person
  <2>3. \A o : KeyOf(o)' = KeyOf(o) /\ KeyOf(o)[1] = o[1]
    BY DEF KeyOf
  <2>4. ASSUME NEW o \in heard
        PROVE  /\ o[1] \in Registered' => KeyOf(o) \in keys'
               /\ o[1] \in People /\ person'[o[1]].is # "free"
    <3>1. /\ o[1] \in Registered => KeyOf(o) \in keys
          /\ o[1] \in People /\ person[o[1]].is # "free"
      BY <1>1 DEF HeardIsKept
    <3>2. CASE o[1] = p
      BY <2>2, <3>1, <3>2 DEF Registered
    <3>3. CASE o[1] # p
      BY <2>1, <2>2, <2>3, <3>1, <3>3 DEF Registered
    <3> QED
      BY <3>2, <3>3
  <2> QED
    BY <1>1, <2>1, <2>3, <2>4 DEF HeardIsKept, OncePerOccasion
<1>8. ASSUME NEW h \in Hands, EnqueueNotice(h) PROVE (HeardIsKept /\ OncePerOccasion)'
  <2>1. PICK n \in hand[h].rules :
          /\ Enqueued(StatusKey(hand[h].person, n), StatusKey(hand[h].person, n))
          /\ UNCHANGED person
    BY <1>8 DEF EnqueueNotice
  <2> DEFINE o == StatusKey(hand[h].person, n)
  <2>2. KeyOf(o) = o /\ o[1] = hand[h].person
    BY <1>1 DEF StatusRules, StatusTriggers, StatusKey, KeyOf
  <2> HIDE DEF o
  <2>3. CASE o[1] \in People
    BY <1>1, <2>1, <2>2, <2>3, EnqueuedOnce DEF o
  <2>4. CASE o[1] \notin People
    <3>1. o[1] \notin Registered
      BY <2>4 DEF Registered
    <3>2. UNCHANGED <<person, keys, heard, twice>>
      BY <2>1, <3>1 DEF Enqueued, o
    <3> QED
      BY <1>2, <3>2
  <2> QED
    BY <2>3, <2>4
<1>9. ASSUME NEW p \in People, JobFires(p) PROVE (HeardIsKept /\ OncePerOccasion)'
  <2> DEFINE key(x) == <<p, NoticeOf[job.rule].template, "recurring", x>>
  <2>1. UNCHANGED person /\ (Enqueued(key(10 * ticks), key(ticks)) \/ UNCHANGED <<keys, heard, twice>>)
    BY <1>9 DEF JobFires, occurrenceKey
  <2>2. KeyOf(key(ticks)) = key(10 * ticks) /\ key(ticks)[1] = p /\ key(10 * ticks)[1] = p
    BY DEF KeyOf
  <2> HIDE DEF key
  <2>3. CASE Enqueued(key(10 * ticks), key(ticks))
    BY <1>1, <2>1, <2>2, <2>3, EnqueuedOnce
  <2>4. CASE UNCHANGED <<keys, heard, twice>>
    BY <1>2, <2>1, <2>4
  <2> QED
    BY <2>1, <2>3, <2>4
<1> QED
  BY <1>2, <1>3, <1>4, <1>5, <1>6, <1>7, <1>8, <1>9
  DEF NextEngine, Told, ReadStatus, FindRules, FilterRules, FireRules, HandEnds, HandFails,
      SwitchRule, Tick, SwitchEvent, JobReads, JobEnds, EngineDies

\* Nobody is written twice on one occasion, whichever requests, occurrences and crashes
\* come in between.
THEOREM WrittenOnce == SpecEngine => []OncePerOccasion
<1>1. EngineInv /\ [NextEngine]_engineVars => EngineInv'
  BY StepEngineTypes, StepOnce DEF EngineInv
<1>2. SpecEngine => []EngineInv
  BY InitEngineInv, <1>1, PTL DEF SpecEngine
<1>3. EngineInv => OncePerOccasion
  BY DEF EngineInv
<1> QED
  BY <1>2, <1>3, PTL

-----------------------------------------------------------------------------
(* Nobody is passed over. *)

Occasions == People \X {NoticeOf[n].template : n \in Notices}
                    \X (StatusTriggers \cup {"recurring"}) \X Nat

LEMMA TenTimes ==
  /\ \A i \in Nat : 10 * i \in Nat
  /\ \A i, j \in Nat : 10 * i = 10 * j => i = j
  OBVIOUS

\* Every key of the outbox is that of an occasion on which somebody was written.
KeysAreHeard == heard \subseteq Occasions /\ \A k \in keys : \E o \in heard : k = KeyOf(o)

\* Somebody falls under rule n at a change to a status.
FallsUnder(n, p, status) == IF status = "pending" THEN matchesForm(n, p) ELSE responded(n, p)

\* What a change of status owes is still in its hands, or written.
HandOwes(h) ==
  \A n \in hand[h].owed :
    /\ hand[h].at \in {"find", "filter", "fire", "enqueue"}
    /\ hand[h].person \in Registered /\ Sendable /\ n \in live
    /\ NoticeOf[n].trigger = TRIGGER_MAP[hand[h].status]
    /\ FallsUnder(n, hand[h].person, hand[h].status)
    /\ hand[h].at \in {"filter", "fire"} => n \in hand[h].rules
    /\ hand[h].at = "enqueue" => n \in hand[h].rules \/ StatusKey(hand[h].person, n) \in keys

\* What an occurrence owes is still in its hands, or written.
JobOwes ==
  \A p \in job.owed :
    /\ job.at # "idle" /\ p \in Registered /\ Sendable /\ job.rule \in live
    /\ person[p].status = "approved" /\ responded(job.rule, p)
    /\ job.at = "run" =>
         p \in job.left \/ <<p, NoticeOf[job.rule].template, "recurring", ticks>> \in heard

OweInv == (\A h \in Hands : HandOwes(h)) /\ JobOwes /\ unsent = {}

\* What the outbox and the row of p still hold.
Kept(p) ==
  /\ person'[p].is = "row" /\ person'[p].origin = person[p].origin
  /\ person[p].answered \subseteq person'[p].answered
  /\ \A k \in keys : k[1] = p => k \in keys'

LEMMA HandRests ==
  ASSUME NEW h \in Hands, HandOwes(h), hand'[h].owed \subseteq hand[h].owed,
         hand'[h].at = hand[h].at, hand'[h].person = hand[h].person,
         hand'[h].status = hand[h].status, hand'[h].rules = hand[h].rules,
         \A n \in hand'[h].owed : Kept(hand[h].person) /\ Sendable' /\ n \in live'
  PROVE  HandOwes(h)'
<1> SUFFICES ASSUME NEW n \in hand'[h].owed
             PROVE  /\ hand'[h].at \in {"find", "filter", "fire", "enqueue"}
                    /\ hand'[h].person \in Registered' /\ Sendable' /\ n \in live'
                    /\ NoticeOf[n].trigger = TRIGGER_MAP[hand'[h].status]
                    /\ FallsUnder(n, hand[h].person, hand[h].status)'
                    /\ hand'[h].at \in {"filter", "fire"} => n \in hand'[h].rules
                    /\ hand'[h].at = "enqueue" =>
                         n \in hand'[h].rules \/ StatusKey(hand[h].person, n) \in keys'
  BY DEF HandOwes, StatusKey
<1>1. PICK p, s : p = hand[h].person /\ s = hand[h].status
  OBVIOUS
<1>2. /\ hand[h].at \in {"find", "filter", "fire", "enqueue"}
      /\ p \in Registered /\ NoticeOf[n].trigger = TRIGGER_MAP[s] /\ FallsUnder(n, p, s)
      /\ hand[h].at \in {"filter", "fire"} => n \in hand[h].rules
      /\ hand[h].at = "enqueue" => n \in hand[h].rules \/ StatusKey(p, n) \in keys
  BY <1>1 DEF HandOwes
<1>3. Kept(p)
  BY <1>1
<1>4. p \in Registered' /\ (StatusKey(p, n) \in keys => StatusKey(p, n) \in keys')
  BY <1>2, <1>3 DEF Kept, Registered, StatusKey
<1>5. FallsUnder(n, p, s)'
  BY <1>2, <1>3 DEF Kept, FallsUnder, matchesForm, responded
<1> QED
  BY <1>1, <1>2, <1>4, <1>5 DEF FallsUnder, matchesForm, responded

LEMMA JobRests ==
  ASSUME JobOwes, job'.owed \subseteq job.owed, job'.at = job.at, job'.rule = job.rule,
         job'.left = job.left, ticks' = ticks, heard \subseteq heard',
         \A p \in job'.owed : /\ Kept(p) /\ person'[p].status = "approved"
                              /\ Sendable' /\ job.rule \in live'
  PROVE  JobOwes'
<1> SUFFICES ASSUME NEW p \in job'.owed
             PROVE  /\ job'.at # "idle" /\ p \in Registered' /\ Sendable' /\ job'.rule \in live'
                    /\ person'[p].status = "approved" /\ responded(job.rule, p)'
                    /\ job'.at = "run" => p \in job'.left
                         \/ <<p, NoticeOf[job'.rule].template, "recurring", ticks'>> \in heard'
  BY DEF JobOwes, responded
<1>1. /\ job.at # "idle" /\ p \in Registered /\ responded(job.rule, p)
      /\ job.at = "run" =>
           p \in job.left \/ <<p, NoticeOf[job.rule].template, "recurring", ticks>> \in heard
  BY DEF JobOwes
<1>2. p \in Registered' /\ responded(job.rule, p)'
  BY <1>1 DEF Kept, Registered, responded
<1> QED
  BY <1>1, <1>2

\* The outbox grows and forgets nobody.
LEMMA EnqueuedKeeps ==
  ASSUME NEW key, NEW o, Enqueued(key, o)
  PROVE  /\ keys \subseteq keys' /\ heard \subseteq heard'
         /\ key[1] \in Registered => key \in keys'
  BY DEF Enqueued

LEMMA EnqueuedHeard ==
  ASSUME KeysAreHeard, NEW o, o[1] \in Registered => o \in Occasions, KeyOf(o)[1] = o[1],
         Enqueued(KeyOf(o), o)
  PROVE  KeysAreHeard'
<1>1. CASE UNCHANGED <<keys, heard>>
  BY <1>1 DEF KeysAreHeard, KeyOf
<1>2. CASE ~UNCHANGED <<keys, heard>>
  <2>1. /\ o[1] \in Registered /\ keys' = keys \cup {KeyOf(o)} /\ heard' = heard \cup {o}
    BY <1>2 DEF Enqueued
  <2> QED
    BY <2>1 DEF KeysAreHeard, KeyOf
<1> QED
  BY <1>1, <1>2

LEMMA StepKeysAreHeard == EngineTypes /\ StatusRules /\ KeysAreHeard /\ [NextEngine]_engineVars => KeysAreHeard'
<1> SUFFICES ASSUME EngineTypes, StatusRules, KeysAreHeard, [NextEngine]_engineVars PROVE KeysAreHeard'
  OBVIOUS
<1>1. hand \in [Hands -> Hand] /\ job \in Job /\ ticks \in Nat /\ live \subseteq Notices
  BY DEF EngineTypes
<1>2. ASSUME UNCHANGED heard, keys' \subseteq keys PROVE KeysAreHeard'
  BY <1>2 DEF KeysAreHeard, KeyOf
<1>3. ASSUME NEW h \in Hands, EnqueueNotice(h) PROVE KeysAreHeard'
  <2>1. PICK n \in hand[h].rules : Enqueued(StatusKey(hand[h].person, n), StatusKey(hand[h].person, n))
    BY <1>3 DEF EnqueueNotice
  <2>2. n \in Notices /\ NoticeOf[n].trigger \in StatusTriggers
    BY <1>1 DEF StatusRules, Hand
  <2> DEFINE o == StatusKey(hand[h].person, n)
  <2>3. KeyOf(o) = o
    BY <2>2 DEF StatusKey, KeyOf, StatusTriggers
  <2>4. o[1] \in Registered => o \in Occasions
    BY <2>2 DEF StatusKey, Occasions, Registered
  <2> HIDE DEF o
  <2> QED
    BY <2>1, <2>3, <2>4, EnqueuedHeard DEF o
<1>4. ASSUME NEW p \in People, JobFires(p) PROVE KeysAreHeard'
  <2> DEFINE key(x) == <<p, NoticeOf[job.rule].template, "recurring", x>>
  <2>1. \/ job.rule \in live /\ Enqueued(key(10 * ticks), key(ticks))
        \/ UNCHANGED <<keys, heard>>
    BY <1>4 DEF JobFires, occurrenceKey
  <2>2. KeyOf(key(ticks)) = key(10 * ticks) /\ key(10 * ticks)[1] = key(ticks)[1]
    BY DEF KeyOf
  <2>3. job.rule \in live => key(ticks) \in Occasions
    BY <1>1 DEF Occasions
  <2> HIDE DEF key
  <2> QED
    BY <1>2, <2>1, <2>2, <2>3, EnqueuedHeard
<1>5. CASE UNCHANGED engineVars
  BY <1>2, <1>5 DEF engineVars
<1>6. ASSUME NEW p \in People, DeletePerson(p) PROVE KeysAreHeard'
  BY <1>2, <1>6 DEF DeletePerson
<1> QED
  BY <1>2, <1>3, <1>4, <1>5, <1>6
  DEF NextEngine, Told, Register, AnswerSheet, ChangeStatus, ReadStatus, FindRules, FilterRules,
      FireRules, HandEnds, HandFails, SwitchRule, Tick, SwitchEvent, JobReads, JobEnds, EngineDies

\* A request that takes nothing from the people leaves the others what they are owed.
LEMMA OthersRest ==
  ASSUME EngineTypes, OweInv, NEW h \in Hands, \A g \in Hands \ {h} : hand'[g] = hand[g],
         HandOwes(h)', \A p \in Registered : Kept(p), UNCHANGED <<live, opening>>
  PROVE  \A g \in Hands : HandOwes(g)'
<1> SUFFICES ASSUME NEW g \in Hands \ {h} PROVE HandOwes(g)'
  OBVIOUS
<1>1. HandOwes(g) /\ hand'[g] = hand[g]
  BY DEF OweInv
<1>2. \A n \in hand[g].owed : Kept(hand[g].person) /\ Sendable' /\ n \in live'
  BY <1>1 DEF HandOwes, Sendable
<1> QED
  BY <1>1, <1>2, HandRests

LEMMA AllRest ==
  ASSUME OweInv, UNCHANGED <<hand, live, opening>>, \A p \in Registered : Kept(p)
  PROVE  \A g \in Hands : HandOwes(g)'
<1> SUFFICES ASSUME NEW g \in Hands PROVE HandOwes(g)'
  OBVIOUS
<1>1. HandOwes(g) /\ hand'[g] = hand[g]
  BY DEF OweInv
<1>2. \A n \in hand[g].owed : Kept(hand[g].person) /\ Sendable' /\ n \in live'
  BY <1>1 DEF HandOwes, Sendable
<1> QED
  BY <1>1, <1>2, HandRests

LEMMA TheJobRests ==
  ASSUME OweInv, UNCHANGED <<job, live, opening, ticks>>, heard \subseteq heard',
         \A p \in Registered : Kept(p) /\ person'[p].status = person[p].status
  PROVE  JobOwes'
<1>1. JobOwes
  BY DEF OweInv
<1>2. \A p \in job.owed : /\ Kept(p) /\ person'[p].status = "approved"
                          /\ Sendable' /\ job.rule \in live'
  BY <1>1 DEF JobOwes, Sendable
<1> QED
  BY <1>1, <1>2, JobRests

LEMMA SamePeopleKept ==
  ASSUME UNCHANGED person, keys \subseteq keys'
  PROVE  \A p \in Registered : Kept(p) /\ person'[p].status = person[p].status
  BY DEF Kept, Registered

LEMMA StepOweInv ==
  EngineInv /\ KeysAreHeard /\ OweInv /\ [NextEngine]_engineVars => OweInv'
<1> SUFFICES ASSUME EngineInv, KeysAreHeard, OweInv, [NextEngine]_engineVars PROVE OweInv'
  OBVIOUS
<1> USE EngineAssumption
<1>1. /\ EngineTypes /\ StatusRules /\ person \in [People -> Person] /\ live \subseteq Notices
      /\ hand \in [Hands -> Hand] /\ job \in Job /\ ticks \in Nat
      /\ JobOwes /\ unsent = {} /\ \A h \in Hands : HandOwes(h)
  BY DEF EngineInv, EngineTypes, OweInv
<1> DEFINE Handed == \A h \in Hands : HandOwes(h)'
<1>2. ASSUME Handed, JobOwes', UNCHANGED unsent PROVE OweInv'
  BY <1>1, <1>2 DEF OweInv
<1>3. NoHand.owed = {} /\ NoJob.owed = {}
  BY DEF NoHand, NoJob
<1>4. ASSUME NEW h \in Hands, hand'[h].owed = {} PROVE HandOwes(h)'
  BY <1>4 DEF HandOwes
<1>5. ASSUME job'.owed = {} PROVE JobOwes'
  BY <1>5 DEF JobOwes
<1>6. ASSUME NEW h \in Hands, NEW r, hand' = [hand EXCEPT ![h] = r]
      PROVE  hand'[h] = r /\ \A g \in Hands \ {h} : hand'[g] = hand[g]
  BY <1>1, <1>6
<1>7. CASE UNCHANGED engineVars
  <2>1. UNCHANGED <<person, live, opening, hand, job, keys, ticks, heard, unsent>>
    BY <1>7 DEF engineVars
  <2>2. Handed /\ JobOwes'
    BY <2>1, AllRest, TheJobRests, SamePeopleKept
  <2> QED
    BY <1>2, <2>1, <2>2
<1>8. ASSUME NEW h \in Hands, Register(h) PROVE OweInv'
  <2>1. PICK p \in People, f \in Sheets :
          /\ person[p].is = "free"
          /\ person' = [person EXCEPT ![p] = [NoPerson EXCEPT !.is = "row", !.origin = f]]
          /\ hand' = [hand EXCEPT ![h] = [NoHand EXCEPT !.at = "find", !.person = p,
                                                        !.owed = Owed(p, "pending", f)]]
    BY <1>8 DEF Register
  <2>2. UNCHANGED <<live, opening, job, keys, heard, unsent, ticks>>
    BY <1>8 DEF Register, Told, Turn
  <2> DEFINE owed == Owed(p, "pending", f)
             r == [NoHand EXCEPT !.at = "find", !.person = p, !.owed = owed]
  <2>3. /\ r.at = "find" /\ r.person = p /\ r.status = "pending" /\ r.owed = owed
        /\ hand' = [hand EXCEPT ![h] = r]
    BY <2>1 DEF NoHand
  <2>4. \A n \in owed : /\ n \in live /\ Sendable /\ NoticeOf[n].trigger = TRIGGER_MAP["pending"]
                        /\ NoticeOf[n].forms = {} \/ f \in NoticeOf[n].forms
    BY DEF Owed
  <2> HIDE DEF owed, r
  <2>5. hand'[h] = r /\ \A g \in Hands \ {h} : hand'[g] = hand[g]
    BY <1>6, <2>3
  <2>6. /\ person'[p].is = "row" /\ person'[p].origin = f
        /\ \A o \in People \ {p} : person'[o] = person[o]
    BY <1>1, <2>1 DEF NoPerson
  <2>7. \A o \in Registered : Kept(o) /\ person'[o].status = person[o].status
    BY <2>1, <2>2, <2>6 DEF Kept, Registered
  <2>8. HandOwes(h)'
    <3>1. \A n \in owed : FallsUnder(n, p, "pending")'
      BY <2>4, <2>6 DEF FallsUnder, matchesForm
    <3>2. p \in Registered'
      BY <2>6 DEF Registered
    <3>3. PICK s : s = "pending"
      OBVIOUS
    <3>4. \A n \in owed : FallsUnder(n, p, s)'
      BY <3>1, <3>3
    <3>5. Sendable' <=> Sendable
      BY <2>2 DEF Sendable
    <3> QED
      BY <2>2, <2>3, <2>4, <2>5, <3>1, <3>2, <3>5 DEF HandOwes, FallsUnder, matchesForm, responded
  <2> QED
    BY <1>1, <1>2, <2>2, <2>5, <2>7, <2>8, OthersRest, TheJobRests
<1>9. ASSUME NEW p \in People, AnswerSheet(p) PROVE OweInv'
  <2>1. PICK f \in Sheets : person' = [person EXCEPT ![p].answered = @ \cup {f}]
    BY <1>9 DEF AnswerSheet
  <2>2. UNCHANGED <<live, opening, hand, job, keys, heard, unsent, ticks>>
    BY <1>9 DEF AnswerSheet, Told, Turn
  <2>3. \A o \in Registered : Kept(o) /\ person'[o].status = person[o].status
    BY <1>1, <2>1, <2>2 DEF Kept, Registered, Person
  <2> QED
    BY <1>2, <2>2, <2>3, AllRest, TheJobRests
<1>10. ASSUME NEW h \in Hands, UNCHANGED <<person, live, opening, ticks, job>>,
              keys \subseteq keys', heard \subseteq heard',
              NEW r, hand' = [hand EXCEPT ![h] = r], HandOwes(h)'
       PROVE  Handed /\ JobOwes'
  <2>1. \A g \in Hands \ {h} : hand'[g] = hand[g]
    BY <1>6, <1>10
  <2> QED
    BY <1>1, <1>10, <2>1, OthersRest, TheJobRests, SamePeopleKept
<1>11. ASSUME NEW h \in Hands, ReadStatus(h) PROVE OweInv'
  <2>1. PICK p \in Registered, s \in DOMAIN TRIGGER_MAP :
          hand' = [hand EXCEPT ![h] = [NoHand EXCEPT !.at = "change", !.person = p, !.status = s]]
    BY <1>11 DEF ReadStatus
  <2>2. [NoHand EXCEPT !.at = "change", !.person = p, !.status = s].owed = {}
    BY DEF NoHand
  <2>3. HandOwes(h)'
    BY <1>4, <1>6, <2>1, <2>2
  <2> QED
    BY <1>2, <1>10, <1>11, <2>1, <2>3 DEF ReadStatus, Told, Turn
<1>12. ASSUME NEW h \in Hands, ChangeStatus(h) PROVE OweInv'
  <2>1. PICK p, s : p = hand[h].person /\ s = hand[h].status
    OBVIOUS
  <2>2. UNCHANGED <<live, opening, keys, heard, unsent, ticks>> /\ s \in StatusNames
    BY <1>1, <1>12, <2>1 DEF ChangeStatus, Told, Goes, Hand
  <2>3. CASE p \in Registered
    <3> DEFINE owed == Owed(p, s, person[p].origin)
               r == [hand[h] EXCEPT !.at = "find", !.owed = owed]
    <3>1. /\ person' = [person EXCEPT ![p].status = s]
          /\ hand' = [hand EXCEPT ![h].at = "find", ![h].owed = owed]
          /\ job' = IF s = "approved" THEN job ELSE [job EXCEPT !.owed = @ \ {p}]
      BY <1>12, <2>1, <2>3 DEF ChangeStatus
    <3>2. \A n \in owed : /\ n \in live /\ Sendable /\ NoticeOf[n].trigger = TRIGGER_MAP[s]
                          /\ FallsUnder(n, p, s)
      BY DEF Owed, FallsUnder, matchesForm, responded
    <3> HIDE DEF owed
    <3>3. /\ hand' = [hand EXCEPT ![h] = r] /\ r.at = "find" /\ r.person = p /\ r.status = s
          /\ r.owed = owed
      BY <1>1, <2>1, <3>1 DEF Hand
    <3> HIDE DEF r
    <3>4. hand'[h] = r /\ \A g \in Hands \ {h} : hand'[g] = hand[g]
      BY <1>6, <3>3
    <3>5. /\ person'[p] = [person[p] EXCEPT !.status = s]
          /\ \A o \in People \ {p} : person'[o] = person[o]
      BY <1>1, <2>3, <3>1 DEF Registered
    <3>6. p \in People /\ person[p].is = "row" /\ person[p] \in Person
      BY <1>1, <2>3 DEF Registered
    <3>7. /\ person'[p].is = "row" /\ person'[p].origin = person[p].origin
          /\ person'[p].answered = person[p].answered /\ person'[p].status = s
      BY <3>5, <3>6 DEF Person
    <3>8. \A o \in Registered : Kept(o)
      BY <2>2, <3>5, <3>7 DEF Kept, Registered
    <3>9. HandOwes(h)'
      <4>1. p \in Registered' /\ (Sendable' <=> Sendable)
        BY <2>2, <3>6, <3>7 DEF Registered, Sendable
      <4>2. \A n \in owed : FallsUnder(n, p, s)'
        BY <3>2, <3>7 DEF FallsUnder, matchesForm, responded
      <4> QED
        BY <2>2, <3>2, <3>3, <3>4, <4>1, <4>2 DEF HandOwes, FallsUnder, matchesForm, responded
    <3>10. JobOwes'
      <4>1. CASE s = "approved"
        <5>1. \A o \in job.owed : /\ Kept(o) /\ person'[o].status = "approved"
                                  /\ Sendable' /\ job.rule \in live'
          BY <1>1, <2>2, <3>5, <3>7, <3>8, <4>1 DEF JobOwes, Registered, Sendable
        <5> QED
          BY <1>1, <2>2, <3>1, <4>1, <5>1, JobRests
      <4>2. CASE s # "approved"
        <5>1. /\ job'.owed = job.owed \ {p} /\ job'.at = job.at /\ job'.rule = job.rule
              /\ job'.left = job.left
          BY <1>1, <3>1, <4>2 DEF Job
        <5>2. \A o \in job'.owed : /\ Kept(o) /\ person'[o].status = "approved"
                                   /\ Sendable' /\ job.rule \in live'
          BY <1>1, <2>2, <3>5, <3>8, <5>1 DEF JobOwes, Registered, Sendable
        <5> QED
          BY <1>1, <2>2, <5>1, <5>2, JobRests
      <4> QED
        BY <4>1, <4>2
    <3> QED
      BY <1>1, <1>2, <2>2, <3>4, <3>8, <3>9, <3>10, OthersRest
  <2>4. CASE p \notin Registered
    <3>1. hand' = [hand EXCEPT ![h] = NoHand] /\ UNCHANGED <<person, job>>
      BY <1>12, <2>1, <2>4 DEF ChangeStatus
    <3>2. HandOwes(h)'
      BY <1>3, <1>4, <1>6, <3>1
    <3> QED
      BY <1>2, <1>10, <2>2, <3>1, <3>2
  <2> QED
    BY <2>3, <2>4
<1>13. ASSUME NEW rules, NEW ps, Forgive(rules, ps), UNCHANGED <<ticks, heard>>,
              \A h \in Hands : hand[h].person \notin ps =>
                \A n \in hand[h].owed \ rules : Kept(hand[h].person) /\ Sendable' /\ n \in live',
              job.rule \notin rules =>
                \A p \in job.owed \ ps : /\ Kept(p) /\ person'[p].status = "approved"
                                         /\ Sendable' /\ job.rule \in live'
       PROVE  Handed /\ JobOwes'
  <2>1. ASSUME NEW h \in Hands PROVE HandOwes(h)'
    <3> DEFINE left == IF hand[h].person \in ps THEN {} ELSE hand[h].owed \ rules
    <3>1. hand'[h] = [hand[h] EXCEPT !.owed = left] /\ hand[h] \in Hand
      BY <1>1, <1>13 DEF Forgive
    <3>2. left \subseteq hand[h].owed /\ \A n \in left : Kept(hand[h].person) /\ Sendable' /\ n \in live'
      BY <1>13
    <3> HIDE DEF left
    <3>3. /\ hand'[h].owed = left /\ hand'[h].at = hand[h].at /\ hand'[h].person = hand[h].person
          /\ hand'[h].status = hand[h].status /\ hand'[h].rules = hand[h].rules
      BY <3>1 DEF Hand
    <3> QED
      BY <1>1, <3>2, <3>3, HandRests
  <2>2. JobOwes'
    <3> DEFINE left == IF job.rule \in rules THEN {} ELSE job.owed \ ps
    <3>1. job' = [job EXCEPT !.owed = left]
      BY <1>13 DEF Forgive
    <3>2. left \subseteq job.owed /\ \A p \in left : /\ Kept(p) /\ person'[p].status = "approved"
                                                     /\ Sendable' /\ job.rule \in live'
      BY <1>13
    <3> HIDE DEF left
    <3>3. /\ job'.owed = left /\ job'.at = job.at /\ job'.rule = job.rule /\ job'.left = job.left
      BY <1>1, <3>1 DEF Job
    <3> QED
      BY <1>1, <1>13, <3>2, <3>3, JobRests
  <2> QED
    BY <2>1, <2>2
<1>14. ASSUME NEW n \in Notices, SwitchRule(n) PROVE OweInv'
  <2>1. /\ Forgive({n}, {}) /\ UNCHANGED <<person, opening, keys, heard, unsent, ticks>>
        /\ live' = live \ {n} \/ live' = live \cup {n}
    BY <1>14 DEF SwitchRule, Turn, Told
  <2>2. /\ \A p \in Registered : Kept(p) /\ person'[p].status = person[p].status
        /\ Sendable' <=> Sendable
    BY <2>1, SamePeopleKept DEF Sendable
  <2>3. \A h \in Hands : \A m \in hand[h].owed \ {n} :
          Kept(hand[h].person) /\ Sendable' /\ m \in live'
    BY <1>1, <2>1, <2>2 DEF HandOwes
  <2>4. job.rule \notin {n} =>
          \A p \in job.owed : /\ Kept(p) /\ person'[p].status = "approved"
                              /\ Sendable' /\ job.rule \in live'
    BY <1>1, <2>1, <2>2 DEF JobOwes
  <2> QED
    BY <1>2, <1>13, <2>1, <2>3, <2>4
<1>15. CASE SwitchEvent
  <2>1. UNCHANGED <<person, live, keys, heard, unsent, ticks>>
    BY <1>15 DEF SwitchEvent, Turn, Told
  <2>2. \A p \in Registered : Kept(p) /\ person'[p].status = person[p].status
    BY <2>1, SamePeopleKept
  <2>3. CASE Sendable'
    <3>1. UNCHANGED <<hand, job>>
      BY <1>15, <2>3 DEF SwitchEvent
    <3>2. \A h \in Hands : HandOwes(h)'
      <4>1. SUFFICES ASSUME NEW h \in Hands PROVE HandOwes(h)'
        OBVIOUS
      <4>2. \A n \in hand[h].owed : Kept(hand[h].person) /\ Sendable' /\ n \in live'
        BY <1>1, <2>1, <2>2, <2>3 DEF HandOwes
      <4> QED
        BY <1>1, <3>1, <4>2, HandRests
    <3>3. JobOwes'
      <4>1. \A p \in job.owed : /\ Kept(p) /\ person'[p].status = "approved"
                                /\ Sendable' /\ job.rule \in live'
        BY <1>1, <2>1, <2>2, <2>3 DEF JobOwes
      <4> QED
        BY <1>1, <2>1, <3>1, <4>1, JobRests
    <3> QED
      BY <1>2, <2>1, <3>2, <3>3
  <2>4. CASE ~Sendable'
    <3>1. Forgive(Notices, People)
      BY <1>15, <2>4 DEF SwitchEvent
    <3>2. \A h \in Hands : hand[h].owed \ Notices = {}
      BY <1>1 DEF Hand
    <3>3. job.owed \ People = {}
      BY <1>1 DEF Job
    <3> QED
      BY <1>2, <1>13, <2>1, <3>1, <3>2, <3>3
  <2> QED
    BY <2>3, <2>4
<1>16. ASSUME NEW p \in People, DeletePerson(p) PROVE OweInv'
  <2>1. /\ person' = [person EXCEPT ![p].is = "gone"] /\ keys' = {k \in keys : k[1] # p}
        /\ Forgive({}, {p}) /\ UNCHANGED <<live, opening, heard, unsent, ticks>>
    BY <1>16 DEF DeletePerson, Turn
  <2>2. \A o \in People \ {p} : person'[o] = person[o]
    BY <1>1, <2>1
  <2>3. \A o \in Registered \ {p} : Kept(o) /\ person'[o].status = person[o].status
    BY <2>1, <2>2 DEF Kept, Registered
  <2>4. Sendable' <=> Sendable
    BY <2>1 DEF Sendable
  <2>5. \A h \in Hands : hand[h].person \notin {p} =>
          \A n \in hand[h].owed : Kept(hand[h].person) /\ Sendable' /\ n \in live'
    BY <1>1, <2>1, <2>3, <2>4 DEF HandOwes
  <2>6. \A o \in job.owed \ {p} : /\ Kept(o) /\ person'[o].status = "approved"
                                  /\ Sendable' /\ job.rule \in live'
    BY <1>1, <2>1, <2>3, <2>4 DEF JobOwes
  <2> QED
    BY <1>2, <1>13, <2>1, <2>5, <2>6
<1>17. ASSUME NEW h \in Hands, FindRules(h) \/ FilterRules(h) \/ FireRules(h) PROVE OweInv'
  <2>1. /\ UNCHANGED <<person, live, opening, job, keys, heard, unsent, ticks>>
        /\ Registered' = Registered /\ (Sendable' <=> Sendable)
    BY <1>17 DEF FindRules, FilterRules, FireRules, Told, Goes, Registered, Sendable
  <2>2. PICK p, s, owed : p = hand[h].person /\ s = hand[h].status /\ owed = hand[h].owed
    OBVIOUS
  <2>8. PICK at \in {"filter", "fire", "enqueue"} :
          \E ns : /\ hand' = [hand EXCEPT ![h] = [hand[h] EXCEPT !.at = at, !.rules = ns]]
                  /\ owed \subseteq ns
    <3>1. \A n \in owed : /\ p \in Registered /\ Sendable /\ n \in live
                          /\ NoticeOf[n].trigger = TRIGGER_MAP[s] /\ FallsUnder(n, p, s)
                          /\ hand[h].at \in {"filter", "fire"} => n \in hand[h].rules
      BY <1>1, <2>2 DEF HandOwes
    <3>2. CASE FindRules(h)
      <4> DEFINE ns == {n \in live : NoticeOf[n].trigger = TRIGGER_MAP[s]}
      <4>1. hand' = [hand EXCEPT ![h] = [hand[h] EXCEPT !.at = "filter", !.rules = ns]]
        BY <1>1, <2>2, <3>2 DEF FindRules
      <4>2. owed \subseteq ns
        BY <3>1
      <4> HIDE DEF ns
      <4> QED
        BY <4>1, <4>2
    <3>3. CASE FilterRules(h)
      <4> DEFINE ns == filterRulesByForm(hand[h].rules, p, s)
      <4>1. hand' = [hand EXCEPT ![h] = [hand[h] EXCEPT !.at = "fire", !.rules = ns]]
        BY <1>1, <2>2, <3>3 DEF FilterRules
      <4>2. hand[h].at = "filter"
        BY <3>3 DEF FilterRules
      <4>3. owed \subseteq ns
        BY <3>1, <4>2 DEF filterRulesByForm, FallsUnder
      <4> HIDE DEF ns
      <4> QED
        BY <4>1, <4>3
    <3>4. CASE FireRules(h)
      <4> DEFINE ns == IF p \in Registered /\ Sendable THEN hand[h].rules \cap live ELSE {}
      <4>1. hand' = [hand EXCEPT ![h] = [hand[h] EXCEPT !.at = "enqueue", !.rules = ns]]
        BY <1>1, <2>2, <3>4 DEF FireRules
      <4>2. hand[h].at = "fire"
        BY <3>4 DEF FireRules
      <4>3. owed \subseteq ns
        BY <3>1, <4>2
      <4> HIDE DEF ns
      <4> QED
        BY <4>1, <4>3
    <3> QED
      BY <1>17, <3>2, <3>3, <3>4
  <2>3. PICK ns : /\ hand' = [hand EXCEPT ![h] = [hand[h] EXCEPT !.at = at, !.rules = ns]]
                  /\ owed \subseteq ns
    BY <2>8
  <2> DEFINE r == [hand[h] EXCEPT !.at = at, !.rules = ns]
  <2>4. r.at = at /\ r.person = p /\ r.status = s /\ r.rules = ns /\ r.owed = owed
    BY <1>1, <2>2 DEF Hand
  <2>5. hand' = [hand EXCEPT ![h] = r]
    BY <2>3
  <2> HIDE DEF r
  <2>6. hand'[h] = r
    BY <1>6, <2>5
  <2>7. HandOwes(h)'
    <3>1. \A n \in owed : /\ p \in Registered /\ Sendable /\ n \in live
                          /\ NoticeOf[n].trigger = TRIGGER_MAP[s] /\ FallsUnder(n, p, s)
      BY <1>1, <2>2 DEF HandOwes
    <3>2. \A n \in owed : FallsUnder(n, p, s)'
      BY <2>1, <3>1 DEF FallsUnder, matchesForm, responded
    <3> QED
      <4>1. SUFFICES ASSUME NEW n \in owed
                     PROVE  /\ p \in Registered' /\ Sendable' /\ n \in live'
                            /\ NoticeOf[n].trigger = TRIGGER_MAP[s] /\ FallsUnder(n, p, s)'
                            /\ n \in ns
        BY <2>4, <2>6 DEF HandOwes, FallsUnder, matchesForm, responded
      <4> QED
        BY <2>1, <2>3, <3>1, <3>2
  <2> QED
    BY <1>2, <1>10, <2>1, <2>5, <2>7
<1>18. ASSUME NEW h \in Hands, EnqueueNotice(h) PROVE OweInv'
  <2>1. PICK p, owed, ns, s : /\ p = hand[h].person /\ owed = hand[h].owed /\ ns = hand[h].rules
                              /\ s = hand[h].status
    OBVIOUS
  <2>2. PICK n \in ns :
          /\ hand[h].at = "enqueue" /\ Enqueued(StatusKey(p, n), StatusKey(p, n))
          /\ hand' = [hand EXCEPT ![h].rules = @ \ {n}]
    BY <1>18, <2>1 DEF EnqueueNotice
  <2>3. /\ UNCHANGED <<person, live, opening, job, unsent, ticks>>
        /\ Registered' = Registered /\ (Sendable' <=> Sendable)
    BY <1>18 DEF EnqueueNotice, Goes, Registered, Sendable
  <2>4. /\ keys \subseteq keys' /\ heard \subseteq heard'
        /\ p \in Registered => StatusKey(p, n) \in keys'
    BY <2>2, EnqueuedKeeps DEF StatusKey
  <2> DEFINE left == ns \ {n}
             r == [hand[h] EXCEPT !.rules = left]
  <2>5. hand' = [hand EXCEPT ![h] = r]
    BY <1>1, <2>1, <2>2
  <2>6. r.at = "enqueue" /\ r.person = p /\ r.status = s /\ r.rules = left /\ r.owed = owed
    BY <1>1, <2>1, <2>2 DEF Hand
  <2> HIDE DEF r
  <2>7. hand'[h] = r
    BY <1>6, <2>5
  <2>8. \A m \in owed : /\ p \in Registered /\ Sendable /\ m \in live
                        /\ NoticeOf[m].trigger = TRIGGER_MAP[s] /\ FallsUnder(m, p, s)
                        /\ m \in ns \/ StatusKey(p, m) \in keys
    BY <1>1, <2>1, <2>2 DEF HandOwes
  <2>9. \A m \in owed : /\ FallsUnder(m, p, s)'
                        /\ m \in left \/ StatusKey(p, m) \in keys'
    BY <2>3, <2>4, <2>8 DEF FallsUnder, matchesForm, responded
  <2>10. HandOwes(h)'
    BY <2>3, <2>6, <2>7, <2>8, <2>9 DEF HandOwes, FallsUnder, matchesForm, responded, StatusKey
  <2> QED
    BY <1>2, <1>10, <2>3, <2>4, <2>5, <2>10
<1>19. ASSUME NEW h \in Hands, HandEnds(h) PROVE OweInv'
  <2>1. \A n \in hand[h].owed : StatusKey(hand[h].person, n) \in keys
    BY <1>1, <1>19 DEF HandOwes, HandEnds
  <2>2. UNCHANGED unsent
    BY <1>1, <1>19, <2>1 DEF HandEnds
  <2>3. HandOwes(h)'
    BY <1>3, <1>4, <1>6, <1>19 DEF HandEnds
  <2> QED
    BY <1>2, <1>10, <1>19, <2>2, <2>3 DEF HandEnds, Goes
<1>20. ASSUME NEW h \in Hands, HandFails(h) PROVE OweInv'
  <2>1. HandOwes(h)'
    BY <1>3, <1>4, <1>6, <1>20 DEF HandFails
  <2> QED
    BY <1>2, <1>10, <1>20, <2>1 DEF HandFails, Mishap, Told
<1>21. ASSUME UNCHANGED <<hand, person, live, opening, unsent>>, keys \subseteq keys', JobOwes'
       PROVE  OweInv'
  BY <1>2, <1>21, AllRest, SamePeopleKept
<1>22. ASSUME NEW n \in Notices, Tick(n) PROVE OweInv'
  <2>1. /\ job' = [NoJob EXCEPT !.at = "start", !.rule = n, !.owed = OwedRecurring(n)]
        /\ UNCHANGED <<person, live, opening, hand, keys, heard, unsent>>
    BY <1>22 DEF Tick, Told
  <2> DEFINE owed == OwedRecurring(n)
  <2>2. \A p \in owed : /\ p \in Registered /\ Sendable /\ n \in live
                        /\ person[p].status = "approved" /\ responded(n, p)
    BY DEF OwedRecurring, responded
  <2> HIDE DEF owed
  <2>3. job'.at = "start" /\ job'.rule = n /\ job'.owed = owed
    BY <2>1 DEF NoJob, owed
  <2>4. Registered' = Registered /\ (Sendable' <=> Sendable)
    BY <2>1 DEF Registered, Sendable
  <2>5. JobOwes'
    BY <2>1, <2>2, <2>3, <2>4 DEF JobOwes, responded
  <2> QED
    BY <1>21, <2>1, <2>5
<1>23. CASE JobReads
  <2>1. UNCHANGED <<person, live, opening, hand, keys, heard, unsent>> /\ job.at = "start"
    BY <1>23 DEF JobReads, Told
  <2>2. Registered' = Registered /\ (Sendable' <=> Sendable)
    BY <2>1 DEF Registered, Sendable
  <2> DEFINE ps == {p \in Registered : /\ job.rule \in live /\ person[p].status = "approved"
                                       /\ responded(job.rule, p)}
  <2>3. CASE Goes /\ job' = [job EXCEPT !.at = "run", !.left = ps]
    <3>1. \A p \in job.owed : /\ p \in Registered /\ Sendable /\ job.rule \in live
                              /\ person[p].status = "approved" /\ responded(job.rule, p) /\ p \in ps
      BY <1>1 DEF JobOwes
    <3> HIDE DEF ps
    <3>2. /\ job'.at = "run" /\ job'.left = ps /\ job'.owed = job.owed /\ job'.rule = job.rule
      BY <1>1, <2>3 DEF Job
    <3>3. JobOwes'
      BY <2>1, <2>2, <3>1, <3>2 DEF JobOwes, responded
    <3> QED
      BY <1>21, <2>1, <3>3
  <2>4. CASE job' = NoJob
    BY <1>3, <1>5, <1>21, <2>1, <2>4
  <2> QED
    BY <1>23, <2>3, <2>4 DEF JobReads
<1>24. ASSUME NEW p \in People, JobFires(p) PROVE OweInv'
  <2> DEFINE key(x) == <<p, NoticeOf[job.rule].template, "recurring", x>>
             rest == [job EXCEPT !.left = @ \ {p}]
  <2>1. /\ UNCHANGED <<person, live, opening, hand, unsent, ticks>> /\ job.at = "run"
        /\ Registered' = Registered /\ (Sendable' <=> Sendable)
    BY <1>24 DEF JobFires, Goes, Mishap, Registered, Sendable
  <2>2. /\ rest.at = "run" /\ rest.rule = job.rule /\ rest.owed = job.owed
        /\ rest.left = job.left \ {p}
        /\ [rest EXCEPT !.owed = @ \ {p}].at = "run" /\ [rest EXCEPT !.owed = @ \ {p}].rule = job.rule
        /\ [rest EXCEPT !.owed = @ \ {p}].owed = job.owed \ {p}
        /\ [rest EXCEPT !.owed = @ \ {p}].left = job.left \ {p}
    BY <1>1, <2>1 DEF Job
  <2>3. \/ /\ job' = rest
           /\ IF p \in Registered /\ job.rule \in live /\ Sendable
              THEN Enqueued(key(10 * ticks), key(ticks)) ELSE UNCHANGED <<keys, heard, twice>>
        \/ job' = [rest EXCEPT !.owed = @ \ {p}] /\ UNCHANGED <<keys, heard, twice>>
    BY <1>24 DEF JobFires, occurrenceKey
  <2> HIDE DEF rest
  <2>4. /\ job'.at = "run" /\ job'.rule = job.rule /\ job'.left = job.left \ {p}
        /\ job'.owed \subseteq job.owed
    BY <2>2, <2>3
  <2>5. keys \subseteq keys' /\ heard \subseteq heard'
    BY <2>3, EnqueuedKeeps
  <2>6. ASSUME p \in job'.owed PROVE key(ticks) \in heard'
    <3>1. p \in job.owed /\ p \in Registered /\ job.rule \in live /\ Sendable
      BY <1>1, <2>4, <2>6 DEF JobOwes
    <3>2. Enqueued(key(10 * ticks), key(ticks))
      BY <2>2, <2>3, <2>6, <3>1
    <3>3. CASE key(10 * ticks) \notin keys
      BY <3>1, <3>2, <3>3 DEF Enqueued
    <3>4. CASE key(10 * ticks) \in keys
      <4>1. PICK o \in heard : key(10 * ticks) = KeyOf(o)
        BY <3>4 DEF KeysAreHeard
      <4>2. o \in Occasions
        BY <4>1 DEF KeysAreHeard
      <4>3. PICK x, t, g, i : i \in Nat /\ o = <<x, t, g, i>>
        BY <4>2 DEF Occasions
      <4>4. g = "recurring"
        BY <4>1, <4>3 DEF KeyOf
      <4>5. x = p /\ t = NoticeOf[job.rule].template /\ 10 * i = 10 * ticks
        BY <4>1, <4>3, <4>4 DEF KeyOf
      <4>6. i \in Nat /\ ticks \in Nat /\ 10 * i = 10 * ticks
        BY <1>1, <4>3, <4>5
      <4>7. i = ticks
        BY <4>6, TenTimes
      <4> QED
        BY <2>5, <4>3, <4>4, <4>5, <4>7
    <3> QED
      BY <3>3, <3>4
  <2> HIDE DEF key
  <2>7. JobOwes'
    <3>1. SUFFICES ASSUME NEW o \in job'.owed
                   PROVE  /\ o \in Registered /\ Sendable /\ job.rule \in live
                          /\ person[o].status = "approved" /\ responded(job.rule, o)
                          /\ o \in job'.left
                               \/ <<o, NoticeOf[job.rule].template, "recurring", ticks>> \in heard'
      BY <2>1, <2>4 DEF JobOwes, responded
    <3>2. /\ o \in Registered /\ Sendable /\ job.rule \in live
          /\ person[o].status = "approved" /\ responded(job.rule, o)
          /\ o \in job.left \/ <<o, NoticeOf[job.rule].template, "recurring", ticks>> \in heard
      BY <1>1, <2>1, <2>4, <3>1 DEF JobOwes
    <3>3. CASE o = p
      BY <2>6, <3>1, <3>2, <3>3 DEF key
    <3>4. CASE o # p
      BY <2>4, <2>5, <3>2, <3>4
    <3> QED
      BY <3>3, <3>4
  <2> QED
    BY <1>21, <2>1, <2>5, <2>7
<1>25. CASE JobEnds
  <2>1. \A p \in job.owed : <<p, NoticeOf[job.rule].template, "recurring", ticks>> \in heard
    BY <1>1, <1>25 DEF JobOwes, JobEnds
  <2>2. UNCHANGED unsent /\ job' = NoJob /\ UNCHANGED <<person, live, opening, hand, keys, heard>>
    BY <1>1, <1>25, <2>1 DEF JobEnds
  <2> QED
    BY <1>3, <1>5, <1>21, <2>2
<1>26. CASE EngineDies
  <2>1. UNCHANGED <<person, live, opening, keys, heard, unsent, ticks>>
    BY <1>26 DEF EngineDies, Told, Mishap
  <2>2. Handed
    BY <1>3, <1>4, <1>26 DEF EngineDies
  <2>3. Registered' = Registered /\ (Sendable' <=> Sendable)
    BY <2>1 DEF Registered, Sendable
  <2>4. JobOwes'
    <3>1. CASE job' = NoJob
      BY <1>3, <1>5, <3>1
    <3>2. CASE job.at # "idle" /\ job' = [job EXCEPT !.at = "start", !.run = 1, !.left = {}]
      <4>1. job'.at = "start" /\ job'.owed = job.owed /\ job'.rule = job.rule
        BY <1>1, <3>2 DEF Job
      <4> QED
        BY <1>1, <2>1, <2>3, <4>1 DEF JobOwes, responded
    <3> QED
      BY <1>26, <3>1, <3>2 DEF EngineDies
  <2> QED
    BY <1>2, <2>1, <2>2, <2>4
<1> QED
  BY <1>7, <1>8, <1>9, <1>11, <1>12, <1>14, <1>15, <1>16, <1>17, <1>18, <1>19, <1>20, <1>22,
     <1>23, <1>24, <1>25, <1>26 DEF NextEngine

-----------------------------------------------------------------------------
OwedInv == EngineInv /\ KeysAreHeard /\ OweInv /\ opening \in {"draft", "published", "cancelled", "ended"}
           /\ {turns, mishaps} \subseteq Nat

LEMMA InitOwed == InitEngine => OwedInv
<1> SUFFICES ASSUME InitEngine PROVE OwedInv
  OBVIOUS
<1>1. KeysAreHeard /\ OweInv
  BY DEF InitEngine, KeysAreHeard, OweInv, HandOwes, JobOwes, NoHand, NoJob
<1> QED
  BY <1>1, InitEngineInv DEF OwedInv, InitEngine

LEMMA StepCounts ==
  /\ opening \in {"draft", "published", "cancelled", "ended"} /\ {turns, mishaps} \subseteq Nat
  /\ [NextEngine]_engineVars
  => (opening \in {"draft", "published", "cancelled", "ended"} /\ {turns, mishaps} \subseteq Nat)'
<1> SUFFICES ASSUME opening \in {"draft", "published", "cancelled", "ended"}, {turns, mishaps} \subseteq Nat,
                    [NextEngine]_engineVars
             PROVE  (opening \in {"draft", "published", "cancelled", "ended"} /\ {turns, mishaps} \subseteq Nat)'
  OBVIOUS
<1>1. CASE SwitchEvent
  BY <1>1 DEF SwitchEvent, Turn
<1>2. CASE UNCHANGED engineVars
  BY <1>2 DEF engineVars
<1>3. CASE NextEngine /\ ~SwitchEvent
  <2>1. UNCHANGED opening
    BY <1>3 DEF NextEngine, Register, AnswerSheet, ChangeStatus, ReadStatus, FindRules, FilterRules,
       FireRules, EnqueueNotice, HandEnds, HandFails, SwitchRule, Tick, DeletePerson, JobReads,
       JobFires, JobEnds, EngineDies
  <2>2. \/ Turn \/ Mishap \/ Goes \/ UNCHANGED <<turns, mishaps>>
    BY <1>3 DEF NextEngine, Register, AnswerSheet, ChangeStatus, ReadStatus, FindRules, FilterRules,
       FireRules, EnqueueNotice, HandEnds, HandFails, SwitchRule, Tick, DeletePerson, JobReads,
       JobFires, JobEnds, EngineDies
  <2> QED
    BY <2>1, <2>2 DEF Turn, Mishap, Goes
<1> QED
  BY <1>1, <1>2, <1>3

LEMMA OwedAlways == SpecEngine => []OwedInv
<1>1. OwedInv /\ [NextEngine]_engineVars => OwedInv'
  <2> SUFFICES ASSUME OwedInv, [NextEngine]_engineVars PROVE OwedInv'
    OBVIOUS
  <2>1. EngineInv /\ KeysAreHeard /\ OweInv
    BY DEF OwedInv
  <2>2. EngineInv'
    BY <2>1, StepEngineTypes, StepOnce DEF EngineInv
  <2>3. KeysAreHeard' /\ OweInv'
    BY <2>1, StepKeysAreHeard, StepOweInv DEF EngineInv
  <2> QED
    BY <2>2, <2>3, StepCounts DEF OwedInv
<1> QED
  BY <1>1, InitOwed, PTL DEF SpecEngine

\* The registrations, rules, requests and occurrences are always of their types.
THEOREM EngineTyped == SpecEngine => []TypeOKEngine
<1>1. OwedInv => TypeOKEngine
  <2> SUFFICES ASSUME OwedInv PROVE TypeOKEngine
    OBVIOUS
  <2>1. EngineTypes /\ heard \subseteq Occasions /\ twice = {} /\ unsent = {} /\ keys \subseteq Occasions
    <3>1. ASSUME NEW k \in keys PROVE k \in Occasions
      <4>1. PICK o \in heard : k = KeyOf(o)
        BY DEF OwedInv, KeysAreHeard
      <4>2. o \in Occasions
        BY DEF OwedInv, KeysAreHeard
      <4> DEFINE T == {NoticeOf[n].template : n \in Notices}
                 G == StatusTriggers \cup {"recurring"}
      <4> HIDE DEF T, G
      <4>3. PICK p, t, g, i : /\ p \in People /\ t \in T /\ g \in G /\ i \in Nat
                              /\ o = <<p, t, g, i>>
        BY <4>2 DEF Occasions, T, G
      <4>4. 10 * i \in Nat
        BY <4>3, TenTimes
      <4>5. k = <<p, t, g, i>> \/ k = <<p, t, g, 10 * i>>
        BY <4>1, <4>3 DEF KeyOf
      <4> QED
        BY <4>3, <4>4, <4>5 DEF Occasions, T, G
    <3> QED
      BY <3>1 DEF OwedInv, EngineInv, OncePerOccasion, KeysAreHeard, OweInv
  <2> QED
    BY <2>1 DEF OwedInv, EngineTypes, TypeOKEngine, Occasions, Person, Hand, Job, StatusNames
<1> QED
  BY <1>1, OwedAlways, PTL

\* Whatever is read again, answered late or run again after a crash, whoever is owed a
\* message has it when the handler or the job is through.
THEOREM NobodyIsForgotten == SpecEngine => []NobodyIsPassedOver
<1>1. OwedInv => NobodyIsPassedOver
  BY DEF OwedInv, OweInv, NobodyIsPassedOver
<1> QED
  BY <1>1, OwedAlways, PTL

-----------------------------------------------------------------------------
(* Numbers: the least of a set, and remainders. *)

LEMMA LeastOf ==
  ASSUME NEW S, S # {}, \A p \in S : p \in Nat
  PROVE  \E p \in S : \A o \in S : p <= o
<1> DEFINE below(p) == 1 .. p
           T == {below(p) : p \in S}
<1>1. T \subseteq FiniteSubsetsOf(Nat) /\ T # {}
  <2>1. ASSUME NEW p \in S PROVE below(p) \in FiniteSubsetsOf(Nat)
    <3>1. IsFiniteSet(1 .. p)
      BY FS_Interval
    <3>2. 1 .. p \in SUBSET Nat
      OBVIOUS
    <3> QED
      BY <3>1, <3>2 DEF FiniteSubsetsOf
  <2> QED
    BY <2>1
<1>2. IsWellFoundedOn(StrictSubsetOrdering(Nat), FiniteSubsetsOf(Nat))
  BY FS_StrictSubsetOrderingWellFounded
<1> HIDE DEF T
<1>3. \E A \in T : \A B \in T : ~ (<<B, A>> \in StrictSubsetOrdering(Nat))
  BY <1>1, <1>2, WFMin
<1>4. PICK p \in S : \A B \in T : ~ (<<B, below(p)>> \in StrictSubsetOrdering(Nat))
  BY <1>3 DEF T
<1>5. ASSUME NEW o \in S, o < p PROVE FALSE
  <2>1. below(o) \subseteq below(p) /\ p \in below(p) /\ p \notin below(o)
    BY <1>5
  <2>2. below(o) \in T /\ below(o) \in SUBSET Nat /\ below(p) \in SUBSET Nat
    BY DEF T
  <2>3. <<below(o), below(p)>> \in StrictSubsetOrdering(Nat)
    BY <2>1, <2>2 DEF StrictSubsetOrdering
  <2> QED
    BY <1>4, <2>2, <2>3
<1> QED
  BY <1>5

LEMMA Remainder ==
  ASSUME NEW b \in Nat \ {0}, NEW q \in Int, NEW r \in 0 .. b - 1
  PROVE  (b * q + r) % b = r
OBVIOUS

LEMMA Division ==
  ASSUME NEW n \in Nat, NEW b \in Nat \ {0}
  PROVE  \E q \in Nat, r \in 0 .. b - 1 : n = b * q + r /\ n % b = r
<1> DEFINE rest == {m \in Nat : \E q \in Nat : n = b * q + m}
<1>1. n = b * 0 + n
  OBVIOUS
<1>2. n \in rest
  BY <1>1
<1>3. PICK r \in rest : \A m \in rest : r <= m
  <2>1. \A m \in rest : m \in Nat
    OBVIOUS
  <2> QED
    BY <1>2, <2>1, LeastOf
<1>4. PICK q \in Nat : n = b * q + r
  OBVIOUS
<1>5. r < b
  <2> SUFFICES ASSUME r >= b PROVE FALSE
    OBVIOUS
  <2>1. r - b \in Nat /\ b * (q + 1) = b * q + b
    OBVIOUS
  <2>2. n = b * (q + 1) + (r - b)
    BY <1>4, <2>1
  <2>3. r - b \in rest
    BY <2>1, <2>2
  <2> QED
    BY <1>3, <2>1, <2>3, r <= r - b
<1>6. r \in 0 .. b - 1
  BY <1>5
<1>7. n % b = r
  BY <1>4, <1>6, Remainder
<1> QED
  BY <1>4, <1>6, <1>7

\* The remainder goes up by one, and from the last one back to zero.
LEMMA RemainderNext ==
  ASSUME NEW n \in Nat, NEW b \in Nat \ {0}
  PROVE  /\ n % b \in 0 .. b - 1
         /\ (n + 1) % b = IF (n % b) + 1 = b THEN 0 ELSE (n % b) + 1
<1>1. PICK q \in Nat, r \in 0 .. b - 1 : n = b * q + r /\ n % b = r
  BY Division
<1>2. CASE r + 1 = b
  <2>1. b * (q + 1) = b * q + b
    OBVIOUS
  <2>2. n + 1 = b * (q + 1) + 0 /\ 0 \in 0 .. b - 1 /\ q + 1 \in Int
    BY <1>1, <1>2, <2>1
  <2> HIDE <2>1
  <2>3. (b * (q + 1) + 0) % b = 0
    BY <2>2, Remainder
  <2> QED
    BY <1>1, <1>2, <2>2, <2>3
<1>3. CASE r + 1 # b
  <2>1. n + 1 = b * q + (r + 1) /\ r + 1 \in 0 .. b - 1
    BY <1>1, <1>3
  <2>2. (b * q + (r + 1)) % b = r + 1
    BY <2>1, q \in Int, Remainder
  <2> QED
    BY <1>1, <1>3, <2>1, <2>2
<1> QED
  BY <1>2, <1>3

LEMMA Multiples ==
  ASSUME NEW r \in Nat, NEW w \in Nat, NEW b \in Nat, r <= b
  PROVE  (r + 1) * w = r * w + w /\ r * w <= b * w /\ r * w \in Nat
OBVIOUS

-----------------------------------------------------------------------------
(* Manual sends: ManualSend. *)

Batching == [at : {"idle", "send", "answered"}, input : SendInputs \cup {None},
             left : SUBSET Nat, queued : Nat, batch : Nat, inner : Nat]

\* How many of its batch a send has queued.
InBatch(n) == IF n = 0 THEN 0 ELSE IF n % BatchSize = 0 THEN BatchSize ELSE n % BatchSize

\* The loop of a send: whom it still serves, and how far the delays have gone.
Loop(s) ==
  /\ batching[s].at = "idle" => \A m \in outbox : m.send # s
  /\ batching[s].at = "send" =>
       /\ batching[s].input \in SendInputs
       /\ batching[s].left \subseteq ServedPlaces(batching[s].input.people)
       /\ batching[s].inner <= InBatch(batching[s].queued) * WaMaxDelay
       /\ \A m \in outbox : m.send = s =>
            /\ m.channel = batching[s].input.channel
            /\ \A p \in batching[s].left : batching[s].input.people[p] # m.target
            /\ m.channel = "whatsapp" =>
                 m.plan <= (IF gate THEN slot ELSE now + batching[s].inner) + batching[s].batch

SendInv == TypeOKSend /\ ManualSpacing /\ \A s \in SendIds : Loop(s)

-----------------------------------------------------------------------------
LEMMA SendTypes ==
  TypeOKSend <=>
    /\ gate \in BOOLEAN /\ now \in Nat /\ slot \in Nat /\ breaks \in Nat
    /\ batching \in [SendIds -> Batching]
    /\ \A m \in outbox : m.send \in SendIds /\ m.target # None /\ m.plan \in Nat
BY DEF TypeOKSend, Batching

LEMMA SendBlanks ==
  /\ NoSend \in Batching /\ NoSend.at = "idle"
  /\ [NoSend EXCEPT !.at = "answered"] \in Batching
  /\ [NoSend EXCEPT !.at = "answered"].at = "answered"
BY DEF NoSend, Batching

LEMMA InBatchNext ==
  ASSUME NEW n \in Nat
  PROVE  /\ InBatch(n) \in 0 .. BatchSize
         /\ InBatch(n + 1) = IF n > 0 /\ n % BatchSize = 0 THEN 1 ELSE InBatch(n) + 1
         /\ InBatch(n + 1) <= BatchSize
<1>1. BatchSize \in Nat \ {0}
  BY SettingsAssumption
<1>2. /\ n % BatchSize \in 0 .. BatchSize - 1
      /\ (n + 1) % BatchSize = IF (n % BatchSize) + 1 = BatchSize THEN 0 ELSE (n % BatchSize) + 1
  BY <1>1, RemainderNext
<1>3. 0 % BatchSize = 0
  <2>1. BatchSize * 0 + 0 = 0 /\ 0 \in 0 .. BatchSize - 1 /\ 0 \in Int
    BY <1>1
  <2>2. (BatchSize * 0 + 0) % BatchSize = 0
    BY <1>1, <2>1, Remainder
  <2> QED
    BY <2>1, <2>2
<1> DEFINE k == n % BatchSize
           l == (n + 1) % BatchSize
<1>4. /\ k \in 0 .. BatchSize - 1 /\ l = (IF k + 1 = BatchSize THEN 0 ELSE k + 1)
      /\ (n = 0 => k = 0)
      /\ InBatch(n) = (IF n = 0 THEN 0 ELSE IF k = 0 THEN BatchSize ELSE k)
      /\ InBatch(n + 1) = (IF l = 0 THEN BatchSize ELSE l)
  BY <1>2, <1>3 DEF InBatch
<1> HIDE DEF k, l
<1>5. InBatch(n + 1) = IF n > 0 /\ k = 0 THEN 1 ELSE InBatch(n) + 1
  BY <1>1, <1>4
<1> QED
  BY <1>1, <1>4, <1>5 DEF k

LEMMA InitSendInv == InitSend => SendInv
<1> SUFFICES ASSUME InitSend PROVE SendInv
  OBVIOUS
<1>1. TypeOKSend
  BY SendBlanks, SendTypes DEF InitSend
<1>2. ManualSpacing /\ \A s \in SendIds : Loop(s)
  BY SendBlanks DEF InitSend, ManualSpacing, Loop
<1> QED
  BY <1>1, <1>2 DEF SendInv

\* What the loop is about to serve.
LEMMA NextServed ==
  ASSUME SendInv, NEW s \in SendIds, Serves(s)
  PROVE  /\ NextPlace(s) \in batching[s].left /\ batching[s].input.people[NextPlace(s)] # None
         /\ \A p \in batching[s].left \ {NextPlace(s)} :
              batching[s].input.people[p] # batching[s].input.people[NextPlace(s)]
<1> DEFINE people == batching[s].input.people
<1>1. /\ batching[s] \in Batching /\ batching[s].at = "send" /\ batching[s].left # {}
      /\ batching[s].input \in SendInputs /\ batching[s].left \subseteq ServedPlaces(people)
  BY SendTypes DEF SendInv, Serves, Loop
<1>2. \A p \in batching[s].left : p \in Nat
  BY <1>1 DEF Batching
<1>3. \E p \in batching[s].left : \A o \in batching[s].left : p <= o
  BY <1>1, <1>2, LeastOf
<1>4. NextPlace(s) \in batching[s].left
  BY <1>3 DEF NextPlace
<1>5. \A p \in batching[s].left : /\ p \in DOMAIN people /\ people[p] # None
                                  /\ \A o \in 1 .. p - 1 : people[o] # people[p]
  BY <1>1 DEF ServedPlaces
<1>6. ASSUME NEW p \in batching[s].left, p # NextPlace(s) PROVE people[p] # people[NextPlace(s)]
  <2>1. p \in Nat \ {0} /\ NextPlace(s) \in Nat \ {0}
    BY <1>1, <1>4, <1>5, <1>6, InputsAssumption
  <2>2. p \in 1 .. NextPlace(s) - 1 \/ NextPlace(s) \in 1 .. p - 1
    BY <1>6, <2>1
  <2> QED
    BY <1>4, <1>5, <1>6, <2>2
<1> QED
  BY <1>4, <1>5, <1>6

-----------------------------------------------------------------------------
LEMMA NoLater ==
  ASSUME NEW x \in Nat, NEW y \in Nat, NEW z \in Nat, NEW w \in Nat, x <= y, y <= z + w
  PROVE  x <= z + w
OBVIOUS

\* One more message: later than the others of its send, to somebody else.
LEMMA QueueHolds ==
  ASSUME SendInv, NEW s \in SendIds, Serves(s), slot' \in Nat,
         NEW b \in Nat, NEW d \in Nat, NEW plan \in Nat, Queue(s, b, d, plan),
         NEW edge \in Nat, edge = IF gate THEN slot' ELSE now + d,
         d <= InBatch(batching[s].queued + 1) * WaMaxDelay,
         \A m \in outbox : m.send = s /\ WhatsApp(s) =>
            m.plan + (IF gate THEN PaceMin ELSE WaMinDelay) <= plan,
         WhatsApp(s) => plan <= edge + b,
         gate => slot' >= slot
  PROVE  SendInv'
<1> DEFINE old == batching[s]
           input == old.input
           p == NextPlace(s)
           new == [send |-> s, target |-> input.people[p], channel |-> input.channel, plan |-> plan]
           run == [batching[s] EXCEPT !.left = batching[s].left \ {p},
                     !.queued = batching[s].queued + 1, !.batch = b, !.inner = d]
<1>1. TypeOKSend /\ ManualSpacing /\ (\A q \in SendIds : Loop(q))
  BY DEF SendInv
<1>2. /\ gate \in BOOLEAN /\ now \in Nat /\ slot \in Nat
      /\ batching \in [SendIds -> Batching] /\ old \in Batching /\ old.at = "send"
      /\ \A m \in outbox : m.send \in SendIds /\ m.target # None /\ m.plan \in Nat
  BY <1>1, SendTypes DEF Serves
<1>3. /\ p \in old.left /\ input.people[p] # None
      /\ \A o \in old.left \ {p} : input.people[o] # input.people[p]
  BY NextServed
<1>4. /\ outbox' = outbox \cup {new} /\ batching' = [batching EXCEPT ![s] = run]
      /\ UNCHANGED <<gate, now, breaks>>
  <2>1. /\ outbox' = outbox \cup {new} /\ UNCHANGED <<gate, now, breaks>>
        /\ batching' = [batching EXCEPT ![s].left = batching[s].left \ {p},
                           ![s].queued = batching[s].queued + 1, ![s].batch = b, ![s].inner = d]
    BY DEF Queue
  <2>2. batching' = [batching EXCEPT ![s] = run]
    BY <1>2, <2>1 DEF Batching
  <2> QED
    BY <2>1, <2>2
<1>5. /\ run \in Batching /\ run.at = "send" /\ run.input = input /\ run.left = old.left \ {p}
      /\ run.queued = old.queued + 1 /\ run.batch = b /\ run.inner = d
  <2>1. old.left \ {p} \in SUBSET Nat /\ old.queued + 1 \in Nat
    BY <1>2 DEF Batching
  <2>2. PICK left \in SUBSET Nat, n \in Nat : left = old.left \ {p} /\ n = old.queued + 1
    BY <2>1
  <2>3. run = [batching[s] EXCEPT !.left = left, !.queued = n, !.batch = b, !.inner = d]
    BY <2>2
  <2> HIDE DEF run
  <2> QED
    BY <1>2, <2>2, <2>3 DEF Batching
<1>6. new.send = s /\ new.target = input.people[p] /\ new.channel = input.channel /\ new.plan = plan
  OBVIOUS
<1>7. /\ batching'[s] = run /\ \A q \in SendIds \ {s} : batching'[q] = batching[q]
  BY <1>2, <1>4
<1> HIDE DEF new, run
<1>8. TypeOKSend'
  <2>1. batching' \in [SendIds -> Batching]
    BY <1>2, <1>4, <1>5
  <2>2. \A m \in outbox' : m.send \in SendIds /\ m.target # None /\ m.plan \in Nat
    BY <1>2, <1>3, <1>4, <1>6
  <2> QED
    BY <1>1, <1>4, <2>1, <2>2, SendTypes DEF TypeOKSend, Batching
<1>9. \A m \in outbox : m.send = s =>
        /\ m.channel = input.channel /\ m.target # new.target
        /\ \A o \in old.left : input.people[o] # m.target
        /\ m.channel = "whatsapp" =>
             /\ m.plan + (IF gate THEN PaceMin ELSE WaMinDelay) <= plan
             /\ m.plan <= plan
  <2>1. PaceMin \in Nat /\ WaMinDelay \in Nat
    BY SettingsAssumption
  <2>2. Loop(s)
    BY <1>1
  <2>3. \A m \in outbox : m.send = s =>
          m.channel = input.channel /\ \A o \in old.left : input.people[o] # m.target
    BY <1>2, <2>2 DEF Loop
  <2> QED
    BY <1>2, <1>3, <1>6, <2>1, <2>3 DEF WhatsApp
<1>10. ManualSpacing'
  <2> DEFINE gap == IF gate THEN PaceMin ELSE WaMinDelay
             Spaced(m, n) == /\ m.target # n.target
                             /\ m.channel = "whatsapp" => m.plan + gap <= n.plan \/ n.plan + gap <= m.plan
  <2>1. \A m, n \in outbox : m.send = n.send /\ m # n => Spaced(m, n)
    BY <1>1 DEF ManualSpacing
  <2>2. \A m \in outbox : m.send = s => Spaced(m, new) /\ Spaced(new, m)
    BY <1>6, <1>9
  <2>3. \A m, n \in outbox' : m.send = n.send /\ m # n => Spaced(m, n)
    BY <1>4, <1>6, <2>1, <2>2
  <2>4. gate' = gate
    BY <1>4
  <2> QED
    BY <2>3, <2>4 DEF ManualSpacing
<1>11. ASSUME NEW q \in SendIds PROVE Loop(q)'
  <2>1. Loop(q)
    BY <1>1
  <2>2. CASE q # s
    <3>1. batching'[q] = batching[q] /\ \A m \in outbox' : m.send = q => m \in outbox
      BY <1>4, <1>6, <1>7, <2>2
    <3>2. gate' = gate /\ now' = now /\ (gate => slot' >= slot)
      BY <1>4
    <3>3. batching[q] \in Batching
      BY <1>2
    <3>4. batching[q].batch \in Nat /\ batching[q].inner \in Nat
      BY <3>3 DEF Batching
    <3>5. batching[q].at = "send" => \A m \in outbox : m.send = q /\ m.channel = "whatsapp" =>
            m.plan <= (IF gate THEN slot' ELSE now + batching[q].inner) + batching[q].batch
      <4>1. batching[q].at = "send" => \A m \in outbox : m.send = q /\ m.channel = "whatsapp" =>
              m.plan <= (IF gate THEN slot ELSE now + batching[q].inner) + batching[q].batch
        BY <2>1 DEF Loop
      <4> QED
        BY <1>2, <3>2, <3>4, <4>1
    <3> QED
      BY <2>1, <3>1, <3>2, <3>5 DEF Loop
  <2>3. CASE q = s
    <3>1. input \in SendInputs /\ run.left \subseteq ServedPlaces(input.people)
      BY <1>2, <1>5, <2>1, <2>3 DEF Loop
    <3>2. \A m \in outbox' : m.send = s => m \in outbox \/ m = new
      BY <1>4
    <3>3. ASSUME NEW m \in outbox', m.send = s
          PROVE  /\ m.channel = input.channel
                 /\ \A o \in run.left : input.people[o] # m.target
                 /\ m.channel = "whatsapp" => m.plan <= (IF gate THEN slot' ELSE now + d) + b
      <4>1. CASE m \in outbox
        <5>1. m.plan \in Nat
          BY <1>2, <4>1
        <5>2. /\ m.channel = input.channel /\ \A o \in run.left : input.people[o] # m.target
              /\ m.channel = "whatsapp" => m.plan <= plan
          BY <1>5, <1>9, <3>3, <4>1
        <5>3. m.channel = "whatsapp" => plan <= edge + b
          BY <5>2 DEF WhatsApp
        <5>4. m.channel = "whatsapp" => m.plan <= edge + b
          BY <5>1, <5>2, <5>3, NoLater
        <5> QED
          BY <5>2, <5>4
      <4>2. CASE m = new
        BY <1>3, <1>5, <1>6, <4>2 DEF WhatsApp
      <4> QED
        BY <3>2, <3>3, <4>1, <4>2
    <3> QED
      BY <1>4, <1>5, <1>7, <2>3, <3>1, <3>3 DEF Loop
  <2> QED
    BY <2>2, <2>3
<1> QED
  BY <1>8, <1>10, <1>11 DEF SendInv

\* The delays of the next message, and the distance they keep.
LEMMA DelaysKeep ==
  ASSUME SendInv, NEW s \in SendIds, Serves(s), NEW b \in BatchDelays(s), NEW d \in InnerDelays(s)
  PROVE  /\ b \in Nat /\ d \in Nat /\ batching[s].batch \in Nat /\ batching[s].inner \in Nat
         /\ b >= batching[s].batch
         /\ d <= InBatch(batching[s].queued + 1) * WaMaxDelay
         /\ WhatsApp(s) => batching[s].batch + batching[s].inner + WaMinDelay <= b + d
<1>1. /\ batching[s] \in Batching /\ batching[s].at = "send"
      /\ batching[s].inner <= InBatch(batching[s].queued) * WaMaxDelay
  BY SendTypes DEF SendInv, Serves, Loop
<1>2. /\ batching[s].batch \in Nat /\ batching[s].inner \in Nat /\ batching[s].queued \in Nat
  BY <1>1 DEF Batching
<1> DEFINE k == InBatch(batching[s].queued)
           l == InBatch(batching[s].queued + 1)
<1>3. /\ k \in 0 .. BatchSize /\ l = (IF OpensBatch(s) THEN 1 ELSE k + 1) /\ l <= BatchSize
  BY <1>2, InBatchNext DEF OpensBatch
<1>4. /\ WaMinDelay \in Nat /\ WaMaxDelay \in Nat /\ BatchSize \in Nat
      /\ BatchMinDelay \in Nat /\ BatchSize * WaMaxDelay <= BatchMinDelay
  BY SettingsAssumption
<1>5. k \in Nat /\ k <= BatchSize
  BY <1>3, <1>4
<1>6. (k + 1) * WaMaxDelay = k * WaMaxDelay + WaMaxDelay /\ k * WaMaxDelay <= BatchMinDelay
      /\ k * WaMaxDelay \in Nat /\ 1 * WaMaxDelay = WaMaxDelay
  <2>1. k * WaMaxDelay <= BatchSize * WaMaxDelay /\ BatchSize * WaMaxDelay \in Nat /\ k * WaMaxDelay \in Nat
    BY <1>4, <1>5, Multiples
  <2> QED
    BY <1>4, <1>5, <2>1, Multiples
<1> HIDE DEF k, l
<1>7. batching[s].inner <= k * WaMaxDelay
  BY <1>1 DEF k
<1>8. CASE OpensBatch(s) /\ WhatsApp(s)
  <2>1. PICK gap \in BatchMinDelay .. BatchMaxDelay : b = batching[s].batch + gap
    BY <1>8 DEF BatchDelays
  <2>2. d \in WaMinDelay .. WaMaxDelay
    BY <1>2, <1>4, <1>8, SettingsAssumption DEF InnerDelays
  <2>3. l * WaMaxDelay = WaMaxDelay
    BY <1>3, <1>6, <1>8
  <2>4. gap \in Nat /\ gap >= BatchMinDelay /\ d \in Nat /\ d >= WaMinDelay /\ d <= WaMaxDelay
    BY <1>4, <2>1, <2>2, SettingsAssumption
  <2> QED
    BY <1>2, <1>4, <1>6, <1>7, <2>1, <2>3, <2>4 DEF l
<1>9. CASE ~ OpensBatch(s) /\ WhatsApp(s)
  <2>1. b = batching[s].batch
    BY <1>2, <1>9, SettingsAssumption DEF BatchDelays
  <2>2. PICK e \in WaMinDelay .. WaMaxDelay : d = batching[s].inner + e
    BY <1>9 DEF InnerDelays
  <2>3. l * WaMaxDelay = k * WaMaxDelay + WaMaxDelay
    BY <1>3, <1>6, <1>9
  <2>4. e \in Nat /\ e >= WaMinDelay /\ e <= WaMaxDelay
    BY <1>4, <2>2
  <2> QED
    BY <1>2, <1>4, <1>6, <1>7, <2>1, <2>2, <2>3, <2>4 DEF l
<1>10. CASE ~ WhatsApp(s)
  <2>1. b = batching[s].batch /\ d = 0
    BY <1>2, <1>10, SettingsAssumption DEF BatchDelays, InnerDelays
  <2>2. l \in Nat /\ l * WaMaxDelay \in Nat
    BY <1>3, <1>4, <1>5, Multiples
  <2> QED
    BY <1>2, <1>10, <2>1, <2>2 DEF l
<1> QED
  BY <1>8, <1>9, <1>10

\* The loops as they were, but for one that has ended; the clock and the cursor go on.
LEMMA LoopsFramed ==
  ASSUME SendInv, UNCHANGED <<gate, slot, outbox>>, now' \in Nat, now' >= now,
         breaks' \in Nat, batching' \in [SendIds -> Batching],
         \A s \in SendIds : batching'[s] = batching[s] \/ batching'[s].at = "answered"
  PROVE  SendInv'
<1>1. /\ gate \in BOOLEAN /\ now \in Nat /\ slot \in Nat /\ batching \in [SendIds -> Batching]
      /\ \A m \in outbox : m.send \in SendIds /\ m.target # None /\ m.plan \in Nat
  BY SendTypes DEF SendInv
<1>2. TypeOKSend'
  BY <1>1 DEF TypeOKSend, Batching
<1>3. ManualSpacing'
  BY DEF SendInv, ManualSpacing
<1>4. ASSUME NEW s \in SendIds PROVE Loop(s)'
  <2>1. Loop(s)
    BY DEF SendInv
  <2>2. CASE batching'[s].at = "answered"
    BY <2>2 DEF Loop
  <2>3. CASE batching'[s] = batching[s]
    <3>1. batching[s] \in Batching
      BY <1>1
    <3>2. batching[s].batch \in Nat /\ batching[s].inner \in Nat
      BY <3>1 DEF Batching
    <3>3. \A x \in Nat : x <= now + batching[s].inner + batching[s].batch
                          => x <= now' + batching[s].inner + batching[s].batch
      BY <1>1, <3>2
    <3>4. batching[s].at = "send" => \A m \in outbox : m.send = s /\ m.channel = "whatsapp" =>
            m.plan <= (IF gate THEN slot ELSE now' + batching[s].inner) + batching[s].batch
      <4>1. batching[s].at = "send" => \A m \in outbox : m.send = s /\ m.channel = "whatsapp" =>
              m.plan <= (IF gate THEN slot ELSE now + batching[s].inner) + batching[s].batch
        BY <2>1 DEF Loop
      <4> QED
        BY <1>1, <3>3, <4>1
    <3> QED
      BY <2>1, <2>3, <3>4 DEF Loop
  <2> QED
    BY <2>2, <2>3
<1> QED
  BY <1>2, <1>3, <1>4 DEF SendInv

LEMMA QueuedDelayed ==
  ASSUME SendInv, NEW s \in SendIds, QueueDelayed(s)
  PROVE  SendInv'
<1>1. PICK b \in BatchDelays(s), d \in InnerDelays(s) :
        Queue(s, b, d, now + (IF WhatsApp(s) THEN b + d ELSE 0))
  BY DEF QueueDelayed
<1> DEFINE plan == now + (IF WhatsApp(s) THEN b + d ELSE 0)
           edge == IF gate THEN slot' ELSE now + d
<1>2. Serves(s) /\ ~ (gate /\ WhatsApp(s)) /\ UNCHANGED slot
  BY DEF QueueDelayed
<1>3. /\ gate \in BOOLEAN /\ now \in Nat /\ slot \in Nat
      /\ \A m \in outbox : m.send \in SendIds /\ m.plan \in Nat
  BY SendTypes DEF SendInv
<1>4. /\ b \in Nat /\ d \in Nat /\ batching[s].batch \in Nat /\ batching[s].inner \in Nat
      /\ b >= batching[s].batch
      /\ d <= InBatch(batching[s].queued + 1) * WaMaxDelay
      /\ WhatsApp(s) => batching[s].batch + batching[s].inner + WaMinDelay <= b + d
  BY <1>2, DelaysKeep
<1>5. WaMinDelay \in Nat
  BY SettingsAssumption
<1>6. plan \in Nat /\ edge \in Nat
  <2>1. now + (b + d) \in Nat /\ now + 0 \in Nat /\ now + d \in Nat
    BY <1>3, <1>4
  <2> QED
    BY <1>2, <1>3, <2>1
<1>7. ASSUME NEW m \in outbox, m.send = s, WhatsApp(s)
      PROVE  m.plan + (IF gate THEN PaceMin ELSE WaMinDelay) <= plan
  <2>1. ~ gate /\ plan = now + (b + d)
    BY <1>2, <1>7
  <2>2. m.channel = "whatsapp" /\ m.plan <= (IF gate THEN slot ELSE now + batching[s].inner) + batching[s].batch
    BY <1>2, <1>7 DEF SendInv, Loop, Serves, WhatsApp
  <2>3. m.plan \in Nat /\ m.plan <= now + batching[s].inner + batching[s].batch
    BY <1>3, <1>7, <2>1, <2>2
  <2>4. batching[s].batch + batching[s].inner + WaMinDelay <= b + d
    BY <1>4, <1>7
  <2> HIDE DEF plan
  <2>5. m.plan + WaMinDelay <= plan
    BY <1>3, <1>4, <1>5, <2>1, <2>3, <2>4
  <2> QED
    BY <2>1, <2>5
<1>8. WhatsApp(s) => plan <= edge + b
  <2> SUFFICES ASSUME WhatsApp(s) PROVE plan <= edge + b
    OBVIOUS
  <2>1. plan = now + (b + d) /\ edge = now + d
    BY <1>2
  <2> HIDE DEF plan, edge
  <2> QED
    BY <1>3, <1>4, <2>1
<1>9. slot' \in Nat /\ (gate => slot' >= slot)
  BY <1>2, <1>3
<1>10. edge = IF gate THEN slot' ELSE now + d
  OBVIOUS
<1>11. Queue(s, b, d, plan)
  BY <1>1
<1> HIDE DEF plan, edge
<1> QED
  BY <1>2, <1>4, <1>6, <1>7, <1>8, <1>9, <1>10, <1>11, QueueHolds

LEMMA QueuedPaced ==
  ASSUME SendInv, NEW s \in SendIds, QueuePaced(s)
  PROVE  SendInv'
<1>1. PICK b \in BatchDelays(s), d \in InnerDelays(s), g \in PaceMin .. PaceMax :
        slot' = NextSlot(g) /\ Queue(s, b, d, NextSlot(g) + b)
  BY DEF QueuePaced
<1>2. Serves(s) /\ gate /\ WhatsApp(s)
  BY DEF QueuePaced
<1>3. /\ now \in Nat /\ slot \in Nat
      /\ \A m \in outbox : m.send \in SendIds /\ m.plan \in Nat
  BY SendTypes DEF SendInv
<1>4. /\ b \in Nat /\ d \in Nat /\ batching[s].batch \in Nat /\ b >= batching[s].batch
      /\ d <= InBatch(batching[s].queued + 1) * WaMaxDelay
  BY <1>2, DelaysKeep
<1>5. g \in Nat /\ g >= PaceMin /\ PaceMin \in Nat
  BY SettingsAssumption
<1>6. slot' \in Nat /\ slot' >= slot + PaceMin /\ slot' >= slot
  BY <1>1, <1>3, <1>5 DEF NextSlot
<1>7. PICK edge \in Nat, plan \in Nat : edge = slot' /\ plan = slot' + b
  <2>1. PICK edge \in Nat : edge = slot'
    BY <1>6
  <2>2. edge + b \in Nat
    BY <1>4
  <2> QED
    BY <2>1, <2>2
<1>8. ASSUME NEW m \in outbox, m.send = s PROVE m.plan + PaceMin <= plan
  <2>1. m.channel = "whatsapp" /\ m.plan <= (IF gate THEN slot ELSE now + batching[s].inner) + batching[s].batch
    BY <1>2, <1>8 DEF SendInv, Loop, Serves, WhatsApp
  <2>2. m.plan \in Nat /\ m.plan <= slot + batching[s].batch
    BY <1>2, <1>3, <1>8, <2>1
  <2> QED
    BY <1>3, <1>4, <1>5, <1>6, <1>7, <2>2
<1>9. Queue(s, b, d, plan) /\ plan <= edge + b
  BY <1>1, <1>4, <1>7
<1> QED
  BY <1>2, <1>4, <1>6, <1>7, <1>8, <1>9, QueueHolds

LEMMA StepSendInv == SendInv /\ [NextSend]_sendVars => SendInv'
<1> SUFFICES ASSUME SendInv, [NextSend]_sendVars PROVE SendInv'
  OBVIOUS
<1>1. /\ batching \in [SendIds -> Batching] /\ now \in Nat /\ breaks \in Nat
      /\ gate \in BOOLEAN /\ slot \in Nat
  BY SendTypes DEF SendInv
<1>2. CASE UNCHANGED sendVars
  BY <1>1, <1>2, LoopsFramed DEF sendVars
<1>3. CASE TimePasses
  <2>1. now' \in Nat /\ now' >= now
    BY <1>1, <1>3 DEF TimePasses
  <2> QED
    BY <1>1, <1>3, <2>1, LoopsFramed DEF TimePasses
<1>4. ASSUME NEW s \in SendIds, SendEnds(s) \/ SendBreaks(s) PROVE SendInv'
  <2>1. batching' = [batching EXCEPT ![s] = [NoSend EXCEPT !.at = "answered"]]
    BY <1>4 DEF SendEnds, SendBreaks
  <2>2. /\ batching' \in [SendIds -> Batching]
        /\ \A q \in SendIds : batching'[q] = batching[q] \/ batching'[q].at = "answered"
    BY <1>1, <2>1, SendBlanks
  <2>3. UNCHANGED <<gate, now, slot, outbox>> /\ breaks' \in Nat
    BY <1>1, <1>4 DEF SendEnds, SendBreaks
  <2> QED
    BY <1>1, <2>2, <2>3, LoopsFramed
<1>5. ASSUME NEW s \in SendIds, ReceiveSend(s) PROVE SendInv'
  <2>1. PICK i \in SendInputs :
          batching' = [batching EXCEPT ![s] =
            IF Accepted(i) THEN [NoSend EXCEPT !.at = "send", !.input = i, !.left = ServedPlaces(i.people)]
            ELSE [NoSend EXCEPT !.at = "answered"]]
    BY <1>5 DEF ReceiveSend
  <2>2. UNCHANGED <<gate, now, slot, outbox, breaks>> /\ batching[s].at = "idle"
    BY <1>5 DEF ReceiveSend
  <2>3. CASE ~ Accepted(i)
    <3>1. /\ batching' \in [SendIds -> Batching]
          /\ \A q \in SendIds : batching'[q] = batching[q] \/ batching'[q].at = "answered"
      BY <1>1, <2>1, <2>3, SendBlanks
    <3> QED
      BY <1>1, <2>2, <3>1, LoopsFramed
  <2>4. CASE Accepted(i)
    <3>1. ServedPlaces(i.people) \in SUBSET Nat
      BY InputsAssumption DEF ServedPlaces
    <3>2. PICK run : run = [NoSend EXCEPT !.at = "send", !.input = i, !.left = ServedPlaces(i.people)]
      OBVIOUS
    <3>3. /\ run \in Batching /\ run.at = "send" /\ run.input = i /\ run.left = ServedPlaces(i.people)
          /\ run.queued = 0 /\ run.inner = 0
      BY <3>1, <3>2 DEF NoSend, Batching
    <3>4. batching' = [batching EXCEPT ![s] = run]
      BY <2>1, <2>4, <3>2
    <3>5. TypeOKSend'
      <4>1. batching' \in [SendIds -> Batching]
        BY <1>1, <3>3, <3>4
      <4> QED
        BY <2>2, <4>1 DEF SendInv, TypeOKSend, Batching
    <3>6. ManualSpacing'
      BY <2>2 DEF SendInv, ManualSpacing
    <3>7. ASSUME NEW q \in SendIds PROVE Loop(q)'
      <4>1. Loop(q)
        BY DEF SendInv
      <4>2. CASE q # s
        <5>1. batching'[q] = batching[q]
          BY <1>1, <3>4, <4>2
        <5> QED
          BY <2>2, <4>1, <5>1 DEF Loop
      <4>3. CASE q = s
        <5>1. batching'[s] = run /\ \A m \in outbox' : m.send # s
          BY <1>1, <2>2, <3>4, <4>1, <4>3 DEF Loop
        <5>2. 0 <= InBatch(0) * WaMaxDelay
          <6>1. InBatch(0) \in Nat /\ WaMaxDelay \in Nat /\ InBatch(0) <= InBatch(0)
            BY SettingsAssumption DEF InBatch
          <6>2. InBatch(0) * WaMaxDelay \in Nat
            BY <6>1, Multiples
          <6> QED
            BY <6>2
        <5> QED
          BY <3>3, <4>3, <5>1, <5>2 DEF Loop
      <4> QED
        BY <4>2, <4>3
    <3> QED
      BY <3>5, <3>6, <3>7 DEF SendInv
  <2> QED
    BY <2>3, <2>4
<1> QED
  BY <1>2, <1>3, <1>4, <1>5, QueuedDelayed, QueuedPaced DEF NextSend

\* The requests, the cursors and what is enqueued keep their types.
THEOREM SendTyped == SpecSend => []TypeOKSend
<1>1. SpecSend => []SendInv
  BY InitSendInv, StepSendInv, PTL DEF SpecSend
<1>2. SendInv => TypeOKSend
  BY DEF SendInv
<1> QED
  BY <1>1, <1>2, PTL

\* ManualSendService.send: no person twice, and WhatsApp messages apart by the shortest delay
\* inside a batch and across its end, or by the gap of the pacing cursor with the gate on;
\* for any settings with BatchSize * WaMaxDelay <= BatchMinDelay.
THEOREM SendsAreSpaced == SpecSend => []ManualSpacing
<1>1. SpecSend => []SendInv
  BY InitSendInv, StepSendInv, PTL DEF SpecSend
<1>2. SendInv => ManualSpacing
  BY DEF SendInv
<1> QED
  BY <1>1, <1>2, PTL
=============================================================================
