---------------------------- MODULE Registrations ----------------------------
(***************************************************************************)
(* The public forms of one event (application/registration_module): a      *)
(* submission promotes the documents it attaches, finds or creates the     *)
(* registration, stores the response and hands it to the CRM (Pipedrive),  *)
(* with a query for each step and no transaction.  The staff meanwhile     *)
(* import, approve and delete registrations, and publish, end or cancel    *)
(* the event, which tells everyone who is still registered.                *)
(***************************************************************************)
EXTENDS Integers, FiniteSets, Nulls

CONSTANTS
  Subs,           \* submissions (and imports) in flight
  Staff,          \* requests of the staff in flight
  Regs, Resps,    \* ids of registrations and of responses, never used twice
  Docs,           \* documents a submission may attach
  EventForms,     \* the event's forms
  Anonymous, Crm, NeedsImage,   \* forms with anonymous, sendToPipedrive, requireImageAuthorization
  Filing,         \* forms with a field of type document
  Phones,         \* phones, normalised
  Capacity,       \* events.capacity
  MaxReceived, MaxEdits, MaxFaults   \* bounds: submissions and imports; changes by
                  \* staff and uploads pruned; faults

ASSUME DeskAssumption ==
  /\ Capacity \in Nat /\ MaxReceived \in Nat /\ MaxEdits \in Nat /\ MaxFaults \in Nat
  /\ Anonymous \cup Filing \subseteq EventForms /\ Crm \subseteq EventForms \ Anonymous
  /\ None \notin Phones \cup Docs \cup Regs \cup Resps

VARIABLES
  event,          \* events.status
  reg, resp,      \* rows of registrations and form_responses
  docs,           \* where each document is in the storage
  sub,            \* sub[u]: the locals of submission u
  webhooks,       \* webhooks[x]: calls for response x, by what has become of them
  staff,          \* staff[a]: the locals of status request a
  told,           \* registrations with a cancellation message in the outbox
  received, edits, faults,
  delivered,      \* history: how often the CRM got each response
  muddled,        \* history: responses dispatched again before the last call was recorded
  notified        \* history: a cancellation has told everyone it listed, with no fault

desk == <<event, reg, resp, docs, sub, webhooks, staff, told>>
history == <<delivered, muddled, notified>>
deskVars == <<desk, received, edits, faults, history>>

EventStatuses == {"draft", "published", "cancelled", "ended"}
FunnelStatuses == {"pending", "approved", "rejected"}
CrmStatuses == {"null", "pending", "sent", "failed", "skipped"}

NoReg == [is |-> "free", status |-> "pending", phone |-> None, form |-> None,
          how |-> "counted", late |-> FALSE]    \* history: see Created
NoResp == [is |-> "free", form |-> None, reg |-> None, doc |-> None, crm |-> "null"]
NoSub == [at |-> "idle", form |-> None, phone |-> None, doc |-> None, event |-> "draft",
          reg |-> None, resp |-> None, crm |-> "null",
          raced |-> FALSE]                      \* history: a registration appeared since the count
NoStaff == [at |-> "idle", to |-> "draft", left |-> {},
            clean |-> FALSE]                    \* history: a cancellation undisturbed so far
NoCalls == [out |-> 0, ok |-> 0, failed |-> 0]

\* Nobody, or somebody registered whose response the CRM has.
InitDesk ==
  /\ event \in {"draft", "published"}
  /\ \/ /\ reg = [r \in Regs |-> NoReg] /\ resp = [x \in Resps |-> NoResp]
        /\ delivered = [x \in Resps |-> 0]
     \/ \E r \in Regs, x \in Resps, f \in Crm, p \in Phones :
          /\ event = "published" /\ Capacity > 0
          /\ reg = [s \in Regs |-> IF s = r THEN [NoReg EXCEPT !.is = "row", !.form = f, !.phone = p] ELSE NoReg]
          /\ resp = [y \in Resps |-> IF y = x THEN [NoResp EXCEPT !.is = "row", !.form = f, !.reg = r, !.crm = "sent"]
                                     ELSE NoResp]
          /\ delivered = [y \in Resps |-> IF y = x THEN 1 ELSE 0]
  /\ docs = [d \in Docs |-> "none"]
  /\ sub = [u \in Subs |-> NoSub] /\ staff = [a \in Staff |-> NoStaff]
  /\ webhooks = [x \in Resps |-> NoCalls] /\ told = {}
  /\ received = 0 /\ edits = 0 /\ faults = 0
  /\ muddled = {} /\ notified = FALSE

Rows == {r \in Regs : reg[r].is = "row"}
\* A new row has a new id, any one.
FreshReg(r) == r = CHOOSE s \in Regs : reg[s].is = "free"
FreshResp(x) == x = CHOOSE y \in Resps : resp[y].is = "free"
Responses == {x \in Resps : resp[x].is = "row"}

-----------------------------------------------------------------------------
(* submitForm. *)

Bounded == UNCHANGED <<received, edits, faults>>
\* A step of submission u that goes on at s, and one that answers or fails.
GoesOn(u, s) == sub' = [sub EXCEPT ![u] = s]
Answers(u) == sub' = [sub EXCEPT ![u] = NoSub]

\* findBySlug, findPublic and the fields are read; later steps use what they said.  An
\* anonymous form does not look at the phone.
SubmitForm(u) ==
  \E f \in EventForms, p \in Phones \cup {None}, d \in Docs \cup {None} :
    /\ sub[u].at = "idle" /\ event \in {"published", "ended"}
    /\ f \in Anonymous => p = None
    /\ d # None => f \in Filing
    /\ received < MaxReceived /\ received' = received + 1
    /\ GoesOn(u, [NoSub EXCEPT !.at = IF d = None THEN "find" ELSE "promote",
                             !.form = f, !.phone = p, !.doc = d, !.event = event])
    /\ UNCHANGED <<event, reg, resp, docs, webhooks, staff, told, edits, faults, history>>

\* finalizeFile moves the upload out of tmp; when it is not there any more (pruned, or
\* promoted by an earlier submission that was then refused) the storage refuses.
Promote(u) ==
  LET s == sub[u] IN
  /\ s.at = "promote"
  /\ \/ /\ docs[s.doc] = "tmp"
        /\ docs' = [docs EXCEPT ![s.doc] = "final"]
        /\ GoesOn(u, [s EXCEPT !.at = "find"])
     \/ /\ docs[s.doc] # "tmp"
        /\ Answers(u) /\ UNCHANGED docs
  /\ Bounded /\ UNCHANGED <<event, reg, resp, webhooks, staff, told, history>>

\* findByEventAndContact: registered through the form, or has answered it since.
Known(f, p) ==
  {r \in Rows : /\ p # None /\ reg[r].phone = p
                /\ \/ reg[r].form = f
                   \/ \E x \in Responses : resp[x].form = f /\ resp[x].reg = r}

Find(u) ==
  LET s == sub[u] IN
  /\ s.at = "find" /\ s.form \notin Anonymous
  /\ \/ \E r \in Known(s.form, s.phone) : GoesOn(u, [s EXCEPT !.at = "respond", !.reg = r])
     \/ Known(s.form, s.phone) = {} /\ s.event = "published" /\ GoesOn(u, [s EXCEPT !.at = "count"])
     \/ Known(s.form, s.phone) = {} /\ s.event # "published" /\ Answers(u)
  /\ Bounded /\ UNCHANGED <<event, reg, resp, docs, webhooks, staff, told, history>>

FullLate == Cardinality(Rows) > Capacity
Full == Cardinality(Rows) >= Capacity

\* countByEvent, then the image authorisation, which the person may not have given.
Count(u) ==
  LET s == sub[u] IN
  /\ s.at = "count"
  /\ \/ ~Full /\ GoesOn(u, [s EXCEPT !.at = "create", !.raced = FALSE])
     \/ Full /\ Answers(u)
     \/ s.form \in NeedsImage /\ Answers(u)
  /\ Bounded /\ UNCHANGED <<event, reg, resp, docs, webhooks, staff, told, history>>

\* The unique index on the event, the form of origin and the digits of the phone.
Taken(f, p) == \E r \in Rows : p # None /\ reg[r].form = f /\ reg[r].phone = p

\* For the record: how the row came to be, and whether its event had closed by then.
Created(u, r, how) ==
  /\ reg' = [reg EXCEPT ![r] = [NoReg EXCEPT !.is = "row", !.form = sub[u].form,
                                  !.phone = sub[u].phone, !.how = how,
                                  !.late = event # "published"]]

Create(u) ==
  LET s == sub[u] IN
  /\ s.at = "create"
  /\ \/ \E r \in Regs :
          /\ reg[r].is = "free" /\ FreshReg(r) /\ ~Taken(s.form, s.phone)
          /\ Created(u, r, IF s.raced THEN "raced" ELSE "counted")
          /\ sub' = [v \in Subs |-> IF v = u THEN [s EXCEPT !.at = "respond", !.reg = r]
                                    ELSE [sub[v] EXCEPT !.raced = sub[v].at = "create"]]
     \/ /\ Taken(s.form, s.phone)
        /\ Answers(u) /\ UNCHANGED reg
  /\ Bounded /\ UNCHANGED <<event, resp, docs, webhooks, staff, told, history>>

-----------------------------------------------------------------------------
(* The response, and the CRM. *)

Dispatching(x) == \E v \in Subs : sub[v].at = "crm" /\ sub[v].resp = x
InFlight(x) == webhooks[x].out + webhooks[x].ok + webhooks[x].failed > 0

\* upsert, which also returns the pipedriveStatus that dispatchToPipedrive will judge by.
Respond(u) ==
  LET s == sub[u]
      mine == {x \in Responses : resp[x].form = s.form /\ resp[x].reg = s.reg} IN
  /\ s.at = "respond"
  /\ \/ \E x \in mine :
          /\ resp' = [resp EXCEPT ![x].doc = s.doc]
          /\ GoesOn(u, [s EXCEPT !.at = "crm", !.resp = x, !.crm = resp[x].crm])
          /\ muddled' = IF Dispatching(x) \/ InFlight(x) THEN muddled \cup {x} ELSE muddled
     \/ \E x \in Resps :
          /\ mine = {} /\ s.reg \in Rows /\ resp[x].is = "free" /\ FreshResp(x)
          /\ resp' = [resp EXCEPT ![x] = [NoResp EXCEPT !.is = "row", !.form = s.form,
                                            !.reg = s.reg, !.doc = s.doc]]
          /\ GoesOn(u, [s EXCEPT !.at = "crm", !.resp = x]) /\ UNCHANGED muddled
     \/ s.reg \notin Rows /\ Answers(u) /\ UNCHANGED <<resp, muddled>>
  /\ Bounded /\ UNCHANGED <<event, reg, docs, webhooks, staff, told, delivered, notified>>

\* An anonymous form stores the response and nothing else.
RespondAnonymously(u) ==
  LET s == sub[u] IN
  /\ s.at = "find" /\ s.form \in Anonymous
  /\ \E x \in Resps :
       /\ resp[x].is = "free" /\ FreshResp(x)
       /\ resp' = [resp EXCEPT ![x] = [NoResp EXCEPT !.is = "row", !.form = s.form, !.doc = s.doc]]
  /\ Answers(u) /\ Bounded
  /\ UNCHANGED <<event, reg, docs, webhooks, staff, told, history>>

AskAgain(s) == TRUE
Undelivered(s) == s.crm # "sent"

\* dispatchToPipedrive; the write fails when the response has been deleted.
Dispatch(u) ==
  LET s == sub[u]
      goes == Undelivered(s) /\ s.resp \in Responses IN
  /\ s.at = "crm"
  /\ resp' = IF goes THEN [resp EXCEPT ![s.resp].crm = IF s.form \in Crm THEN "pending" ELSE "skipped"]
             ELSE resp
  /\ webhooks' = IF goes /\ s.form \in Crm THEN [webhooks EXCEPT ![s.resp].out = webhooks[s.resp].out + 1]
              ELSE webhooks
  /\ Answers(u) /\ Bounded
  /\ UNCHANGED <<event, reg, docs, staff, told, history>>

Fault == faults < MaxFaults /\ faults' = faults + 1
Edit == edits < MaxEdits /\ edits' = edits + 1

\* The webhook answers, or fails: the CRM may have got the response all the same.
CallEnds(x) ==
  /\ webhooks[x].out > 0
  /\ \/ /\ webhooks' = [webhooks EXCEPT ![x].out = webhooks[x].out - 1, ![x].ok = webhooks[x].ok + 1]
        /\ delivered' = [delivered EXCEPT ![x] = @ + 1]
        /\ UNCHANGED <<faults, muddled>>
     \/ /\ webhooks' = [webhooks EXCEPT ![x].out = webhooks[x].out - 1, ![x].failed = webhooks[x].failed + 1]
        /\ \/ UNCHANGED <<delivered, muddled>>
           \/ delivered' = [delivered EXCEPT ![x] = @ + 1] /\ muddled' = muddled \cup {x}
        /\ Fault
  /\ UNCHANGED <<event, reg, resp, docs, sub, staff, told, received, edits, notified>>

\* The process ends, with its submissions, its calls and its cancellations.
ProcessEnds ==
  /\ sub' = [u \in Subs |-> NoSub] /\ staff' = [a \in Staff |-> NoStaff]
  /\ webhooks' = [x \in Resps |-> NoCalls]
  /\ \E reached \in SUBSET {x \in Resps : webhooks[x].out > 0} :
       /\ delivered' = [x \in Resps |-> delivered[x] + IF x \in reached THEN webhooks[x].out ELSE 0]
       /\ muddled' = muddled \cup reached \cup {x \in Resps : webhooks[x].ok > 0}

\* The result is recorded; a failed write of 'sent' ends in the catch, as a 'failed'.
\* Nothing handles the write that fails there, and an unhandled rejection ends Node.
RecordSent(x) ==
  /\ webhooks[x].ok > 0 /\ x \in Responses
  /\ \/ /\ resp' = [resp EXCEPT ![x].crm = "sent"]
        /\ webhooks' = [webhooks EXCEPT ![x].ok = webhooks[x].ok - 1]
        /\ UNCHANGED <<faults, muddled>>
     \/ /\ webhooks' = [webhooks EXCEPT ![x].ok = webhooks[x].ok - 1, ![x].failed = webhooks[x].failed + 1]
        /\ muddled' = muddled \cup {x} /\ Fault /\ UNCHANGED resp
  /\ UNCHANGED <<event, reg, docs, sub, staff, told, received, edits, delivered, notified>>

RecordFailed(x) ==
  /\ webhooks[x].failed > 0 /\ x \in Responses
  /\ resp' = [resp EXCEPT ![x].crm = "failed"]
  /\ webhooks' = [webhooks EXCEPT ![x].failed = webhooks[x].failed - 1]
  /\ Bounded /\ UNCHANGED <<event, reg, docs, sub, staff, told, history>>

RecordNowhere(x) ==
  /\ webhooks[x].ok + webhooks[x].failed > 0 /\ x \notin Responses
  /\ ProcessEnds
  /\ Bounded /\ UNCHANGED <<event, reg, resp, docs, told, notified>>

Crash ==
  /\ Fault /\ ProcessEnds
  /\ UNCHANGED <<event, reg, resp, docs, told, received, edits, notified>>

-----------------------------------------------------------------------------
(* Uploads: uploadTemporary, and the prune of what is older than a day. *)

Upload(d) ==
  /\ docs[d] = "none" /\ event \in {"published", "ended"}
  /\ docs' = [docs EXCEPT ![d] = "tmp"]
  /\ Bounded /\ UNCHANGED <<event, reg, resp, sub, webhooks, staff, told, history>>

Prune(d) ==
  /\ docs[d] = "tmp" /\ Edit
  /\ docs' = [docs EXCEPT ![d] = "pruned"]
  /\ UNCHANGED <<event, reg, resp, sub, webhooks, staff, told, received, faults, history>>

-----------------------------------------------------------------------------
(* The staff. *)

\* importMany, one line of the file, told from the others by its phone: neither the
\* status nor the capacity is asked for.
StartImport(u) ==
  \E f \in EventForms, p \in Phones :
    /\ sub[u].at = "idle" /\ received < MaxReceived /\ received' = received + 1
    /\ Known(f, p) = {}
    /\ GoesOn(u, [NoSub EXCEPT !.at = "import", !.form = f, !.phone = p])
    /\ UNCHANGED <<event, reg, resp, docs, webhooks, staff, told, edits, faults, history>>

ImportRow(u) ==
  LET s == sub[u] IN
  /\ s.at = "import"
  /\ \/ \E r \in Regs :
          /\ reg[r].is = "free" /\ FreshReg(r) /\ ~Taken(s.form, s.phone)
          /\ Created(u, r, "imported")
          /\ sub' = [v \in Subs |-> IF v = u THEN NoSub
                                    ELSE [sub[v] EXCEPT !.raced = sub[v].at = "create"]]
     \/ Taken(s.form, s.phone) /\ Answers(u) /\ UNCHANGED reg
  /\ Bounded /\ UNCHANGED <<event, resp, docs, webhooks, staff, told, history>>

\* updateStatus of a registration: every status may follow every other one.
SetStatus(r) ==
  \E s \in FunnelStatuses \ {reg[r].status} :
    /\ r \in Rows /\ Edit
    /\ reg' = [reg EXCEPT ![r].status = s, ![r].late = reg[r].late \/ event # "published"]
    /\ UNCHANGED <<event, resp, docs, sub, webhooks, staff, told, received, faults, history>>

\* deleteMany: the responses and the messages go with the registration.
DeleteReg(r) ==
  /\ r \in Rows /\ Edit
  /\ reg' = [reg EXCEPT ![r].is = "gone"]
  /\ resp' = [x \in Resps |-> IF resp[x].reg = r THEN [resp[x] EXCEPT !.is = "gone"] ELSE resp[x]]
  /\ told' = told \ {r}
  /\ UNCHANGED <<event, docs, sub, webhooks, staff, received, faults, history>>

DeleteResp(x) ==
  /\ x \in Responses /\ Edit
  /\ resp' = [resp EXCEPT ![x].is = "gone"]
  /\ UNCHANGED <<event, reg, docs, sub, webhooks, staff, told, received, faults, history>>

\* STATUS_TRANSITIONS, judged by the status as read; the write comes later.
Transitions == [draft |-> {"published", "cancelled"}, published |-> {"cancelled", "ended"},
                cancelled |-> {}, ended |-> {}]

ReadEvent(a) ==
  \E to \in Transitions[event] :
    /\ staff[a].at = "idle" /\ Edit
    /\ staff' = [staff EXCEPT ![a] = [NoStaff EXCEPT !.at = "write", !.to = to]]
    /\ UNCHANGED <<event, reg, resp, docs, sub, webhooks, told, received, faults, history>>

\* EventService.updateStatus, or EventLifecycleService.cancel with or without notices.
WriteEvent(a) ==
  LET others == [b \in Staff |-> [staff[b] EXCEPT !.clean = FALSE]] IN
  /\ staff[a].at = "write"
  /\ event' = staff[a].to /\ notified' = FALSE
  /\ \/ /\ staff[a].to = "cancelled"
        /\ staff' = [others EXCEPT ![a] = [staff[a] EXCEPT !.at = "list", !.clean = TRUE]]
     \/ staff' = [others EXCEPT ![a] = NoStaff]
  /\ Bounded /\ UNCHANGED <<reg, resp, docs, sub, webhooks, told, delivered, muddled>>

ApprovedOnly == {r \in Rows : reg[r].status = "approved"}
ActiveRegs == {r \in Rows : reg[r].status \in {"approved", "pending"}}

\* notifyCancellation: findActiveByEvent; without a template nobody is told.
ListActive(a) ==
  /\ staff[a].at = "list"
  /\ \/ staff' = [staff EXCEPT ![a].at = "tell", ![a].left = ActiveRegs]
     \/ staff' = [staff EXCEPT ![a] = NoStaff]
  /\ Bounded /\ UNCHANGED <<event, reg, resp, docs, sub, webhooks, told, history>>

\* enqueue for one of them: the message is stored; the registration is gone; or the
\* call fails, which is logged before the next one is tried.
Tell(a) ==
  \E r \in staff[a].left :
    /\ staff[a].at = "tell"
    /\ \/ /\ told' = IF r \in Rows THEN told \cup {r} ELSE told
          /\ staff' = [staff EXCEPT ![a].left = staff[a].left \ {r}]
          /\ UNCHANGED faults
       \/ /\ staff' = [staff EXCEPT ![a].left = staff[a].left \ {r}, ![a].clean = FALSE]
          /\ Fault /\ UNCHANGED told
    /\ UNCHANGED <<event, reg, resp, docs, sub, webhooks, received, edits, history>>

TellEnds(a) ==
  /\ staff[a].at = "tell" /\ staff[a].left = {}
  /\ staff' = [staff EXCEPT ![a] = NoStaff]
  /\ notified' = (notified \/ staff[a].clean)
  /\ Bounded /\ UNCHANGED <<event, reg, resp, docs, sub, webhooks, told, delivered, muddled>>

NextDesk ==
  \/ \E u \in Subs :
       \/ SubmitForm(u) \/ Promote(u) \/ Find(u) \/ Count(u) \/ Create(u) \/ Respond(u)
       \/ RespondAnonymously(u) \/ Dispatch(u) \/ StartImport(u) \/ ImportRow(u)
  \/ \E x \in Resps :
       \/ CallEnds(x) \/ RecordSent(x) \/ RecordFailed(x) \/ RecordNowhere(x) \/ DeleteResp(x)
  \/ \E r \in Regs : SetStatus(r) \/ DeleteReg(r)
  \/ \E d \in Docs : Upload(d) \/ Prune(d)
  \/ \E a \in Staff : ReadEvent(a) \/ WriteEvent(a) \/ ListActive(a) \/ Tell(a) \/ TellEnds(a)
  \/ Crash

SpecDesk == InitDesk /\ [][NextDesk]_deskVars
=============================================================================
