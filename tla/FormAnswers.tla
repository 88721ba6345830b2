----------------------------- MODULE FormAnswers -----------------------------
(***************************************************************************)
(* The forms of one event, their fields, the rules scoped to them, and     *)
(* what becomes of the answers (form.service.ts, form-field.service.ts,    *)
(* answer-validation.ts, automation.service.ts).                           *)
(*                                                                         *)
(* People answer by label, the database keeps answers by field id, and the *)
(* staff may rename, retype and remove fields and forms at any time.  Each *)
(* request checks with one query and writes with another.                  *)
(***************************************************************************)
EXTENDS Integers, FiniteSets, Nulls

CONSTANTS
  Forms, Fields, Rules,   \* ids, never used twice
  Slugs, Labels,          \* names, as normalised (generateSlug, normalizeAnswerKey)
  Editors,                \* requests of the staff in flight
  Visits,                 \* people with the page of a form open
  MaxRequests             \* bound: requests of the staff

ASSUME FormsAssumption ==
  MaxRequests \in Nat /\ {None, Keep} \cap (Forms \cup Fields \cup Rules \cup Slugs \cup Labels) = {}

VARIABLES
  form,      \* rows of forms
  field,     \* rows of form_fields
  rule,      \* rows of automation_rules, with their automation_rule_forms
  ed,        \* ed[e]: the locals of request e
  visit,     \* visit[v]: the page, and what was sent from it
  regAns, respAns,   \* answers of the registration and of the response of visit v
  fired,     \* <<rule, form>>: a submission to the form made the rule send
  requests,
  bypassed,  \* history: rules that came by their field's guard: see Bypasses
  drift      \* history: visits whose two copies were written by overlapping requests

formVars == <<form, field, rule, ed, visit, regAns, respAns, fired, requests, bypassed, drift>>

\* The kinds of a field that matter here: on_date_automation_field, and the others.
Kinds == {"date", "other"}
Triggers == {"on_form_submitted", "on_date_form_field"}
Values == Fields \cup Editors \cup {None}    \* what was written as the answer to a field

NoForm == [is |-> "free", slug |-> None]
NoField == [is |-> "free", form |-> None, label |-> None, kind |-> "other", required |-> FALSE]
NoScopedRule == [is |-> "free", trigger |-> "on_form_submitted", active |-> FALSE, forms |-> {},
                 chosen |-> {}]                 \* history: the forms its author asked for
NoEdit == [at |-> "idle", form |-> None, field |-> None, rule |-> None, slug |-> None,
           label |-> None, kind |-> "other", trigger |-> "on_form_submitted", forms |-> {},
           visit |-> None, read |-> [x \in Fields |-> None]]
NoPage == [is |-> "closed", form |-> None, page |-> [x \in Fields |-> None],
           answered |-> {}, required |-> {}, by |-> "label",
           changed |-> FALSE]             \* history: the form was edited since the page was read

FormRows == {f \in Forms : form[f].is = "row"}
FieldsOf(f) == {x \in Fields : field[x].is = "row" /\ field[x].form = f}
DateFields(f) == {x \in FieldsOf(f) : field[x].kind = "date"}
ScopedRules == {w \in Rules : rule[w].is = "row"}

\* A new row has a new id, any one.
FreshForm(f) == f = CHOOSE g \in Forms : form[g].is = "free"
FreshField(x) == x = CHOOSE y \in Fields : field[y].is = "free"

\* Any forms and fields that requests one at a time could have left.
InitForms ==
  /\ form \in [Forms -> {NoForm} \cup [is : {"row"}, slug : Slugs]]
  /\ \A f, g \in FormRows : f # g => form[f].slug # form[g].slug
  /\ field \in [Fields -> {NoField} \cup [is : {"row"}, form : FormRows, label : Labels,
                                          kind : Kinds, required : BOOLEAN]]
  /\ \A f \in Forms : Cardinality(DateFields(f)) <= 1
  /\ rule = [w \in Rules |-> NoScopedRule]
  /\ ed = [e \in Editors |-> NoEdit] /\ visit = [v \in Visits |-> NoPage]
  /\ regAns = [v \in Visits |-> [x \in Fields |-> None]]
  /\ respAns = [v \in Visits |-> [x \in Fields |-> None]]
  /\ fired = {} /\ requests = 0 /\ bypassed = {} /\ drift = {}

-----------------------------------------------------------------------------
(* The requests of the staff: each Start reads and checks, each other step writes. *)

Start(e, r) ==
  /\ ed[e].at = "idle" /\ requests < MaxRequests /\ requests' = requests + 1
  /\ ed' = [ed EXCEPT ![e] = r]
  /\ UNCHANGED <<form, field, rule, visit, regAns, respAns, fired, bypassed, drift>>
Ends(e) == ed' = [ed EXCEPT ![e] = NoEdit]
FormChanged(f) == visit' = [v \in Visits |->
  IF visit[v].form = f /\ visit[v].is = "open" THEN [visit[v] EXCEPT !.changed = TRUE] ELSE visit[v]]
Others == UNCHANGED <<regAns, respAns, fired, requests, drift>>

SlugHolders(s) == {f \in FormRows : form[f].slug = s}

\* FormService.create and update: the slug is looked up first (409) and is unique in the
\* database, which turns away the second of two simultaneous requests.
StartForm(e) ==
  \E s \in Slugs : SlugHolders(s) = {} /\ Start(e, [NoEdit EXCEPT !.at = "form", !.slug = s])
StartRename(e) ==
  \E f \in FormRows : \E s \in Slugs \ {form[f].slug} :
    SlugHolders(s) = {} /\ Start(e, [NoEdit EXCEPT !.at = "form", !.slug = s, !.form = f])

WriteForm(e) ==
  LET r == ed[e] IN
  /\ r.at = "form" /\ Ends(e)
  /\ \/ /\ SlugHolders(r.slug) = {}
        /\ \E f \in Forms :
             /\ IF r.form = None THEN form[f].is = "free" /\ FreshForm(f)
                ELSE f = r.form /\ f \in FormRows
             /\ form' = [form EXCEPT ![f] = [is |-> "row", slug |-> r.slug]]
     \/ /\ SlugHolders(r.slug) # {} \/ r.form \notin FormRows \cup {None}
        /\ UNCHANGED form
  /\ UNCHANGED <<field, rule, visit, bypassed>> /\ Others

\* FormService.delete: fields, responses and the rows that scope rules go by cascade.
DeleteForm(e) ==
  \E f \in FormRows :
    /\ ed[e].at = "idle" /\ requests < MaxRequests /\ requests' = requests + 1
    /\ form' = [form EXCEPT ![f].is = "gone"]
    /\ field' = [x \in Fields |-> IF x \in FieldsOf(f) THEN [field[x] EXCEPT !.is = "gone"] ELSE field[x]]
    /\ rule' = [w \in Rules |-> [rule[w] EXCEPT !.forms = rule[w].forms \ {f}]]
    /\ respAns' = [v \in Visits |->
         IF visit[v].form = f THEN [x \in Fields |-> None] ELSE respAns[v]]
    /\ drift' = drift \cup {v \in Visits : visit[v].form = f}
    /\ FormChanged(f) /\ UNCHANGED <<ed, regAns, fired, bypassed>>

\* assertSingleAutomationDateField.
MayBe(kind, f, x) == kind = "date" => DateFields(f) \ {x} = {}

StartField(e) ==
  \E f \in FormRows, l \in Labels, k \in Kinds :
    /\ MayBe(k, f, None)
    /\ Start(e, [NoEdit EXCEPT !.at = "field", !.form = f, !.label = l, !.kind = k])

\* FormFieldService.update: the new kind is checked, but not the rules that use the field.
StartFieldUpdate(e) ==
  \E x \in Fields, l \in Labels \cup {Keep}, k \in Kinds \cup {Keep} :
    /\ field[x].is = "row" /\ {l, k} # {Keep} /\ MayBe(k, field[x].form, x)
    /\ Start(e, [NoEdit EXCEPT !.at = "field", !.form = field[x].form, !.field = x,
                               !.label = l, !.kind = k])

\* For the record: the active date rules of a field that is given another kind, which
\* only its deletion asks about ...
Retyped(x, k) == {w \in ScopedRules : /\ rule[w].active /\ field[x].form \in rule[w].forms
                                       /\ rule[w].trigger = "on_date_form_field"
                                       /\ field[x].kind = "date" /\ k \notin {"date", Keep}}

\* A new field is a required one here.
WriteField(e) ==
  LET r == ed[e] IN
  /\ r.at = "field" /\ Ends(e)
  /\ \/ \E x \in Fields :
          /\ IF r.field = None THEN field[x].is = "free" /\ FreshField(x) /\ r.form \in FormRows
                               ELSE x = r.field /\ field[x].is = "row"
          /\ field' = [field EXCEPT ![x] = [is |-> "row", form |-> r.form,
                         label |-> IF r.label = Keep THEN field[x].label ELSE r.label,
                         kind |-> IF r.kind = Keep THEN field[x].kind ELSE r.kind,
                         required |-> r.field = None \/ field[x].required]]
          /\ bypassed' = bypassed \cup Retyped(x, r.kind)
          /\ FormChanged(r.form)
     \/ /\ \/ r.field = None /\ r.form \notin FormRows
           \/ r.field # None /\ field[r.field].is # "row"
        /\ UNCHANGED <<field, visit, bypassed>>
  /\ UNCHANGED <<form, rule>> /\ Others

\* FormFieldService.delete: the field of an active date rule stays (409).
FeedsSubmitted(x) == \E w \in ScopedRules : /\ rule[w].active /\ field[x].form \in rule[w].forms
                                             /\ rule[w].trigger = "on_form_submitted"
Feeds(x) == \E w \in ScopedRules : /\ rule[w].active /\ rule[w].trigger = "on_date_form_field"
                                    /\ field[x].form \in rule[w].forms
StartFieldDelete(e) ==
  \E x \in Fields :
    /\ field[x].is = "row"
    /\ field[x].kind = "date" => ~Feeds(x)
    /\ Start(e, [NoEdit EXCEPT !.at = "drop", !.field = x])

DropField(e) ==
  LET x == ed[e].field IN
  /\ ed[e].at = "drop" /\ Ends(e)
  /\ IF field[x].is = "row"
     THEN /\ field' = [field EXCEPT ![x].is = "gone"]
          /\ FormChanged(field[x].form)
     ELSE UNCHANGED <<field, visit>>
  /\ UNCHANGED <<form, rule, bypassed>> /\ Others

-----------------------------------------------------------------------------
(* Rules scoped to forms (AutomationService.create, and a patch that reactivates). *)

\* assertFormsBelongToEvent.
MayScope(fs, t) == \A f \in fs : f \in FormRows /\ (t = "on_date_form_field" => DateFields(f) # {})

\* ... and a rule that becomes active while the field it needs is gone or going.
Bypasses(fs, t) == ~MayScope(fs, t) \/ \E e \in Editors :
  ed[e].at = "drop" /\ field[ed[e].field].kind = "date" /\ field[ed[e].field].form \in fs

StartRule(e) ==
  \E t \in Triggers, fs \in SUBSET Forms \ {{}} :
    MayScope(fs, t) /\ Start(e, [NoEdit EXCEPT !.at = "rule", !.trigger = t, !.forms = fs])

InsertRule(e) ==
  LET r == ed[e] IN
  /\ r.at = "rule" /\ Ends(e)
  /\ IF r.forms \subseteq FormRows
     THEN \E w \in Rules :
            /\ rule[w].is = "free"
            /\ rule' = [rule EXCEPT ![w] = [is |-> "row", trigger |-> r.trigger, active |-> TRUE,
                                            forms |-> r.forms, chosen |-> r.forms]]
            /\ bypassed' = IF Bypasses(r.forms, r.trigger) THEN bypassed \cup {w} ELSE bypassed
     ELSE UNCHANGED <<rule, bypassed>>
  /\ UNCHANGED <<form, field, visit>> /\ Others

\* A patch of `active` alone does not look at the forms again.
SetActive(e) ==
  \E w \in ScopedRules :
    /\ ed[e].at = "idle" /\ requests < MaxRequests /\ requests' = requests + 1
    /\ rule' = [rule EXCEPT ![w].active = ~rule[w].active]
    /\ bypassed' = IF ~rule[w].active /\ Bypasses(rule[w].forms, rule[w].trigger)
                      THEN bypassed \cup {w} ELSE bypassed
    /\ UNCHANGED <<form, field, ed, visit, regAns, respAns, fired, drift>>

-----------------------------------------------------------------------------
(* A person answers. *)

\* listPublicByForm.
OpenPage(v) ==
  \E f \in FormRows :
    /\ visit[v].is = "closed"
    /\ visit' = [visit EXCEPT ![v] = [NoPage EXCEPT !.is = "open", !.form = f,
         !.page = [x \in Fields |-> IF x \in FieldsOf(f) THEN field[x].label ELSE None]]]
    /\ UNCHANGED <<form, field, rule, ed, regAns, respAns, fired, requests, bypassed, drift>>

\* matchesForm: no form listed means every form.
Fires(f) == {<<w, f>> : w \in {w \in ScopedRules : /\ rule[w].active
                                                   /\ rule[w].trigger = "on_form_submitted"
                                                   /\ rule[w].forms = {} \/ f \in rule[w].forms}}

\* buildAnswerLookup: of two answers under one label the later key stays.
Lookups(page, ans) == {sent \in [{page[x] : x \in ans} -> ans] :
                        \A l \in DOMAIN sent : page[sent[l]] = l}

\* resolveFieldAnswer: the answer under the field's id, or else under its label.
Resolves(x, by, ans, sent) == IF by = "id" THEN x \in ans ELSE field[x].label \in DOMAIN sent

\* mapAnswersToFieldIds: both fields of one label get its answer; an answer under an id
\* is not looked at.
MappedOnce(f, sent) == [x \in Fields |->
  IF x \in FieldsOf(f) /\ \E l \in DOMAIN sent : l = field[x].label /\ sent[l] = x
  THEN x ELSE None]
Mapped(f, sent) == [x \in Fields |->
  IF x \in FieldsOf(f) /\ field[x].label \in DOMAIN sent THEN sent[field[x].label] ELSE None]

\* submitForm: validateAnswers resolves each required field by id or by label, then the
\* answers are stored, for a new registration and its response, by id.
SubmitPage(v) ==
  LET p == visit[v]
      shown == {x \in Fields : p.page[x] # None}
      now == FieldsOf(p.form)
      needed == {x \in now : field[x].required} IN
  \E ans \in SUBSET shown, by \in {"label", "id"} :
  \E sent \in Lookups(p.page, ans) :
    /\ p.is = "open" /\ p.form \in FormRows
    /\ \A x \in needed : Resolves(x, by, ans, sent)
    /\ LET stored == IF by = "id" THEN [x \in Fields |-> None] ELSE Mapped(p.form, sent) IN
       /\ regAns' = [regAns EXCEPT ![v] = stored]
       /\ respAns' = [respAns EXCEPT ![v] = stored]
    /\ visit' = [visit EXCEPT ![v] = [p EXCEPT !.is = "sent", !.answered = ans, !.by = by,
                                              !.required = needed]]
    /\ fired' = fired \cup Fires(p.form)
    /\ UNCHANGED <<form, field, rule, ed, requests, bypassed, drift>>

\* RegistrationService.updateAnswers, from the panel: the registration's answers as read
\* are merged in memory and written whole ...
StartAnswers(e) ==
  \E v \in Visits, x \in Fields :
    /\ visit[v].is = "sent" /\ x \in FieldsOf(visit[v].form)
    /\ Start(e, [NoEdit EXCEPT !.at = "answers", !.visit = v, !.field = x, !.read = regAns[v]])

Editing(v) == {e \in Editors : ed[e].visit = v}

WriteAnswers(e) ==
  LET r == ed[e] IN
  /\ r.at = "answers"
  /\ regAns' = [regAns EXCEPT ![r.visit] = [r.read EXCEPT ![r.field] = e]]
  /\ drift' = IF Editing(r.visit) = {e} THEN drift ELSE drift \cup {r.visit}
  /\ ed' = [ed EXCEPT ![e].at = "merge"]
  /\ UNCHANGED <<form, field, rule, visit, respAns, fired, requests, bypassed>>

\* ... and the response's are merged in the database, if it still has a row.
ReplacedIn(old, x, e) == [y \in Fields |-> IF y = x THEN e ELSE None]
MergedIn(old, x, e) == [old EXCEPT ![x] = e]

MergeAnswers(e) ==
  LET r == ed[e]
      v == r.visit IN
  /\ r.at = "merge" /\ Ends(e)
  /\ respAns' = IF visit[v].form \in FormRows
              THEN [respAns EXCEPT ![v] = MergedIn(respAns[v], r.field, e)] ELSE respAns
  /\ drift' = IF Editing(v) = {e} THEN drift ELSE drift \cup {v}
  /\ UNCHANGED <<form, field, rule, visit, regAns, fired, requests, bypassed>>

\* The process dies, or a query fails, between the two writes or before them.
Fails(e) ==
  /\ ed[e].at # "idle" /\ Ends(e)
  /\ drift' = IF ed[e].at = "merge" THEN drift \cup {ed[e].visit} ELSE drift
  /\ UNCHANGED <<form, field, rule, visit, regAns, respAns, fired, requests, bypassed>>

NextForms ==
  \/ \E e \in Editors :
       \/ StartForm(e) \/ StartRename(e) \/ WriteForm(e) \/ DeleteForm(e)
       \/ StartField(e) \/ StartFieldUpdate(e) \/ WriteField(e)
       \/ StartFieldDelete(e) \/ DropField(e)
       \/ StartRule(e) \/ InsertRule(e) \/ SetActive(e)
       \/ StartAnswers(e) \/ WriteAnswers(e) \/ MergeAnswers(e) \/ Fails(e)
  \/ \E v \in Visits : OpenPage(v) \/ SubmitPage(v)

SpecForms == InitForms /\ [][NextForms]_formVars
=============================================================================
