--------------------------- MODULE FormAnswersProps ---------------------------
(* What the forms promise to those who answer and to the rules scoped to them. *)
EXTENDS FormAnswers

\* The type of every variable of the forms; a rule is scoped to forms that exist.
TypeOKForms ==
  /\ form \in [Forms -> [is : {"free", "row", "gone"}, slug : Slugs \cup {None}]]
  /\ field \in [Fields -> [is : {"free", "row", "gone"}, form : Forms \cup {None},
                           label : Labels \cup {None}, kind : Kinds, required : BOOLEAN]]
  /\ rule \in [Rules -> [is : {"free", "row"}, trigger : Triggers, active : BOOLEAN,
                         forms : SUBSET Forms, chosen : SUBSET Forms]]
  /\ \A w \in ScopedRules : rule[w].forms \subseteq FormRows
  /\ regAns \in [Visits -> [Fields -> Values]] /\ respAns \in [Visits -> [Fields -> Values]]
  /\ fired \subseteq Rules \X Forms /\ requests \in Nat
  /\ bypassed \subseteq Rules /\ drift \subseteq Visits

Untouched(v) == \A e \in Editors : \A x \in Fields : regAns[v][x] # e

\* What is answered under a label is stored under the field that had it: no required
\* answer is lost, whatever the staff did to the form while the page was open; and when
\* they did nothing, each answer is under its own field, unless two fields share a label.
\* (Answers sent under ids, and registrations whose answers the staff edited, are apart.)
AnswersReachTheirField ==
  \A v \in Visits :
    LET p == visit[v] IN
    (p.is = "sent" /\ p.by = "label" /\ v \notin drift /\ Untouched(v)) =>
      /\ \A x \in p.required : regAns[v][x] # None
      /\ ~p.changed => \A x \in Fields : \/ regAns[v][x] = IF x \in p.answered THEN x ELSE None
                                         \/ \E y \in p.answered \ {x} : p.page[y] = p.page[x]

\* Each form of an active on_date_form_field rule has its date field, though rules, fields
\* and kinds change at the same time; unless the guard of the deletion was got round: the
\* field was given another kind, or the rule came to be active past the check.
DateRuleHasItsField ==
  \A w \in ScopedRules :
    (rule[w].active /\ rule[w].trigger = "on_date_form_field" /\ w \notin bypassed) =>
      \A f \in rule[w].forms : DateFields(f) # {}

\* The registration and its response hold the same answers, which updateAnswers writes
\* one after the other, unless two requests overlapped or one failed in between.
CopiesAgree ==
  \A v \in Visits :
    (v \notin drift /\ \A e \in Editors : ~(ed[e].at = "merge" /\ ed[e].visit = v)) =>
      regAns[v] = respAns[v]

\* A rule sends for the forms it was scoped to.
ScopeIsKept ==
  \A m \in fired : m[2] \in rule[m[1]].chosen
=============================================================================
