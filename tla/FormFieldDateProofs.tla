------------------------- MODULE FormFieldDateProofs -------------------------
(***************************************************************************)
(* Proofs about FormFieldDate, for any calendar, any rules, responses and  *)
(* page size, any tolerance below a day, and any faults and edits.         *)
(***************************************************************************)
EXTENDS FormFieldDateProps, FiniteSetTheorems, TLAPS

LEMMA Constants ==
  /\ Rules \subseteq Nat /\ Regs \subseteq Nat /\ Answers \subseteq Nat
  /\ SendTimes \subseteq 0 .. DayTicks - 1
  /\ PageSize \in Nat \ {0} /\ LastDay \in Nat
  /\ DayTicks \in Nat /\ Tolerance \in Nat /\ Tolerance < DayTicks
  BY RuleAssumption, ToleranceAssumption

-----------------------------------------------------------------------------
(* The calendar. *)

LEMMA Calendar ==
  /\ LastMonth \in Nat /\ Start \in [0 .. LastMonth + 1 -> Nat] /\ Start[0] = 0
  /\ LastTick \in Nat /\ LastTick >= 1
  /\ \A m \in Months : m \in 0 .. LastMonth + 1 /\ m + 1 \in 0 .. LastMonth + 1
  /\ \A m \in Months : Start[m] \in Nat /\ Start[m + 1] \in Nat /\ Start[m] < Start[m + 1]
<1>1. /\ LastMonth \in Nat /\ Start \in [0 .. LastMonth + 1 -> Nat] /\ Start[0] = 0
      /\ LastTick >= 1
  BY CalendarAssumption
<1>2. \A m \in Months : m \in 0 .. LastMonth + 1 /\ m + 1 \in 0 .. LastMonth + 1 /\ m < m + 1
  BY <1>1 DEF Months
<1>3. \A m \in Months : Start[m] \in Nat /\ Start[m + 1] \in Nat
  BY <1>1, <1>2
<1>4. \A m, n \in 0 .. LastMonth + 1 : m < n => Start[m] < Start[n]
  BY CalendarAssumption
<1>5. \A m \in Months : Start[m] < Start[m + 1]
  BY <1>2, <1>4
<1>6. LastTick \in Nat
  <2>1. LastMonth + 1 \in 0 .. LastMonth + 1
    BY <1>1
  <2>2. Start[LastMonth + 1] \in Nat
    BY <1>1, <2>1
  <2> QED
    BY <1>1, <2>2 DEF LastTick
<1> QED
  BY <1>1, <1>2, <1>3, <1>5, <1>6

\* Every day up to the clock's last has one month.
LEMMA MonthOfDay ==
  ASSUME NEW d \in 0 .. LastTick
  PROVE  MonthOf(d) \in Months /\ Start[MonthOf(d)] <= d /\ d < Start[MonthOf(d) + 1]
<1>1. \E m \in Months : Start[m] <= d /\ d < Start[m + 1]
  BY CalendarAssumption
<1> QED
  BY <1>1 DEF MonthOf

LEMMA MonthIsUnique ==
  ASSUME NEW d \in 0 .. LastTick, NEW m \in Months, Start[m] <= d, d < Start[m + 1]
  PROVE  MonthOf(d) = m
<1> DEFINE n == MonthOf(d)
<1>1. n \in Months /\ Start[n] <= d /\ d < Start[n + 1]
  BY MonthOfDay
<1> HIDE DEF n
<1>2. \A i, j \in 0 .. LastMonth + 1 : i < j => Start[i] < Start[j]
  BY CalendarAssumption
<1>3. ~ n < m
  <2> SUFFICES ASSUME n < m PROVE FALSE
    OBVIOUS
  <2>1. n + 1 = m \/ n + 1 < m
    BY <1>1, Calendar DEF Months
  <2>2. Start[n + 1] <= Start[m]
    BY <2>1, <1>1, <1>2, Calendar
  <2> QED
    BY <2>2, <1>1, Calendar
<1>4. ~ m < n
  <2> SUFFICES ASSUME m < n PROVE FALSE
    OBVIOUS
  <2>1. m + 1 = n \/ m + 1 < n
    BY <1>1, Calendar DEF Months
  <2>2. Start[m + 1] <= Start[n]
    BY <2>1, <1>1, <1>2, Calendar
  <2> QED
    BY <2>2, <1>1, Calendar
<1>5. n = m
  BY <1>1, <1>3, <1>4, Calendar DEF Months
<1> QED
  BY <1>5 DEF n

LEMMA TargetInMonth ==
  ASSUME NEW m \in Months, NEW day \in Nat \ {0}
  PROVE  /\ TargetDay(day, m) \in Nat
         /\ Start[m] <= TargetDay(day, m) /\ TargetDay(day, m) < Start[m + 1]
<1>1. Start[m] \in Nat /\ Start[m + 1] \in Nat /\ Start[m] < Start[m + 1]
  BY Calendar
<1> QED
  BY <1>1 DEF TargetDay

\* clampMatches accepts the target day of the anchor's month, and no other day.
LEMMA ClampIsTarget ==
  ASSUME NEW d \in 0 .. LastTick, NEW day \in Nat \ {0}
  PROVE  ClampMatches(day, d) <=> d = TargetDay(day, MonthOf(d))
<1> DEFINE m == MonthOf(d)
           length == Start[m + 1] - Start[m]
<1>1. /\ m \in Months /\ Start[m] <= d /\ d < Start[m + 1]
      /\ Start[m] \in Nat /\ Start[m + 1] \in Nat
  BY MonthOfDay, Calendar
<1>2. DayOf(d) = d - Start[m] + 1 /\ DaysInMonth(d) = length
  BY DEF DayOf, DaysInMonth
<1>3. TargetDay(day, m) = Start[m] + (IF day <= length THEN day ELSE length) - 1
  BY DEF TargetDay
<1>4. ClampMatches(day, d) <=> day = DayOf(d) \/ (DayOf(d) = DaysInMonth(d) /\ day > DaysInMonth(d))
  BY DEF ClampMatches
<1> HIDE DEF m
<1>5. ASSUME day <= length PROVE ClampMatches(day, d) <=> d = TargetDay(day, m)
  BY <1>1, <1>2, <1>3, <1>4, <1>5
<1>6. ASSUME ~ day <= length PROVE ClampMatches(day, d) <=> d = TargetDay(day, m)
  BY <1>1, <1>2, <1>3, <1>4, <1>6
<1>7. ClampMatches(day, d) <=> d = TargetDay(day, m)
  BY <1>5, <1>6
<1> QED
  BY <1>7 DEF m

\* In each month of any length the sweep finds exactly one day for every answered day,
\* the 29th to the 31st of short months included (clampMatches, :311-322).
THEOREM ClampOnce ==
  ASSUME NEW m \in Months, NEW day \in Nat \ {0}
  PROVE  /\ TargetDay(day, m) \in 0 .. LastTick
         /\ \A d \in 0 .. LastTick :
              MonthOf(d) = m => (ClampMatches(day, d) <=> d = TargetDay(day, m))
         /\ MonthOf(TargetDay(day, m)) = m
<1>1. /\ TargetDay(day, m) \in Nat
      /\ Start[m] <= TargetDay(day, m) /\ TargetDay(day, m) < Start[m + 1]
  BY TargetInMonth
<1>2. Start[m + 1] <= Start[LastMonth + 1] /\ Start[LastMonth + 1] \in Nat
  <2>1. /\ m + 1 \in 0 .. LastMonth + 1 /\ LastMonth + 1 \in 0 .. LastMonth + 1
        /\ m + 1 = LastMonth + 1 \/ m + 1 < LastMonth + 1
    BY Calendar DEF Months
  <2>2. m + 1 < LastMonth + 1 => Start[m + 1] < Start[LastMonth + 1]
    BY <2>1, CalendarAssumption
  <2>3. Start[m + 1] \in Nat /\ Start[LastMonth + 1] \in Nat
    BY <2>1, Calendar
  <2> QED
    BY <2>1, <2>2, <2>3
<1>3. TargetDay(day, m) \in 0 .. LastTick
  BY <1>1, <1>2, Calendar DEF LastTick
<1>4. MonthOf(TargetDay(day, m)) = m
  BY <1>1, <1>3, MonthIsUnique
<1> QED
  BY <1>3, <1>4, ClampIsTarget

\* resolveWindow never finds two anchors: with a tolerance below a day, today's and
\* yesterday's windows of one rule are never both open (:38-40, :287-293).
THEOREM AnchorIsUnique ==
  ASSUME NEW t \in [day : Int, tick : 0 .. DayTicks - 1], NEW time \in 0 .. DayTicks - 1,
         NEW a \in Anchors(t, time), NEW b \in Anchors(t, time)
  PROVE  a = b
<1>1. /\ t.day \in Int /\ t.tick \in Int /\ time \in Int
      /\ DayTicks \in Nat /\ Tolerance \in Nat /\ Tolerance < DayTicks
  BY Constants
<1>2. /\ a \in {t.day, t.day - 1} /\ 0 <= Late(t, a, time) /\ Late(t, a, time) < Tolerance
      /\ b \in {t.day, t.day - 1} /\ 0 <= Late(t, b, time) /\ Late(t, b, time) < Tolerance
  BY DEF Anchors
<1>3. Late(t, t.day, time) = t.tick - time
  BY DEF Late
<1>4. Late(t, t.day - 1, time) = t.tick + DayTicks - time
  <2>1. t.day - 1 # t.day
    BY <1>1
  <2> QED
    BY <1>1, <2>1 DEF Late
<1>5. ~ (0 <= t.tick - time /\ t.tick + DayTicks - time < Tolerance)
  BY <1>1
<1> QED
  BY <1>2, <1>3, <1>4, <1>5

-----------------------------------------------------------------------------
(* The inductive invariant. *)

\* A window, or a match, a sweep holds names its anchor's month, and the day matched.
WindowGood(w) == w \in Window /\ w.anchor \in 0 .. now.day /\ w.month = MonthOf(w.anchor)
MatchGood(m) ==
  /\ m \in Match /\ WindowGood(m.win)
  /\ m.day # 0 /\ ClampMatches(m.day, m.win.anchor)
LocalsGood(loc) ==
  /\ loc \in Locals
  /\ loc.at = "rules" => loc.top.day \in 1 .. now.day
  /\ \A w \in loc.windows : WindowGood(w)
  /\ \A m \in loc.todo \cup loc.item : MatchGood(m)

ClockGood == now.day \in 1 .. LastTick
HandsGood == \A p \in Replicas : LocalsGood(sweep[p])
MessageGood(x) ==
  /\ x.anchor \in 0 .. now.day
  /\ x.month = MonthOf(x.anchor) /\ x.anchor = TargetDay(x.day, x.month)
OutboxGood == \A x \in outbox : MessageGood(x)
KeyIsUnique == \A x, y \in outbox : Key(x) = Key(y) => x = y

MonthlyInv == TypeOK /\ ClockGood /\ HandsGood /\ OutboxGood /\ KeyIsUnique

\* What a sweep may do to the state it shares.
Shape(p) ==
  /\ \E loc \in Locals : sweep' = [sweep EXCEPT ![p] = loc] /\ LocalsGood(loc)
  /\ \/ outbox' = outbox
     \/ \E x \in Message : /\ MessageGood(x)
                           /\ \A y \in outbox : Key(y) # Key(x)
                           /\ outbox' = outbox \cup {x}
  /\ owed' \subseteq owed /\ faults' \in Nat
  /\ UNCHANGED <<now, rows, edits>>

LEMMA IdleGood == LocalsGood(Idle)
<1>1. [day |-> 0, tick |-> 0] \in Instant
  BY Constants DEF Instant
<1> QED
  BY <1>1 DEF Idle, Locals, LocalsGood

\* A step that moves nothing but the locals of p.
LEMMA OnlyLocals ==
  ASSUME NEW p \in Replicas, NEW loc, LocalsGood(loc),
         sweep' = [sweep EXCEPT ![p] = loc], faults' \in Nat,
         UNCHANGED <<now, rows, outbox, edits, owed>>
  PROVE  Shape(p)
  BY DEF Shape, LocalsGood

LEMMA StartShape ==
  ASSUME MonthlyInv, NEW p \in Replicas, StartSweep(p)
  PROVE  Shape(p)
<1> DEFINE loc == [Idle EXCEPT !.at = "rules", !.top = now]
<1>1. now \in Instant /\ now.day \in 1 .. now.day /\ faults \in Nat
  BY DEF MonthlyInv, TypeOK, ClockGood, Instant
<1>2. LocalsGood(loc)
  BY <1>1, IdleGood DEF Idle, Locals, LocalsGood
<1>3. sweep' = [sweep EXCEPT ![p] = loc] /\ faults' \in Nat
      /\ UNCHANGED <<now, rows, outbox, edits, owed>>
  BY <1>1 DEF StartSweep
<1> HIDE DEF loc
<1> QED
  BY <1>2, <1>3, OnlyLocals

LEMMA WindowsGood ==
  ASSUME MonthlyInv, NEW t \in Instant, t.day \in 1 .. now.day, NEW w \in Windows(t)
  PROVE  WindowGood(w)
<1>1. PICK r \in ActiveRules(t) : \E a \in Anchors(t, sendTime[r]) :
        w = [rule |-> r, anchor |-> a, month |-> MonthOf(a)]
  BY DEF Windows
<1>2. PICK a \in Anchors(t, sendTime[r]) :
        w = [rule |-> r, anchor |-> a, month |-> MonthOf(a)]
  BY <1>1
<1>3. r \in Rules
  BY <1>1 DEF ActiveRules, Oldest, MonthlyInv, TypeOK
<1>4. a \in {t.day, t.day - 1}
  BY <1>2 DEF Anchors
<1>5. now.day \in 1 .. LastTick /\ LastTick \in Nat
  BY Calendar DEF MonthlyInv, ClockGood
<1>6. a \in 0 .. now.day /\ a \in 0 .. LastTick /\ a \in Int
  BY <1>4, <1>5
<1>7. MonthOf(a) \in Months
  BY <1>6, MonthOfDay
<1> QED
  BY <1>2, <1>3, <1>6, <1>7 DEF WindowGood, Window

LEMMA HandTyped ==
  ASSUME MonthlyInv, NEW p \in Replicas
  PROVE  /\ LocalsGood(sweep[p]) /\ sweep[p] \in Locals
         /\ \A m \in sweep[p].todo \cup sweep[p].item : MatchGood(m)
         /\ \A w \in sweep[p].windows : WindowGood(w)
         /\ faults \in Nat
  BY DEF MonthlyInv, HandsGood, LocalsGood, TypeOK

LEMMA RulesShape ==
  ASSUME MonthlyInv, NEW p \in Replicas, ReadRules(p)
  PROVE  Shape(p)
<1> DEFINE wins == Windows(sweep[p].top)
           loc == [Idle EXCEPT !.at = "page", !.span = sweep[p].span, !.windows = wins]
           new == IF wins = {} THEN Idle ELSE loc
<1>1. sweep[p] \in Locals /\ faults \in Nat
  BY HandTyped
<1>2. sweep[p].top \in Instant /\ sweep[p].span \in Nat /\ sweep[p].top.day \in 1 .. now.day
  BY <1>1, HandTyped DEF Locals, LocalsGood, ReadRules
<1>3. \A w \in wins : WindowGood(w) /\ w \in Window
  BY <1>2, WindowsGood DEF WindowGood
<1>4. sweep' = [sweep EXCEPT ![p] = new] /\ faults' \in Nat
      /\ UNCHANGED <<now, rows, outbox, edits, owed>>
  BY <1>1 DEF ReadRules
<1> HIDE DEF wins
<1>5. LocalsGood(loc)
  BY <1>2, <1>3, IdleGood DEF Idle, Locals, LocalsGood
<1> HIDE DEF loc
<1>6. LocalsGood(new)
  BY <1>5, IdleGood
<1> HIDE DEF new
<1> QED
  BY <1>4, <1>6, OnlyLocals

LEMMA MatchesGood ==
  ASSUME MonthlyInv, NEW page \in SUBSET Regs, NEW windows,
         \A w \in windows : WindowGood(w), NEW m \in Matches(page, windows)
  PROVE  MatchGood(m)
<1>1. /\ m \in [reg : page, day : {answer[g] : g \in page}, win : windows]
      /\ m.day # 0 /\ ClampMatches(m.day, m.win.anchor)
  BY DEF Matches
<1>2. answer \in [Regs -> Answers] /\ Answers \subseteq Nat
  BY Constants DEF MonthlyInv, TypeOK
<1>3. m.day \in Nat /\ m.reg \in Regs
  BY <1>1, <1>2
<1>4. WindowGood(m.win) /\ m.win \in Window
  BY <1>1 DEF WindowGood
<1>5. m \in Match
  BY <1>1, <1>3, <1>4 DEF Match
<1> QED
  BY <1>1, <1>4, <1>5 DEF MatchGood

LEMMA PageShape ==
  ASSUME MonthlyInv, NEW p \in Replicas, ReadPage(p)
  PROVE  Shape(p)
<1> DEFINE page == Page(sweep[p].skip)
           todo == Matches(page, sweep[p].windows)
           full == Cardinality(page) = PageSize
           loc == [sweep[p] EXCEPT !.at = "fire", !.todo = todo, !.full = full]
           new == IF page = {} THEN Idle ELSE loc
<1>1. sweep[p] \in Locals /\ faults \in Nat
  BY HandTyped
<1>2. page \in SUBSET Regs
  BY DEF Page, Approved
<1>3. sweep' = [sweep EXCEPT ![p] = new] /\ faults' \in Nat
      /\ UNCHANGED <<now, rows, outbox, edits, owed>>
  <2>1. sweep' = [sweep EXCEPT ![p] =
           IF page = {} THEN Idle
           ELSE [@ EXCEPT !.at = "fire", !.todo = todo, !.full = full]]
    BY DEF ReadPage
  <2>2. sweep \in [Replicas -> Locals]
    BY DEF MonthlyInv, TypeOK
  <2>3. UNCHANGED <<now, rows, outbox, faults, edits, owed>>
    BY DEF ReadPage
  <2> HIDE DEF page, todo, full
  <2> QED
    BY <1>1, <2>1, <2>2, <2>3
<1>4. full \in BOOLEAN
  OBVIOUS
<1> HIDE DEF page, full
<1>5. \A m \in todo : MatchGood(m) /\ m \in Match
  BY <1>2, HandTyped, MatchesGood DEF MatchGood
<1> HIDE DEF todo
<1>6. LocalsGood(loc)
  <2>1. loc \in Locals
    BY <1>1, <1>4, <1>5 DEF Locals
  <2>2. /\ loc.at = "fire" /\ loc.windows = sweep[p].windows
        /\ loc.todo = todo /\ loc.item = sweep[p].item
    BY <1>1 DEF Locals
  <2> HIDE DEF loc
  <2> QED
    BY <2>1, <2>2, <1>5, HandTyped DEF LocalsGood
<1> HIDE DEF loc
<1>7. LocalsGood(new)
  BY <1>6, IdleGood
<1> HIDE DEF new
<1> QED
  BY <1>3, <1>7, OnlyLocals

LEMMA NextShape ==
  ASSUME MonthlyInv, NEW p \in Replicas, NextPage(p)
  PROVE  Shape(p)
<1> DEFINE loc == [sweep[p] EXCEPT !.at = "page", !.skip = sweep[p].skip + PageSize]
           new == IF sweep[p].full THEN loc ELSE Idle
<1>1. /\ sweep[p] \in Locals /\ sweep \in [Replicas -> Locals] /\ faults \in Nat
      /\ PageSize \in Nat
  BY HandTyped, Constants DEF MonthlyInv, TypeOK
<1>2. sweep' = [sweep EXCEPT ![p] = new] /\ faults' \in Nat
      /\ UNCHANGED <<now, rows, outbox, edits, owed>>
  <2>1. CASE sweep[p].full
    BY <1>1, <2>1 DEF NextPage
  <2>2. CASE ~ sweep[p].full
    BY <1>1, <2>2 DEF NextPage
  <2> QED
    BY <2>1, <2>2
<1>3. LocalsGood(loc)
  <2>0. sweep[p].skip + PageSize \in Nat
    BY <1>1 DEF Locals
  <2>1. loc \in Locals
    BY <1>1, <2>0 DEF Locals
  <2>2. /\ loc.at = "page" /\ loc.windows = sweep[p].windows
        /\ loc.todo = sweep[p].todo /\ loc.item = sweep[p].item
    BY <1>1 DEF Locals
  <2> HIDE DEF loc
  <2> QED
    BY <2>1, <2>2, HandTyped DEF LocalsGood
<1> HIDE DEF loc
<1>4. LocalsGood(new)
  BY <1>3, IdleGood
<1> HIDE DEF new
<1> QED
  BY <1>2, <1>4, OnlyLocals

\* Locals that hold no more than before, at a point past the reading of the rules.
LEMMA HeldGood ==
  ASSUME MonthlyInv, NEW p \in Replicas, NEW loc \in Locals, loc.at # "rules",
         loc.windows = sweep[p].windows,
         loc.todo \cup loc.item \subseteq sweep[p].todo \cup sweep[p].item
  PROVE  LocalsGood(loc)
  BY HandTyped DEF LocalsGood

LEMMA CheckShape ==
  ASSUME MonthlyInv, NEW p \in Replicas, CheckRecipient(p)
  PROVE  Shape(p)
<1>1. /\ sweep[p] \in Locals /\ sweep \in [Replicas -> Locals] /\ faults \in Nat
      /\ sweep[p].at = "fire"
  BY HandTyped DEF MonthlyInv, TypeOK, CheckRecipient
<1>2. PICK m \in sweep[p].todo :
        sweep' = [sweep EXCEPT ![p] =
          IF /\ reg[m.reg] # "deleted" /\ m.win.rule \in active
             /\ event \notin {"draft", "cancelled"}
          THEN [@ EXCEPT !.at = "enqueue", !.item = {m}, !.todo = sweep[p].todo \ {m}]
          ELSE [@ EXCEPT !.todo = sweep[p].todo \ {m}]]
  BY DEF CheckRecipient
<1> DEFINE fired == [sweep[p] EXCEPT !.at = "enqueue", !.item = {m}, !.todo = sweep[p].todo \ {m}]
           skipped == [sweep[p] EXCEPT !.todo = sweep[p].todo \ {m}]
<1>3. \/ sweep' = [sweep EXCEPT ![p] = fired]
      \/ sweep' = [sweep EXCEPT ![p] = skipped]
  <2>1. CASE /\ reg[m.reg] # "deleted" /\ m.win.rule \in active
             /\ event \notin {"draft", "cancelled"}
    BY <1>2, <2>1
  <2>2. CASE ~ (/\ reg[m.reg] # "deleted" /\ m.win.rule \in active
                /\ event \notin {"draft", "cancelled"})
    BY <1>2, <2>2
  <2> QED
    BY <2>1, <2>2
<1>4. LocalsGood(fired)
  <2>1. m \in Match /\ sweep[p].todo \subseteq Match
    BY <1>1 DEF Locals
  <2>2. fired \in Locals
    BY <1>1, <2>1 DEF Locals
  <2>3. /\ fired.at = "enqueue" /\ fired.windows = sweep[p].windows
        /\ fired.todo = sweep[p].todo \ {m} /\ fired.item = {m}
    BY <1>1 DEF Locals
  <2> HIDE DEF fired
  <2>4. fired.at # "rules" /\ fired.todo \cup fired.item \subseteq sweep[p].todo \cup sweep[p].item
    BY <2>3
  <2> QED
    BY <2>2, <2>3, <2>4, HeldGood
<1>5. LocalsGood(skipped)
  <2>1. skipped \in Locals
    BY <1>1 DEF Locals
  <2>2. /\ skipped.at = "fire" /\ skipped.windows = sweep[p].windows
        /\ skipped.todo = sweep[p].todo \ {m} /\ skipped.item = sweep[p].item
    BY <1>1 DEF Locals
  <2> HIDE DEF skipped
  <2>3. skipped.at # "rules" /\ skipped.todo \cup skipped.item \subseteq sweep[p].todo \cup sweep[p].item
    BY <2>2
  <2> QED
    BY <2>1, <2>2, <2>3, HeldGood
<1>6. faults' \in Nat /\ UNCHANGED <<now, rows, outbox, edits, owed>>
  BY <1>1 DEF CheckRecipient
<1> HIDE DEF fired, skipped
<1> QED
  BY <1>3, <1>4, <1>5, <1>6, OnlyLocals

\* The message of a match in hand names the right day.
LEMMA MessageIsGood ==
  ASSUME MonthlyInv, NEW m, MatchGood(m), NEW x,
         x = [reg |-> m.reg, rule |-> m.win.rule, anchor |-> m.win.anchor,
              month |-> m.win.month, day |-> m.day]
  PROVE  x \in Message /\ MessageGood(x)
<1>1. m \in Match /\ m.win \in Window /\ WindowGood(m.win) /\ m.day \in Nat \ {0}
  BY DEF MatchGood, Match
<1>2. /\ x.anchor = m.win.anchor /\ x.month = m.win.month /\ x.day = m.day
      /\ x.month = MonthOf(x.anchor) /\ x.anchor \in 0 .. now.day
      /\ ClampMatches(x.day, x.anchor)
  BY <1>1 DEF WindowGood, MatchGood
<1>3. x.anchor \in 0 .. LastTick
  BY <1>2, Calendar DEF MonthlyInv, ClockGood
<1>4. x.anchor = TargetDay(x.day, MonthOf(x.anchor))
  BY <1>1, <1>2, <1>3, ClampIsTarget
<1>5. x \in Message
  BY <1>1 DEF Match, Window, Message
<1> QED
  BY <1>2, <1>4, <1>5 DEF MessageGood

\* A sweep that puts its item away.
LEMMA PutAway ==
  ASSUME MonthlyInv, NEW p \in Replicas,
         sweep' = [sweep EXCEPT ![p].at = "fire", ![p].item = {}]
  PROVE  \E loc \in Locals : sweep' = [sweep EXCEPT ![p] = loc] /\ LocalsGood(loc)
<1> DEFINE loc == [sweep[p] EXCEPT !.at = "fire", !.item = {}]
<1>1. sweep[p] \in Locals /\ sweep \in [Replicas -> Locals]
  BY HandTyped DEF MonthlyInv, TypeOK
<1>2. sweep' = [sweep EXCEPT ![p] = loc]
  BY <1>1
<1>3. loc \in Locals
  BY <1>1 DEF Locals
<1>4. /\ loc.at = "fire" /\ loc.windows = sweep[p].windows
      /\ loc.todo = sweep[p].todo /\ loc.item = {}
  BY <1>1 DEF Locals
<1> HIDE DEF loc
<1>5. LocalsGood(loc)
  BY <1>3, <1>4, HeldGood
<1> QED
  BY <1>2, <1>3, <1>5

LEMMA EnqueueShape ==
  ASSUME MonthlyInv, NEW p \in Replicas, Enqueue(p)
  PROVE  Shape(p)
<1>1. \E loc \in Locals : sweep' = [sweep EXCEPT ![p] = loc] /\ LocalsGood(loc)
  BY PutAway DEF Enqueue
<1>2. PICK m \in sweep[p].item :
        LET x == [reg |-> m.reg, rule |-> m.win.rule, anchor |-> m.win.anchor,
                  month |-> m.win.month, day |-> m.day]
        IN  /\ outbox' = IF \E y \in outbox : Key(y) = Key(x) THEN outbox ELSE outbox \cup {x}
            /\ owed' = {o \in owed : Due(o) # Key(x)}
  BY DEF Enqueue
<1> DEFINE x == [reg |-> m.reg, rule |-> m.win.rule, anchor |-> m.win.anchor,
                 month |-> m.win.month, day |-> m.day]
<1>3. MatchGood(m)
  BY HandTyped
<1>4. x \in Message /\ MessageGood(x)
  BY <1>3, MessageIsGood
<1>5. outbox' = IF \E y \in outbox : Key(y) = Key(x) THEN outbox ELSE outbox \cup {x}
  BY <1>2
<1>6. owed' \subseteq owed
  BY <1>2
<1> HIDE DEF x
<1>7. \/ outbox' = outbox
      \/ \E z \in Message : /\ MessageGood(z)
                            /\ \A y \in outbox : Key(y) # Key(z)
                            /\ outbox' = outbox \cup {z}
  BY <1>4, <1>5
<1>8. faults' \in Nat /\ UNCHANGED <<now, rows, edits>>
  BY HandTyped DEF Enqueue
<1> QED
  BY <1>1, <1>6, <1>7, <1>8 DEF Shape

LEMMA FaultShape ==
  ASSUME MonthlyInv, NEW p \in Replicas, Fault(p)
  PROVE  Shape(p)
<1>1. faults' \in Nat /\ UNCHANGED <<now, rows, outbox, edits, owed>>
  BY HandTyped DEF Fault
<1>2. \/ sweep' = [sweep EXCEPT ![p].at = "fire", ![p].item = {}]
      \/ sweep' = [sweep EXCEPT ![p] = Idle]
  BY DEF Fault
<1>3. Idle \in Locals
  BY IdleGood DEF LocalsGood
<1>4. \E loc \in Locals : sweep' = [sweep EXCEPT ![p] = loc] /\ LocalsGood(loc)
  BY <1>2, <1>3, IdleGood, PutAway
<1> QED
  BY <1>1, <1>4 DEF Shape

-----------------------------------------------------------------------------
\* Goodness does not fade as the clock runs.
LEMMA GoodLater ==
  ASSUME now.day \in Nat, now'.day \in Nat, now.day <= now'.day
  PROVE  /\ \A w : WindowGood(w) => WindowGood(w)'
         /\ \A m : MatchGood(m) => MatchGood(m)'
         /\ \A loc : LocalsGood(loc) => LocalsGood(loc)'
         /\ \A x : MessageGood(x) => MessageGood(x)'
<1>1. \A n : n \in 0 .. now.day => n \in 0 .. now'.day
  OBVIOUS
<1>2. \A n : n \in 1 .. now.day => n \in 1 .. now'.day
  OBVIOUS
<1>3. ASSUME NEW w, WindowGood(w) PROVE WindowGood(w)'
  BY <1>1, <1>3 DEF WindowGood
<1>4. ASSUME NEW m, MatchGood(m) PROVE MatchGood(m)'
  BY <1>3, <1>4 DEF MatchGood
<1>5. ASSUME NEW loc, LocalsGood(loc) PROVE LocalsGood(loc)'
  BY <1>2, <1>3, <1>4, <1>5 DEF LocalsGood
<1>6. ASSUME NEW x, MessageGood(x) PROVE MessageGood(x)'
  BY <1>1, <1>6 DEF MessageGood
<1> QED
  BY <1>3, <1>4, <1>5, <1>6

LEMMA ShapeKeeps ==
  ASSUME MonthlyInv, NEW p \in Replicas, Shape(p)
  PROVE  MonthlyInv'
<1>1. PICK loc \in Locals : sweep' = [sweep EXCEPT ![p] = loc] /\ LocalsGood(loc)
  BY DEF Shape
<1>2. /\ now' = now /\ event' = event /\ active' = active /\ sendTime' = sendTime
      /\ reg' = reg /\ answer' = answer /\ edits' = edits
  BY DEF Shape, rows
<1>3. \/ outbox' = outbox
      \/ \E x \in Message : /\ MessageGood(x)
                            /\ \A y \in outbox : Key(y) # Key(x)
                            /\ outbox' = outbox \cup {x}
  BY DEF Shape
<1>4. /\ outbox \subseteq Message /\ sweep \in [Replicas -> Locals]
      /\ \A x \in outbox : MessageGood(x)
      /\ \A x, y \in outbox : Key(x) = Key(y) => x = y
      /\ \A q \in Replicas : LocalsGood(sweep[q])
  BY DEF MonthlyInv, TypeOK, OutboxGood, KeyIsUnique, HandsGood
<1>5. outbox' \subseteq Message
  BY <1>3, <1>4
<1>6. sweep' \in [Replicas -> Locals]
  BY <1>1, <1>4
<1>7. faults' \in Nat /\ owed' \subseteq [reg : Regs, rule : Rules, anchor : Int]
  BY DEF Shape, MonthlyInv, TypeOK
<1>8. TypeOK'
  BY <1>2, <1>5, <1>6, <1>7 DEF MonthlyInv, TypeOK
<1>9. ClockGood'
  BY <1>2 DEF MonthlyInv, ClockGood
<1>10. now.day \in Nat /\ now'.day \in Nat /\ now.day <= now'.day
  BY <1>2, Calendar DEF MonthlyInv, ClockGood
<1>11. HandsGood'
  <2> SUFFICES ASSUME NEW q \in Replicas PROVE LocalsGood(sweep[q])'
    BY DEF HandsGood
  <2>1. LocalsGood(sweep'[q])
    <3>1. sweep'[q] = sweep[q] \/ sweep'[q] = loc
      BY <1>1, <1>4
    <3>2. LocalsGood(sweep[q])
      BY HandTyped
    <3>3. LocalsGood(loc)
      BY <1>1
    <3>4. CASE sweep'[q] = sweep[q]
      BY <3>2, <3>4, Zenon
    <3>5. CASE sweep'[q] = loc
      BY <3>3, <3>5, Zenon
    <3> QED
      BY <3>1, <3>4, <3>5
  <2> QED
    BY <1>10, <2>1, GoodLater
<1>12. OutboxGood'
  <2> SUFFICES ASSUME NEW x \in outbox' PROVE MessageGood(x)'
    BY DEF OutboxGood
  <2>1. MessageGood(x)
    BY <1>3, <1>4
  <2> QED
    BY <1>10, <2>1, GoodLater
<1>13. KeyIsUnique'
  <2>1. \A x : Key(x)' = Key(x)
    BY DEF Key
  <2>2. \A x, y \in outbox' : Key(x) = Key(y) => x = y
    BY <1>3, <1>4
  <2> QED
    BY <2>1, <2>2 DEF KeyIsUnique, Key
<1> QED
  BY <1>8, <1>9, <1>11, <1>12, <1>13 DEF MonthlyInv

-----------------------------------------------------------------------------
(* Users and the clock leave the outbox and the hands of the sweeps alone. *)

\* Whatever changes the rows only, within their types, and disturbs what is owed.
LEMMA EditKeeps ==
  ASSUME MonthlyInv, Edit, owed' \subseteq owed,
         event' \in EventStatuses, active' \subseteq Rules,
         sendTime' \in [Rules -> SendTimes],
         reg' \in [Regs -> RegStatuses], answer' \in [Regs -> Answers]
  PROVE  MonthlyInv'
<1>1. /\ now' = now /\ outbox' = outbox /\ sweep' = sweep /\ faults' = faults
      /\ edits' \in Nat
  BY DEF Edit, MonthlyInv, TypeOK
<1>2. TypeOK'
  BY <1>1 DEF MonthlyInv, TypeOK
<1>3. now.day \in Nat /\ now'.day \in Nat /\ now.day <= now'.day
  BY <1>1, Calendar DEF MonthlyInv, ClockGood
<1>4. ClockGood'
  BY <1>1 DEF MonthlyInv, ClockGood
<1>5. HandsGood'
  <2>1. \A p \in Replicas : LocalsGood(sweep[p])'
    BY <1>1, <1>3, GoodLater DEF MonthlyInv, HandsGood
  <2> QED
    BY <2>1 DEF HandsGood
<1>6. OutboxGood'
  <2>1. \A x \in outbox' : MessageGood(x)'
    BY <1>1, <1>3, GoodLater DEF MonthlyInv, OutboxGood
  <2> QED
    BY <2>1 DEF OutboxGood
<1>7. KeyIsUnique'
  BY <1>1 DEF MonthlyInv, KeyIsUnique, Key
<1> QED
  BY <1>2, <1>4, <1>5, <1>6, <1>7 DEF MonthlyInv

LEMMA RowsTyped ==
  ASSUME MonthlyInv
  PROVE  /\ event \in EventStatuses /\ active \subseteq Rules
         /\ sendTime \in [Rules -> SendTimes]
         /\ reg \in [Regs -> RegStatuses] /\ answer \in [Regs -> Answers]
  BY DEF MonthlyInv, TypeOK

LEMMA DecideKeeps ==
  ASSUME MonthlyInv, NEW g \in Regs, Decide(g)
  PROVE  MonthlyInv'
<1>1. Edit /\ owed' \subseteq owed /\ UNCHANGED <<event, active, sendTime, answer>>
  BY DEF Decide, Disturbs
<1>2. reg' \in [Regs -> RegStatuses]
  BY RowsTyped DEF Decide
<1> QED
  BY <1>1, <1>2, RowsTyped, EditKeeps

LEMMA AnswerKeeps ==
  ASSUME MonthlyInv, NEW g \in Regs, AnswerAgain(g)
  PROVE  MonthlyInv'
<1>1. Edit /\ owed' \subseteq owed /\ UNCHANGED <<event, active, sendTime, reg>>
  BY DEF AnswerAgain, Disturbs
<1>2. answer' \in [Regs -> Answers]
  BY RowsTyped DEF AnswerAgain
<1> QED
  BY <1>1, <1>2, RowsTyped, EditKeeps

LEMMA PatchKeeps ==
  ASSUME MonthlyInv, NEW r \in Rules, PatchRule(r)
  PROVE  MonthlyInv'
<1>1. Edit /\ owed' \subseteq owed /\ UNCHANGED <<event, reg, answer>>
  BY DEF PatchRule, Disturbs
<1>2. active' \subseteq Rules
  BY RowsTyped DEF PatchRule
<1>3. sendTime' \in [Rules -> SendTimes]
  BY RowsTyped DEF PatchRule
<1> QED
  BY <1>1, <1>2, <1>3, RowsTyped, EditKeeps

LEMMA StatusKeeps ==
  ASSUME MonthlyInv, UpdateStatus
  PROVE  MonthlyInv'
<1>1. Edit /\ owed' \subseteq owed /\ UNCHANGED <<active, sendTime, reg, answer>>
  BY DEF UpdateStatus, Disturbs
<1>2. event' \in EventStatuses
  BY DEF UpdateStatus
<1> QED
  BY <1>1, <1>2, RowsTyped, EditKeeps

LEMMA TickKeeps ==
  ASSUME MonthlyInv, Tick
  PROVE  MonthlyInv'
<1>1. /\ now' = NextTick /\ NextTick.day <= LastTick
      /\ owed' = owed \cup FallsDue(NextTick)
      /\ sweep' = [p \in Replicas |->
           IF sweep[p].at = "idle" THEN [sweep[p] EXCEPT !.due = TRUE]
                                   ELSE [sweep[p] EXCEPT !.span = @ + 1]]
      /\ UNCHANGED <<event, active, sendTime, reg, answer, outbox, faults, edits>>
  BY DEF Tick, rows
<1>2. now \in Instant /\ now.day \in 1 .. LastTick /\ LastTick \in Nat /\ DayTicks \in Nat
  BY Calendar, Constants DEF MonthlyInv, TypeOK, ClockGood
<1>3. now' \in Instant /\ now'.day \in 1 .. LastTick /\ now.day <= now'.day
  <2>1. CASE now.tick + 1 < DayTicks
    <3>1. now' = [now EXCEPT !.tick = now.tick + 1]
      BY <1>1, <2>1 DEF NextTick
    <3> QED
      BY <1>2, <2>1, <3>1 DEF Instant
  <2>2. CASE ~ now.tick + 1 < DayTicks
    <3>1. now' = [day |-> now.day + 1, tick |-> 0]
      BY <1>1, <2>2 DEF NextTick
    <3>2. 0 \in 0 .. DayTicks - 1
      BY <1>2 DEF Instant
    <3> QED
      BY <1>1, <1>2, <3>1, <3>2 DEF Instant
  <2> QED
    BY <2>1, <2>2
<1>4. now.day \in Nat /\ now'.day \in Nat /\ now.day <= now'.day
  BY <1>2, <1>3
<1>5. \A p \in Replicas : LocalsGood(sweep'[p])
  <2> SUFFICES ASSUME NEW p \in Replicas PROVE LocalsGood(sweep'[p])
    OBVIOUS
  <2>1. LocalsGood(sweep[p]) /\ sweep[p] \in Locals
    BY HandTyped
  <2>2. sweep'[p] = [sweep[p] EXCEPT !.due = TRUE]
        \/ sweep'[p] = [sweep[p] EXCEPT !.span = sweep[p].span + 1]
    BY <1>1
  <2>3. /\ sweep'[p] \in Locals
        /\ sweep'[p].at = sweep[p].at /\ sweep'[p].top = sweep[p].top
        /\ sweep'[p].windows = sweep[p].windows
        /\ sweep'[p].todo = sweep[p].todo /\ sweep'[p].item = sweep[p].item
    <3>1. sweep[p].span + 1 \in Nat
      BY <2>1 DEF Locals
    <3>2. CASE sweep'[p] = [sweep[p] EXCEPT !.due = TRUE]
      BY <2>1, <3>2 DEF Locals
    <3>3. CASE sweep'[p] = [sweep[p] EXCEPT !.span = sweep[p].span + 1]
      BY <2>1, <3>1, <3>3 DEF Locals
    <3> QED
      BY <2>2, <3>2, <3>3
  <2> QED
    BY <2>1, <2>3 DEF LocalsGood
<1>6. HandsGood'
  <2>1. \A p \in Replicas : LocalsGood(sweep[p])'
    BY <1>4, <1>5, GoodLater
  <2> QED
    BY <2>1 DEF HandsGood
<1>7. OutboxGood'
  <2>1. \A x \in outbox' : MessageGood(x)'
    BY <1>1, <1>4, GoodLater DEF MonthlyInv, OutboxGood
  <2> QED
    BY <2>1 DEF OutboxGood
<1>8. KeyIsUnique'
  BY <1>1 DEF MonthlyInv, KeyIsUnique, Key
<1>9. sweep' \in [Replicas -> Locals]
  <2>1. \A p \in Replicas : sweep'[p] \in Locals
    BY <1>5 DEF LocalsGood
  <2> QED
    BY <1>1, <2>1
<1>10. FallsDue(NextTick) \subseteq [reg : Regs, rule : Rules, anchor : Int]
  <2>1. Approved \subseteq Regs /\ ActiveRules(NextTick) \subseteq Rules
    BY RowsTyped DEF Approved, ActiveRules, Oldest
  <2>2. NextTick.day \in Int
    BY <1>1, <1>3
  <2> QED
    BY <2>1, <2>2 DEF FallsDue
<1>11. TypeOK'
  BY <1>1, <1>3, <1>9, <1>10 DEF MonthlyInv, TypeOK
<1>12. ClockGood'
  BY <1>3 DEF ClockGood
<1> QED
  BY <1>6, <1>7, <1>8, <1>11, <1>12 DEF MonthlyInv

-----------------------------------------------------------------------------
LEMMA MonthlyInit == Init => MonthlyInv
<1> SUFFICES ASSUME Init PROVE MonthlyInv
  OBVIOUS
<1>1. /\ DayTicks \in Nat /\ DayTicks > 0
  BY Constants
<1>2. now \in Instant /\ now.day \in 1 .. LastTick
  BY <1>1, Calendar DEF Init, Instant
<1>3. \A p \in Replicas : LocalsGood(sweep[p])
  BY IdleGood DEF Init
<1>4. sweep \in [Replicas -> Locals]
  BY IdleGood DEF Init, LocalsGood
<1>5. /\ event \in EventStatuses /\ active \subseteq Rules
      /\ sendTime \in [Rules -> SendTimes] /\ answer \in [Regs -> Answers]
      /\ reg \in [Regs -> RegStatuses]
  BY DEF Init, EventStatuses, RegStatuses
<1>6. outbox = {} /\ owed = {} /\ faults \in Nat /\ edits \in Nat
  BY DEF Init
<1>7. TypeOK
  BY <1>2, <1>4, <1>5, <1>6 DEF TypeOK
<1> QED
  BY <1>2, <1>3, <1>6, <1>7 DEF MonthlyInv, ClockGood, HandsGood, OutboxGood, KeyIsUnique

LEMMA StepKeeps ==
  ASSUME MonthlyInv, NEW p \in Replicas, Step(p) \/ Fault(p)
  PROVE  MonthlyInv'
<1>1. Shape(p)
  <2>1. CASE StartSweep(p)
    BY <2>1, StartShape
  <2>2. CASE ReadRules(p)
    BY <2>2, RulesShape
  <2>3. CASE ReadPage(p)
    BY <2>3, PageShape
  <2>4. CASE NextPage(p)
    BY <2>4, NextShape
  <2>5. CASE CheckRecipient(p)
    BY <2>5, CheckShape
  <2>6. CASE Enqueue(p)
    BY <2>6, EnqueueShape
  <2>7. CASE Fault(p)
    BY <2>7, FaultShape
  <2> QED
    BY <2>1, <2>2, <2>3, <2>4, <2>5, <2>6, <2>7 DEF Step
<1> QED
  BY <1>1, ShapeKeeps

LEMMA MonthlyNext == MonthlyInv /\ [Next]_vars => MonthlyInv'
<1> SUFFICES ASSUME MonthlyInv, [Next]_vars PROVE MonthlyInv'
  OBVIOUS
<1>1. CASE \E p \in Replicas : Step(p) \/ Fault(p)
  BY <1>1, StepKeeps
<1>2. CASE \E g \in Regs : Decide(g) \/ AnswerAgain(g)
  BY <1>2, DecideKeeps, AnswerKeeps
<1>3. CASE \E r \in Rules : PatchRule(r)
  BY <1>3, PatchKeeps
<1>4. CASE UpdateStatus
  BY <1>4, StatusKeeps
<1>5. CASE Tick
  BY <1>5, TickKeeps
<1>6. CASE UNCHANGED vars
  <2>1. /\ now' = now /\ event' = event /\ active' = active /\ sendTime' = sendTime
        /\ reg' = reg /\ answer' = answer /\ outbox' = outbox /\ sweep' = sweep
        /\ faults' = faults /\ edits' = edits /\ owed' = owed
    BY <1>6 DEF vars, rows
  <2>2. TypeOK' /\ ClockGood' /\ KeyIsUnique'
    BY <2>1 DEF MonthlyInv, TypeOK, ClockGood, KeyIsUnique, Key
  <2>3. HandsGood' /\ OutboxGood'
    <3>1. now.day \in Nat /\ now'.day \in Nat /\ now.day <= now'.day
      BY <2>1, Calendar DEF MonthlyInv, ClockGood
    <3>2. /\ \A p \in Replicas : LocalsGood(sweep[p])'
          /\ \A x \in outbox' : MessageGood(x)'
      BY <2>1, <3>1, GoodLater DEF MonthlyInv, HandsGood, OutboxGood
    <3> QED
      BY <3>2 DEF HandsGood, OutboxGood
  <2> QED
    BY <2>2, <2>3 DEF MonthlyInv
<1> QED
  BY <1>1, <1>2, <1>3, <1>4, <1>5, <1>6 DEF Next

LEMMA MonthlyInvariant == Spec => []MonthlyInv
  BY MonthlyInit, MonthlyNext, PTL DEF Spec

\* The variables of the trigger keep their types.
THEOREM MonthlyTyped == Spec => []TypeOK
<1>1. MonthlyInv => TypeOK
  BY DEF MonthlyInv
<1> QED
  BY <1>1, MonthlyInvariant, PTL

\* One message a month for each registration and rule, whatever overlaps, is edited or
\* fails (form-field-date-automations.service.ts:287-293).
THEOREM MessageOncePerMonth == Spec => []OncePerMonth
<1>1. MonthlyInv => OncePerMonth
  <2> SUFFICES ASSUME MonthlyInv, NEW x \in outbox, NEW y \in outbox,
                      x.reg = y.reg, x.rule = y.rule, MonthOf(x.anchor) = MonthOf(y.anchor)
               PROVE  x = y
    BY DEF OncePerMonth
  <2>1. x.month = MonthOf(x.anchor) /\ y.month = MonthOf(y.anchor)
    BY DEF MonthlyInv, OutboxGood, MessageGood
  <2>2. Key(x) = Key(y)
    BY <2>1 DEF Key
  <2> QED
    BY <2>2 DEF MonthlyInv, KeyIsUnique
<1> QED
  BY <1>1, MonthlyInvariant, PTL

\* Each message is for the day that was answered, or the last of a month that lacks it,
\* and is not sent before it (:311-322).
THEOREM MessageOnRightDay == Spec => []RightDay
<1>1. MonthlyInv => RightDay
  <2> SUFFICES ASSUME MonthlyInv, NEW x \in outbox
               PROVE  x.anchor = TargetDay(x.day, x.month) /\ x.anchor <= now.day
    BY DEF RightDay
  <2>1. MessageGood(x)
    BY DEF MonthlyInv, OutboxGood
  <2>2. now.day \in Nat
    BY Calendar DEF MonthlyInv, ClockGood
  <2> QED
    BY <2>1, <2>2 DEF MessageGood
<1> QED
  BY <1>1, MonthlyInvariant, PTL

-----------------------------------------------------------------------------
(* Nobody misses a month.  Follow one owed message o and one process p.  The *)
(* sweep p is in, if it began with o's window open, will come to o unless it *)
(* is struck by a fault or an edit: its windows, its page and its matches    *)
(* say so at each of its awaits (WillServe).  Otherwise the next run of p    *)
(* must still fall in the window, and the one after each fault and edit yet  *)
(* to come too: a struck run costs at most MaxSpan + 1 ticks.  Room keeps    *)
(* that account; every process holds a chance of its own.                    *)

Left == (MaxFaults - faults) + (MaxEdits - edits)
Reserve == Left * (MaxSpan + 1)
Lateness(o) == Late(now, o.anchor, sendTime[o.rule])
Room(o, n) == Open(o) /\ Lateness(o) + n + Reserve < Tolerance

WindowOf(o) == [rule |-> o.rule, anchor |-> o.anchor, month |-> MonthOf(o.anchor)]
MatchOf(o) == [reg |-> o.reg, day |-> answer[o.reg], win |-> WindowOf(o)]

OnLaterPage(o, s) == /\ WindowOf(o) \in s.windows
                     /\ s.full /\ s.skip + PageSize <= Place(o.reg)
WillServe(o, s) ==
  \/ s.at = "rules" /\ o.anchor \in Anchors(s.top, sendTime[o.rule])
  \/ s.at = "page" /\ WindowOf(o) \in s.windows /\ s.skip <= Place(o.reg)
  \/ s.at \in {"fire", "enqueue"} /\ (MatchOf(o) \in s.todo \/ OnLaterPage(o, s))
  \/ s.at = "enqueue" /\ MatchOf(o) \in s.item

Chance(o, s) ==
  \/ s.at = "idle" /\ Room(o, IF s.due THEN 0 ELSE 1)
  \/ s.at # "idle" /\ WillServe(o, s) /\ (Left = 0 \/ Room(o, 0 - s.span))
  \/ s.at # "idle" /\ Room(o, MaxSpan + 1 - s.span)

\* What is owed rests on rows nobody has touched.
Rests(o) ==
  /\ reg[o.reg] = "approved" /\ o.rule \in active /\ event = "published"
  /\ o.anchor \in 0 .. LastTick /\ o.anchor < LastDay
  /\ answer[o.reg] # 0 /\ o.anchor = TargetDay(answer[o.reg], MonthOf(o.anchor))

Tidy(s) == /\ s.span \in 0 .. MaxSpan
           /\ s.at # "idle" => ~ s.due
           /\ \A m, n \in s.item : m = n
Budget == faults \in 0 .. MaxFaults /\ edits \in 0 .. MaxEdits

ServedInv == /\ MonthlyInv
             /\ Budget
             /\ \A p \in Replicas : Tidy(sweep[p])
             /\ \A o \in owed : Rests(o) /\ \A p \in Replicas : Chance(o, sweep[p])

-----------------------------------------------------------------------------
(* Pages.  Places number the approved registrations without a gap, so a page *)
(* that does not reach a registration is a full one.                         *)

LEMMA ApprovedBefore ==
  ASSUME NEW g \in Approved
  PROVE  /\ Approved \subseteq Nat /\ g \in Nat
         /\ IsFiniteSet({h \in Approved : h < g})
         /\ Place(g) \in Nat
<1> DEFINE before == {h \in Approved : h < g}
<1>1. Approved \subseteq Nat
  BY Constants DEF Approved
<1>2. before \in SUBSET Nat /\ g \in Nat /\ \A h \in before : h <= g
  <2>1. g \in Nat /\ \A h \in Approved : h \in Nat
    BY <1>1
  <2>2. \A h \in before : h \in Nat /\ h <= g
    BY <2>1
  <2> QED
    BY <2>1, <2>2
<1>3. IsFiniteSet(before)
  BY <1>2, FS_BoundedSetOfNaturals
<1>4. Place(g) \in Nat
  BY <1>3, FS_CardinalityType DEF Place
<1> QED
  BY <1>1, <1>2, <1>3, <1>4

LEMMA PlaceOrder ==
  ASSUME NEW g \in Approved, NEW h \in Approved
  PROVE  g < h <=> Place(g) < Place(h)
<1>1. ASSUME NEW a \in Approved, NEW b \in Approved, a < b PROVE Place(a) < Place(b)
  <2> DEFINE A == {x \in Approved : x < a}
             B == {x \in Approved : x < b}
  <2>1. IsFiniteSet(B) /\ a \in Nat /\ b \in Nat /\ Approved \subseteq Nat
        /\ Place(a) \in Nat /\ Place(b) \in Nat
    BY ApprovedBefore
  <2>2. A \in SUBSET B /\ a \in B /\ a \notin A
    <3>1. \A x \in Approved : x \in Nat
      BY <2>1
    <3>2. \A x \in A : x \in B
      BY <1>1, <2>1, <3>1
    <3>3. A \in SUBSET B
      BY <3>2
    <3>4. a \in B
      BY <1>1
    <3>5. a \notin A
      BY <2>1
    <3> QED
      BY <3>3, <3>4, <3>5
  <2>3. Cardinality(A) <= Cardinality(B) /\ (Cardinality(B) = Cardinality(A) => B = A)
    BY <2>1, <2>2, FS_Subset
  <2>4. Place(a) = Cardinality(A) /\ Place(b) = Cardinality(B)
    BY DEF Place
  <2> QED
    BY <2>1, <2>2, <2>3, <2>4
<1>2. g \in Nat /\ h \in Nat /\ Place(g) \in Nat /\ Place(h) \in Nat
  BY ApprovedBefore
<1>3. g < h => Place(g) < Place(h)
  BY <1>1
<1>4. h < g => Place(h) < Place(g)
  BY <1>1
<1> QED
  BY <1>2, <1>3, <1>4

LEMMA EveryPlaceIsTaken ==
  ASSUME NEW g \in Approved, NEW n \in Nat, n <= Place(g)
  PROVE  \E h \in Approved : Place(h) = n
<1> DEFINE before == {h \in Approved : h < g}
           f == [h \in before |-> Place(h)]
           k == Place(g)
<1>1. IsFiniteSet(before) /\ k = Cardinality(before) /\ k \in Nat
  BY ApprovedBefore DEF Place
<1>2. \A h \in before : Place(h) \in 0 .. k - 1
  <2> SUFFICES ASSUME NEW h \in before PROVE Place(h) \in 0 .. k - 1
    OBVIOUS
  <2>1. Place(h) \in Nat /\ Place(h) < Place(g)
    BY ApprovedBefore, PlaceOrder
  <2> QED
    BY <1>1, <2>1
<1>3. \A a, b \in before : Place(a) = Place(b) => a = b
  <2> SUFFICES ASSUME NEW a \in before, NEW b \in before, Place(a) = Place(b) PROVE a = b
    OBVIOUS
  <2>1. a \in Nat /\ b \in Nat /\ Place(a) \in Nat /\ Place(b) \in Nat
    BY ApprovedBefore
  <2>2. ~ a < b /\ ~ b < a
    BY <2>1, PlaceOrder
  <2> QED
    BY <2>1, <2>2
<1>4. f \in Injection(before, 0 .. k - 1)
  BY <1>2, <1>3 DEF Injection, IsInjective
<1>5. IsFiniteSet(0 .. k - 1) /\ Cardinality(0 .. k - 1) = k
  <2>1. 0 \in Int /\ k - 1 \in Int
    BY <1>1
  <2>2. /\ IsFiniteSet(0 .. k - 1)
        /\ Cardinality(0 .. k - 1) = IF 0 > k - 1 THEN 0 ELSE (k - 1) - 0 + 1
    BY <2>1, FS_Interval
  <2> QED
    BY <1>1, <2>2
<1>6. f \in Surjection(before, 0 .. k - 1)
  BY <1>1, <1>4, <1>5, FS_Injection
<1>7. CASE n = k
  BY <1>7
<1>8. CASE n # k
  <2>1. n \in 0 .. k - 1
    BY <1>1, <1>8
  <2>2. PICK h \in before : f[h] = n
    BY <1>6, <2>1 DEF Surjection
  <2> QED
    BY <2>2
<1> QED
  BY <1>7, <1>8

LEMMA PageReaches ==
  ASSUME NEW g \in Approved, NEW skip \in Nat, skip <= Place(g)
  PROVE  /\ Page(skip) # {}
         /\ g \notin Page(skip) => /\ Cardinality(Page(skip)) = PageSize
                                   /\ skip + PageSize <= Place(g)
<1>1. Place(g) \in Nat /\ PageSize \in Nat \ {0}
  BY ApprovedBefore, Constants
<1>2. PICK a \in Approved : Place(a) = skip
  BY EveryPlaceIsTaken
<1>3. a \in Page(skip)
  BY <1>1, <1>2 DEF Page
<1>4. ASSUME g \notin Page(skip) PROVE skip + PageSize <= Place(g)
  BY <1>1, <1>4 DEF Page
<1>5. ASSUME g \notin Page(skip) PROVE Cardinality(Page(skip)) = PageSize
  <2>1. PICK b \in Approved : Place(b) = skip + PageSize
    BY <1>1, <1>4, <1>5, EveryPlaceIsTaken
  <2> DEFINE A == {x \in Approved : x < a}
             B == {x \in Approved : x < b}
  <2>2. /\ IsFiniteSet(A) /\ IsFiniteSet(B)
        /\ Cardinality(A) = skip /\ Cardinality(B) = skip + PageSize
    BY <1>2, <2>1, ApprovedBefore DEF Place
  <2>3. A \subseteq B
    <3>1. a < b
      BY <1>1, <1>2, <2>1, PlaceOrder
    <3>2. a \in Nat /\ b \in Nat /\ \A x \in Approved : x \in Nat
      BY ApprovedBefore
    <3>3. \A x \in A : x \in B
      BY <3>1, <3>2
    <3> QED
      BY <3>3
  <2>4. Page(skip) = B \ A
    <3>1. ASSUME NEW x \in Approved PROVE x \in Page(skip) <=> x \in B \ A
      <4>1. x < a <=> Place(x) < skip
        BY <1>2, PlaceOrder
      <4>2. x < b <=> Place(x) < skip + PageSize
        BY <2>1, PlaceOrder
      <4>3. Place(x) \in Nat
        BY ApprovedBefore
      <4> QED
        BY <4>1, <4>2, <4>3 DEF Page
    <3>2. Page(skip) \subseteq Approved /\ B \ A \subseteq Approved
      BY DEF Page
    <3> HIDE DEF A, B
    <3> QED
      BY <3>1, <3>2
  <2>5. Cardinality(B \ A) = Cardinality(B) - Cardinality(B \cap A)
    BY <2>2, FS_Difference
  <2>6. B \cap A = A
    BY <2>3
  <2> HIDE DEF A, B
  <2>7. Cardinality(Page(skip)) = (skip + PageSize) - skip
    BY <2>2, <2>4, <2>5, <2>6
  <2> QED
    BY <1>1, <2>7
<1> QED
  BY <1>3, <1>4, <1>5

-----------------------------------------------------------------------------
(* The account. *)

LEMMA Times ==
  ASSUME NEW b \in Nat, NEW s \in Nat
  PROVE  /\ b * s \in Nat
         /\ b > 0 => b * s >= s /\ (b - 1) * s = b * s - s
         /\ \A c \in Nat : b <= c => b * s + s <= (c + 1) * s
OBVIOUS

LEMMA Account ==
  ASSUME ServedInv
  PROVE  /\ Left \in Nat /\ Reserve \in Nat /\ MaxSpan \in Nat
         /\ Left > 0 => Reserve >= MaxSpan + 1
         /\ EnoughRuns => Reserve + (MaxSpan + 1) <= Tolerance
         /\ DayTicks \in Nat /\ Tolerance \in Nat /\ Tolerance < DayTicks
<1>1. /\ MaxFaults \in Nat /\ MaxEdits \in Nat /\ MaxSpan \in Nat
      /\ faults \in 0 .. MaxFaults /\ edits \in 0 .. MaxEdits
  BY RuleAssumption DEF ServedInv, Budget
<1> DEFINE l == (MaxFaults - faults) + (MaxEdits - edits)
           s == MaxSpan + 1
           c == MaxFaults + MaxEdits
<1>2. l \in Nat /\ s \in Nat /\ c \in Nat /\ l <= c
  BY <1>1
<1>3. Left = l /\ Reserve = l * s /\ (EnoughRuns <=> (c + 1) * s <= Tolerance)
  BY DEF Left, Reserve, EnoughRuns
<1> HIDE DEF l, s, c
<1>4. /\ l * s \in Nat
      /\ l > 0 => l * s >= s
      /\ l * s + s <= (c + 1) * s
  BY <1>2, Times
<1>5. Tolerance \in Nat /\ s = MaxSpan + 1
  BY Constants DEF s
<1>6. (c + 1) * s \in Nat
  BY <1>2, Times
<1>7. EnoughRuns => Reserve + (MaxSpan + 1) <= Tolerance
  BY <1>3, <1>4, <1>5, <1>6, <1>2
<1> QED
  BY <1>1, <1>2, <1>3, <1>4, <1>5, <1>7, Constants

\* A fault or an edit uses up what one struck run costs.
LEMMA Spent ==
  ASSUME ServedInv, Left > 0, Left' = Left - 1
  PROVE  Left' \in Nat /\ Reserve' \in Nat /\ Reserve' = Reserve - (MaxSpan + 1)
<1>1. Left \in Nat /\ MaxSpan + 1 \in Nat
  BY Account
<1>2. (Left - 1) * (MaxSpan + 1) = Left * (MaxSpan + 1) - (MaxSpan + 1)
  BY <1>1, Times
<1>3. (Left - 1) * (MaxSpan + 1) \in Nat
  BY <1>1, Times
<1>4. Reserve = Left * (MaxSpan + 1) /\ Reserve' = (Left - 1) * (MaxSpan + 1)
  BY DEF Reserve
<1> QED
  BY <1>1, <1>2, <1>3, <1>4

\* What is known of an owed message and of a process.
LEMMA OwedTyped ==
  ASSUME ServedInv, NEW o \in owed
  PROVE  /\ o.reg \in Regs /\ o.rule \in Rules /\ o.anchor \in Nat
         /\ o = [reg |-> o.reg, rule |-> o.rule, anchor |-> o.anchor]
         /\ sendTime[o.rule] \in 0 .. DayTicks - 1
         /\ now.day \in Nat /\ now.tick \in 0 .. DayTicks - 1 /\ Lateness(o) \in Int
         /\ Rests(o)
         /\ \A p \in Replicas : Chance(o, sweep[p])
<1>1. /\ o \in [reg : Regs, rule : Rules, anchor : Int]
      /\ sendTime \in [Rules -> SendTimes] /\ now \in Instant
  BY DEF ServedInv, MonthlyInv, TypeOK
<1>2. Rests(o) /\ \A p \in Replicas : Chance(o, sweep[p])
  BY DEF ServedInv
<1>3. sendTime[o.rule] \in 0 .. DayTicks - 1
  BY <1>1, Constants
<1>4. now.day \in Nat /\ now.tick \in 0 .. DayTicks - 1
  BY <1>1 DEF Instant
<1>5. Lateness(o) \in Int
  BY <1>1, <1>3, <1>4, Constants DEF Lateness, Late
<1>6. o.anchor \in Nat
  BY <1>2, Calendar DEF Rests
<1> QED
  BY <1>1, <1>2, <1>3, <1>4, <1>5, <1>6

LEMMA HandTidy ==
  ASSUME ServedInv, NEW p \in Replicas
  PROVE  /\ sweep[p] \in Locals /\ Tidy(sweep[p])
         /\ sweep[p].span \in 0 .. MaxSpan /\ sweep[p].skip \in Nat
         /\ sweep[p].due \in BOOLEAN /\ sweep[p].full \in BOOLEAN
<1>1. sweep[p] \in Locals /\ Tidy(sweep[p])
  BY DEF ServedInv, MonthlyInv, TypeOK
<1> QED
  BY <1>1 DEF Tidy, Locals

LEMMA IdleTidy == Tidy(Idle)
<1>1. MaxSpan \in Nat
  BY RuleAssumption
<1> QED
  BY <1>1 DEF Tidy, Idle

-----------------------------------------------------------------------------
(* A step of a sweep that strikes nobody. *)

LEMMA ChanceFrame ==
  ASSUME UNCHANGED <<now, rows, faults, edits>>, NEW o, NEW s
  PROVE  (Rests(o) <=> Rests(o)') /\ (Chance(o, s) <=> Chance(o, s)')
<1>1. UNCHANGED <<now, event, active, sendTime, reg, answer, faults, edits>>
  BY DEF rows
<1>2. Rests(o) <=> Rests(o)'
  BY <1>1 DEF Rests
<1>3. \A n : Room(o, n) <=> Room(o, n)'
  BY <1>1 DEF Room, Open, Lateness, Reserve, Left
<1>4. Left' = Left
  BY <1>1 DEF Left
<1>5. Place(o.reg)' = Place(o.reg)
  BY <1>1 DEF Place, Approved
<1>6. MatchOf(o)' = MatchOf(o) /\ WindowOf(o)' = WindowOf(o)
  BY <1>1 DEF MatchOf, WindowOf
<1>7. OnLaterPage(o, s) <=> OnLaterPage(o, s)'
  BY <1>5, <1>6 DEF OnLaterPage
<1>8. WillServe(o, s) <=> WillServe(o, s)'
  BY <1>1, <1>5, <1>6, <1>7 DEF WillServe
<1> QED
  BY <1>2, <1>3, <1>4, <1>8 DEF Chance

LEMMA SweepServes ==
  ASSUME ServedInv, MonthlyInv', NEW p \in Replicas, NEW s2, Tidy(s2),
         sweep' = [sweep EXCEPT ![p] = s2],
         UNCHANGED <<now, rows, faults, edits>>, owed' \subseteq owed,
         \A o \in owed' : Chance(o, s2)
  PROVE  ServedInv'
<1>1. sweep \in [Replicas -> Locals]
  BY DEF ServedInv, MonthlyInv, TypeOK
<1>2. \A q \in Replicas : sweep'[q] = IF q = p THEN s2 ELSE sweep[q]
  BY <1>1
<1>3. \A q \in Replicas : Tidy(sweep'[q])
  BY <1>2, HandTidy
<1>4. ASSUME NEW o \in owed', NEW q \in Replicas PROVE Chance(o, sweep[q])'
  <2>1. Chance(o, sweep'[q])
    BY <1>2 DEF ServedInv
  <2> DEFINE s == sweep'[q]
  <2>2. Chance(o, s) <=> Chance(o, sweep[q])'
    <3>1. \A x : Chance(o, x) <=> Chance(o, x)'
      BY ChanceFrame
    <3> QED
      BY <3>1
  <2> QED
    BY <2>1, <2>2
<1>5. \A o \in owed' : Rests(o)'
  BY ChanceFrame DEF ServedInv
<1>6. \A q \in Replicas : Tidy(sweep[q])'
  BY <1>3 DEF Tidy
<1>7. Budget'
  BY DEF ServedInv, Budget
<1> QED
  BY <1>4, <1>5, <1>6, <1>7 DEF ServedInv

LEMMA StartServes ==
  ASSUME ServedInv, MonthlyInv', NEW p \in Replicas, StartSweep(p)
  PROVE  ServedInv'
<1> DEFINE s2 == [Idle EXCEPT !.at = "rules", !.top = now]
<1>1. /\ sweep[p].due /\ sweep' = [sweep EXCEPT ![p] = s2]
      /\ UNCHANGED <<now, rows, outbox, faults, edits, owed>>
  BY DEF StartSweep
<1>2. s2.at = "rules" /\ s2.top = now /\ s2.span = 0 /\ s2.due = FALSE /\ s2.item = {}
  BY DEF Idle
<1> HIDE DEF s2
<1>3. MaxSpan \in Nat
  BY Account
<1>4. Tidy(s2)
  BY <1>2, <1>3 DEF Tidy
<1>5. \A o \in owed : Chance(o, s2)
  <2> SUFFICES ASSUME NEW o \in owed PROVE Chance(o, s2)
    OBVIOUS
  <2>1. sweep[p].at = "idle"
    BY <1>1, HandTidy DEF Tidy
  <2>2. Room(o, 0)
    BY <1>1, <2>1, OwedTyped DEF Chance
  <2>3. WillServe(o, s2)
    BY <1>2, <2>2 DEF WillServe, Room, Open
  <2>4. Room(o, 0 - s2.span)
    BY <1>2, <2>2
  <2> QED
    BY <1>2, <2>3, <2>4 DEF Chance
<1> QED
  BY <1>1, <1>4, <1>5, SweepServes

\* A sweep that ends has no owed message before it: p waits for its next run.
LEMMA EndServes ==
  ASSUME ServedInv, NEW p \in Replicas, NEW o \in owed, sweep[p].at # "idle",
         ~ WillServe(o, sweep[p])
  PROVE  Chance(o, Idle) /\ Room(o, MaxSpan + 1 - sweep[p].span)
<1>1. Room(o, MaxSpan + 1 - sweep[p].span)
  BY OwedTyped DEF Chance
<1>2. sweep[p].span \in 0 .. MaxSpan /\ MaxSpan \in Nat
  BY HandTidy, Account
<1>3. Lateness(o) \in Int /\ Reserve \in Nat /\ Tolerance \in Nat
  BY Account, OwedTyped
<1>4. Room(o, 1)
  BY <1>1, <1>2, <1>3 DEF Room
<1> QED
  BY <1>1, <1>4 DEF Chance, Idle

\* A sweep that goes on keeps its account, if it still comes to what it came to.
LEMMA GoesOnServing ==
  ASSUME ServedInv, NEW p \in Replicas, NEW o \in owed, NEW s2, sweep[p].at # "idle",
         s2.at # "idle", s2.span = sweep[p].span,
         WillServe(o, sweep[p]) => WillServe(o, s2)
  PROVE  Chance(o, s2)
<1>1. \/ WillServe(o, sweep[p]) /\ (Left = 0 \/ Room(o, 0 - sweep[p].span))
      \/ Room(o, MaxSpan + 1 - sweep[p].span)
  BY OwedTyped DEF Chance
<1> QED
  BY <1>1 DEF Chance

LEMMA RulesServe ==
  ASSUME ServedInv, EveryRuleIsRead, MonthlyInv', NEW p \in Replicas, ReadRules(p)
  PROVE  ServedInv'
<1> DEFINE s == sweep[p]
           s2 == [Idle EXCEPT !.at = "page", !.span = s.span, !.windows = Windows(s.top)]
<1>1. s.at = "rules" /\ UNCHANGED <<now, rows, outbox, faults, edits, owed>>
  BY DEF ReadRules
<1>2. /\ s2.at = "page" /\ s2.windows = Windows(s.top) /\ s2.span = s.span
      /\ s2.skip = 0 /\ s2.due = FALSE /\ s2.item = {}
  BY DEF Idle
<1>3. Tidy(s2)
  BY <1>2, HandTidy DEF Tidy
<1> HIDE DEF s2
<1>4. ASSUME NEW o \in owed, o.anchor \in Anchors(s.top, sendTime[o.rule])
      PROVE  WindowOf(o) \in Windows(s.top)
  <2>1. Rests(o)
    BY OwedTyped
  <2>2. s.top \in Instant
    BY HandTidy DEF Locals
  <2>3. s.top.day <= LastDay
    <3>1. o.anchor \in {s.top.day, s.top.day - 1}
      BY <1>4 DEF Anchors
    <3>2. s.top.day \in Nat /\ o.anchor < LastDay /\ LastDay \in Nat
      BY <2>1, <2>2, Constants DEF Rests, Instant
    <3> QED
      BY <3>1, <3>2
  <2>4. o.rule \in Oldest(active)
    <3> DEFINE older == {q \in active : q < o.rule}
    <3>1. IsFiniteSet(Rules) /\ Cardinality(Rules) <= RulesPerTick /\ RulesPerTick \in Nat
      BY RuleAssumption DEF EveryRuleIsRead
    <3>2. active \subseteq Rules /\ Rules \subseteq Nat /\ o.rule \in active
      BY <2>1, Constants DEF Rests, ServedInv, MonthlyInv, TypeOK
    <3>3. older \in SUBSET Rules /\ o.rule \in Rules /\ o.rule \notin older
      <4>1. \A q \in older : q \in Rules /\ q < o.rule
        BY <3>2
      <4>2. o.rule \in Rules /\ o.rule \in Nat
        BY <3>2
      <4> HIDE DEF older
      <4> QED
        BY <4>1, <4>2
    <3>4. /\ Cardinality(older) <= Cardinality(Rules)
          /\ Cardinality(older) # Cardinality(Rules)
          /\ Cardinality(older) \in Nat /\ Cardinality(Rules) \in Nat
      BY <3>1, <3>3, FS_Subset, FS_CardinalityType
    <3>5. Cardinality(older) < RulesPerTick
      BY <3>1, <3>4
    <3> QED
      BY <3>2, <3>5 DEF Oldest
  <2>5. o.rule \in ActiveRules(s.top)
    BY <2>1, <2>3, <2>4 DEF ActiveRules, Rests
  <2> QED
    BY <1>4, <2>5 DEF Windows, WindowOf
<1>5. CASE Windows(s.top) = {}
  <2>1. sweep' = [sweep EXCEPT ![p] = Idle]
    BY <1>5 DEF ReadRules
  <2>2. ASSUME NEW o \in owed PROVE Chance(o, Idle)
    <3>1. ~ WillServe(o, s)
      BY <1>1, <1>4, <1>5 DEF WillServe
    <3> QED
      BY <1>1, <3>1, EndServes
  <2> QED
    BY <1>1, <2>1, <2>2, IdleTidy, SweepServes
<1>6. CASE Windows(s.top) # {}
  <2>1. sweep' = [sweep EXCEPT ![p] = s2]
    BY <1>6 DEF ReadRules, s2
  <2>2. ASSUME NEW o \in owed PROVE Chance(o, s2)
    <3>1. WillServe(o, s) => WillServe(o, s2)
      <4> SUFFICES ASSUME WillServe(o, s) PROVE WillServe(o, s2)
        OBVIOUS
      <4>1. WindowOf(o) \in s2.windows
        BY <1>1, <1>2, <1>4 DEF WillServe
      <4>2. o.reg \in Approved
        BY OwedTyped DEF Rests, Approved
      <4>3. Place(o.reg) \in Nat
        BY <4>2, ApprovedBefore
      <4> QED
        BY <1>2, <4>1, <4>3 DEF WillServe
    <3> QED
      BY <1>1, <1>2, <3>1, GoesOnServing
  <2> QED
    BY <1>1, <1>3, <2>1, <2>2, SweepServes
<1> QED
  BY <1>5, <1>6

LEMMA PageServes ==
  ASSUME ServedInv, MonthlyInv', NEW p \in Replicas, ReadPage(p)
  PROVE  ServedInv'
<1> DEFINE s == sweep[p]
           page == Page(s.skip)
           s2 == [s EXCEPT !.at = "fire", !.todo = Matches(page, s.windows),
                           !.full = Cardinality(page) = PageSize]
<1>1. /\ s.at = "page" /\ UNCHANGED <<now, rows, outbox, faults, edits, owed>>
      /\ s \in Locals /\ Tidy(s)
  BY HandTidy DEF ReadPage
<1>2. /\ s2.at = "fire" /\ s2.windows = s.windows /\ s2.span = s.span /\ s2.skip = s.skip
      /\ s2.due = s.due /\ s2.item = s.item
      /\ s2.todo = Matches(page, s.windows) /\ s2.full = (Cardinality(page) = PageSize)
  BY <1>1 DEF Locals
<1> HIDE DEF s2
<1>3. Tidy(s2)
  BY <1>1, <1>2 DEF Tidy
\* What is owed on a page not passed yet is on this page or on a later one.
<1>4. ASSUME NEW o \in owed, WillServe(o, s) PROVE page # {} /\ WillServe(o, s2)
  <2>1. WindowOf(o) \in s.windows /\ s.skip <= Place(o.reg)
    BY <1>1, <1>4 DEF WillServe
  <2>2. o.reg \in Approved /\ s.skip \in Nat
    BY OwedTyped, HandTidy DEF Rests, Approved
  <2>3. page # {} /\ (o.reg \notin page => /\ Cardinality(page) = PageSize
                                          /\ s.skip + PageSize <= Place(o.reg))
    BY <2>1, <2>2, PageReaches
  <2>4. CASE o.reg \in page
    <3>1. /\ answer[o.reg] # 0 /\ o.anchor = TargetDay(answer[o.reg], MonthOf(o.anchor))
          /\ o.anchor \in 0 .. LastTick
      BY OwedTyped DEF Rests
    <3>2. answer[o.reg] \in Nat \ {0}
      <4>1. answer \in [Regs -> Answers] /\ o.reg \in Regs
        BY OwedTyped DEF ServedInv, MonthlyInv, TypeOK
      <4> QED
        BY <3>1, <4>1, Constants
    <3>3. ClampMatches(answer[o.reg], o.anchor)
      BY <3>1, <3>2, ClampIsTarget
    <3> DEFINE m == MatchOf(o)
    <3>4. m.reg = o.reg /\ m.day = answer[o.reg] /\ m.win = WindowOf(o)
          /\ m.win.anchor = o.anchor
      BY DEF MatchOf, WindowOf
    <3>5. m \in [reg : page, day : {answer[g] : g \in page}, win : s.windows]
      BY <2>1, <2>4 DEF MatchOf
    <3>6. m \in Matches(page, s.windows)
      BY <3>1, <3>3, <3>4, <3>5 DEF Matches
    <3> QED
      BY <1>2, <2>3, <3>6 DEF WillServe
  <2>5. CASE o.reg \notin page
    BY <1>2, <2>1, <2>3, <2>5 DEF WillServe, OnLaterPage
  <2> QED
    BY <2>4, <2>5
<1>5. CASE page = {}
  <2>1. sweep' = [sweep EXCEPT ![p] = Idle]
    BY <1>5 DEF ReadPage
  <2>2. \A o \in owed : Chance(o, Idle)
    BY <1>1, <1>4, <1>5, EndServes
  <2> QED
    BY <1>1, <2>1, <2>2, IdleTidy, SweepServes
<1>6. CASE page # {}
  <2>1. sweep' = [sweep EXCEPT ![p] = s2]
    <3>1. sweep \in [Replicas -> Locals]
      BY DEF ServedInv, MonthlyInv, TypeOK
    <3> QED
      BY <1>6, <3>1 DEF ReadPage, s2
  <2>2. \A o \in owed : Chance(o, s2)
    BY <1>1, <1>2, <1>4, GoesOnServing
  <2> QED
    BY <1>1, <1>3, <2>1, <2>2, SweepServes
<1> QED
  BY <1>5, <1>6

LEMMA NextServes ==
  ASSUME ServedInv, MonthlyInv', NEW p \in Replicas, NextPage(p)
  PROVE  ServedInv'
<1> DEFINE s == sweep[p]
           s2 == [s EXCEPT !.at = "page", !.skip = s.skip + PageSize]
<1>1. /\ s.at = "fire" /\ s.todo = {}
      /\ UNCHANGED <<now, rows, outbox, faults, edits, owed>>
      /\ s \in Locals /\ Tidy(s)
  BY HandTidy DEF NextPage
<1>2. /\ s2.at = "page" /\ s2.windows = s.windows /\ s2.span = s.span
      /\ s2.skip = s.skip + PageSize /\ s2.due = s.due /\ s2.item = s.item
  BY <1>1 DEF Locals
<1> HIDE DEF s2
<1>3. \A o \in owed : WillServe(o, s) => OnLaterPage(o, s)
  BY <1>1 DEF WillServe
<1>4. CASE s.full
  <2>1. sweep' = [sweep EXCEPT ![p] = s2]
    <3>1. sweep \in [Replicas -> Locals]
      BY DEF ServedInv, MonthlyInv, TypeOK
    <3> QED
      BY <1>4, <3>1 DEF NextPage, s2
  <2>2. \A o \in owed : WillServe(o, s) => WillServe(o, s2)
    BY <1>2, <1>3 DEF WillServe, OnLaterPage
  <2>3. \A o \in owed : Chance(o, s2)
    BY <1>1, <1>2, <2>2, GoesOnServing
  <2>4. Tidy(s2)
    BY <1>1, <1>2 DEF Tidy
  <2> QED
    BY <1>1, <2>1, <2>3, <2>4, SweepServes
<1>5. CASE ~ s.full
  <2>1. sweep' = [sweep EXCEPT ![p] = Idle]
    BY <1>5 DEF NextPage
  <2>2. \A o \in owed : Chance(o, Idle)
    BY <1>1, <1>3, <1>5, EndServes DEF OnLaterPage
  <2> QED
    BY <1>1, <2>1, <2>2, IdleTidy, SweepServes
<1> QED
  BY <1>4, <1>5

LEMMA CheckServes ==
  ASSUME ServedInv, MonthlyInv', NEW p \in Replicas, CheckRecipient(p)
  PROVE  ServedInv'
<1> DEFINE s == sweep[p]
<1>1. PICK m \in s.todo :
        sweep' = [sweep EXCEPT ![p] =
          IF /\ reg[m.reg] # "deleted" /\ m.win.rule \in active
             /\ event \notin {"draft", "cancelled"}
          THEN [sweep[p] EXCEPT !.at = "enqueue", !.item = {m}, !.todo = s.todo \ {m}]
          ELSE [sweep[p] EXCEPT !.todo = s.todo \ {m}]]
  <2>1. sweep \in [Replicas -> Locals]
    BY DEF ServedInv, MonthlyInv, TypeOK
  <2> QED
    BY <2>1 DEF CheckRecipient
<1>2. /\ s.at = "fire" /\ UNCHANGED <<now, rows, outbox, faults, edits, owed>>
      /\ s \in Locals /\ Tidy(s)
  BY HandTidy DEF CheckRecipient
<1> DEFINE passed == /\ reg[m.reg] # "deleted" /\ m.win.rule \in active
                     /\ event \notin {"draft", "cancelled"}
           taken == [s EXCEPT !.at = "enqueue", !.item = {m}, !.todo = s.todo \ {m}]
           dropped == [s EXCEPT !.todo = s.todo \ {m}]
<1>3. /\ taken.at = "enqueue" /\ taken.item = {m} /\ taken.todo = s.todo \ {m}
      /\ taken.windows = s.windows /\ taken.span = s.span /\ taken.skip = s.skip
      /\ taken.due = s.due /\ taken.full = s.full
  BY <1>2 DEF Locals
<1>4. /\ dropped.at = "fire" /\ dropped.item = s.item /\ dropped.todo = s.todo \ {m}
      /\ dropped.windows = s.windows /\ dropped.span = s.span /\ dropped.skip = s.skip
      /\ dropped.due = s.due /\ dropped.full = s.full
  BY <1>2 DEF Locals
<1> HIDE DEF taken, dropped
<1>5. CASE passed
  <2>1. sweep' = [sweep EXCEPT ![p] = taken]
    BY <1>1, <1>5 DEF taken
  <2>2. \A o \in owed : WillServe(o, s) => WillServe(o, taken)
    BY <1>2, <1>3 DEF WillServe, OnLaterPage
  <2>3. \A o \in owed : Chance(o, taken)
    BY <1>2, <1>3, <2>2, GoesOnServing
  <2>4. Tidy(taken)
    BY <1>2, <1>3 DEF Tidy
  <2> QED
    BY <1>2, <2>1, <2>3, <2>4, SweepServes
<1>6. CASE ~ passed
  <2>1. sweep' = [sweep EXCEPT ![p] = dropped]
    BY <1>1, <1>6 DEF dropped
  <2>2. ASSUME NEW o \in owed PROVE m # MatchOf(o)
    <3>1. MatchOf(o).reg = o.reg /\ MatchOf(o).win.rule = o.rule
      BY DEF MatchOf, WindowOf
    <3>2. reg[o.reg] = "approved" /\ o.rule \in active /\ event = "published"
      BY OwedTyped DEF Rests
    <3> QED
      BY <1>6, <3>1, <3>2
  <2>3. \A o \in owed : WillServe(o, s) => WillServe(o, dropped)
    BY <1>2, <1>4, <2>2 DEF WillServe, OnLaterPage
  <2>4. \A o \in owed : Chance(o, dropped)
    BY <1>2, <1>4, <2>3, GoesOnServing
  <2>5. Tidy(dropped)
    BY <1>2, <1>4 DEF Tidy
  <2> QED
    BY <1>2, <2>1, <2>4, <2>5, SweepServes
<1> QED
  BY <1>5, <1>6

LEMMA EnqueueServes ==
  ASSUME ServedInv, MonthlyInv', NEW p \in Replicas, Enqueue(p)
  PROVE  ServedInv'
<1> DEFINE s == sweep[p]
           s2 == [s EXCEPT !.at = "fire", !.item = {}]
<1>1. /\ s.at = "enqueue" /\ UNCHANGED <<now, rows, faults, edits>>
      /\ s \in Locals /\ Tidy(s)
  BY HandTidy DEF Enqueue
<1>2. PICK m \in s.item :
        owed' = {o \in owed : Due(o) # Key([reg |-> m.reg, rule |-> m.win.rule,
                   anchor |-> m.win.anchor, month |-> m.win.month, day |-> m.day])}
  BY DEF Enqueue
<1>3. /\ s2.at = "fire" /\ s2.item = {} /\ s2.todo = s.todo
      /\ s2.windows = s.windows /\ s2.span = s.span /\ s2.skip = s.skip
      /\ s2.due = s.due /\ s2.full = s.full
  BY <1>1 DEF Locals
<1>4. sweep' = [sweep EXCEPT ![p] = s2]
  <2>1. sweep \in [Replicas -> Locals]
    BY DEF ServedInv, MonthlyInv, TypeOK
  <2>2. sweep' = [sweep EXCEPT ![p].at = "fire", ![p].item = {}]
    BY DEF Enqueue
  <2> QED
    BY <2>1, <2>2
<1> HIDE DEF s2
<1>5. ASSUME NEW o \in owed' PROVE MatchOf(o) \notin s.item
  <2> SUFFICES ASSUME MatchOf(o) \in s.item PROVE FALSE
    OBVIOUS
  <2>1. m = MatchOf(o)
    BY <1>1, <1>2 DEF Tidy
  <2>2. m.reg = o.reg /\ m.win.rule = o.rule /\ m.win.month = MonthOf(o.anchor)
    BY <2>1 DEF MatchOf, WindowOf
  <2>3. Key([reg |-> m.reg, rule |-> m.win.rule, anchor |-> m.win.anchor,
             month |-> m.win.month, day |-> m.day]) = <<m.reg, m.win.rule, m.win.month>>
    BY DEF Key
  <2>4. Due(o) = <<o.reg, o.rule, MonthOf(o.anchor)>>
    BY DEF Due
  <2> QED
    BY <1>2, <2>2, <2>3, <2>4
<1>6. owed' \subseteq owed
  BY <1>2
<1>7. \A o \in owed' : WillServe(o, s) => WillServe(o, s2)
  BY <1>1, <1>3, <1>5 DEF WillServe, OnLaterPage
<1>8. \A o \in owed' : Chance(o, s2)
  BY <1>1, <1>3, <1>6, <1>7, GoesOnServing
<1>9. Tidy(s2)
  BY <1>1, <1>3 DEF Tidy
<1> QED
  BY <1>1, <1>4, <1>6, <1>8, <1>9, SweepServes

-----------------------------------------------------------------------------
(* Faults and edits. *)

\* While faults or edits are to come, the windows of what is owed are open.
LEMMA StillOpen ==
  ASSUME ServedInv, NEW o \in owed, Left > 0
  PROVE  Open(o)
<1>1. PICK p \in Replicas : TRUE
  BY RuleAssumption
<1>2. Chance(o, sweep[p]) /\ Left # 0
  BY OwedTyped, Account
<1> QED
  BY <1>2 DEF Chance, Room

\* Where a fault or an edit strikes, p has time for one more run: it may lose the
\* one it is in, or go on with it and not come to o any more.
LEMMA Struck ==
  ASSUME ServedInv, NEW p \in Replicas, NEW o \in owed,
         Left > 0, Left' = Left - 1, now' = now, sendTime'[o.rule] = sendTime[o.rule]
  PROVE  /\ Chance(o, Idle)'
         /\ \A s2 : (\/ s2 = sweep[p]
                     \/ sweep[p].at # "idle" /\ s2.at # "idle" /\ s2.span = sweep[p].span)
                    => Chance(o, s2)'
<1>1. /\ Reserve' = Reserve - (MaxSpan + 1) /\ Reserve \in Nat /\ MaxSpan \in Nat
      /\ Tolerance \in Nat /\ Lateness(o) \in Int
  BY Spent, Account, OwedTyped
<1>2. /\ Lateness(o)' = Lateness(o) /\ Open(o)' = Open(o) /\ Open(o)
  BY StillOpen DEF Lateness, Open
<1>3. sweep[p].span \in 0 .. MaxSpan
  BY HandTidy
<1>4. \/ sweep[p].at = "idle" /\ Room(o, IF sweep[p].due THEN 0 ELSE 1)
      \/ sweep[p].at # "idle" /\ Room(o, 0 - sweep[p].span)
      \/ sweep[p].at # "idle" /\ Room(o, MaxSpan + 1 - sweep[p].span)
  <2>1. Left # 0
    BY Account
  <2> QED
    BY <2>1, OwedTyped DEF Chance
<1>5. PICK n \in Nat : n >= 1 /\ n = MaxSpan + 1 - sweep[p].span
  BY <1>1, <1>3
<1>6. \A k \in Int : Room(o, k)' <=> Lateness(o) + k + Reserve < Tolerance + (MaxSpan + 1)
  BY <1>1, <1>2 DEF Room
<1>7. sweep[p].at # "idle" => Lateness(o) + n + Reserve < Tolerance + (MaxSpan + 1)
  BY <1>1, <1>3, <1>4, <1>5 DEF Room
<1>8. Lateness(o) + 1 + Reserve < Tolerance + (MaxSpan + 1)
  BY <1>1, <1>3, <1>4 DEF Room
<1>9. Room(o, 1)' /\ (sweep[p].at # "idle" => Room(o, n)')
  BY <1>5, <1>6, <1>7, <1>8
<1>10. Room(o, 0)'
  BY <1>1, <1>6, <1>8
<1>11. Chance(o, Idle)'
  BY <1>9 DEF Chance, Idle
<1>12. ASSUME NEW s2, sweep[p].at # "idle" /\ s2.at # "idle" /\ s2.span = sweep[p].span
       PROVE  Chance(o, s2)'
  <2>1. Room(o, n)' /\ n = MaxSpan + 1 - s2.span
    BY <1>5, <1>9, <1>12
  <2>2. Room(o, MaxSpan + 1 - s2.span)'
    BY <2>1 DEF Room
  <2> QED
    BY <1>12, <2>2 DEF Chance
<1>13. ASSUME NEW s2, s2 = sweep[p], sweep[p].at = "idle" PROVE Chance(o, s2)'
  <2>1. s2.at = "idle" /\ Room(o, IF s2.due THEN 0 ELSE 1)'
    BY <1>9, <1>10, <1>13
  <2> QED
    BY <2>1 DEF Chance
<1> QED
  BY <1>11, <1>12, <1>13

LEMMA FaultServes ==
  ASSUME ServedInv, MonthlyInv', NEW p \in Replicas, Fault(p)
  PROVE  ServedInv'
<1>1. /\ faults < MaxFaults /\ faults' = faults + 1
      /\ UNCHANGED <<now, rows, outbox, edits, owed>>
  BY DEF Fault
<1>2. /\ faults \in 0 .. MaxFaults /\ edits \in 0 .. MaxEdits
      /\ MaxFaults \in Nat /\ MaxEdits \in Nat
  BY RuleAssumption DEF ServedInv, Budget
<1>3. Left > 0 /\ Left' = Left - 1 /\ Budget'
  BY <1>1, <1>2 DEF Left, Budget
<1> DEFINE s == sweep[p]
           s1 == [s EXCEPT !.at = "fire", !.item = {}]
<1>4. s \in Locals /\ Tidy(s) /\ sweep \in [Replicas -> Locals]
  BY HandTidy DEF ServedInv, MonthlyInv, TypeOK
<1>5. /\ s1.at = "fire" /\ s1.item = {} /\ s1.span = s.span /\ s1.due = s.due
  BY <1>4 DEF Locals
<1>6. \/ s.at = "enqueue" /\ sweep' = [sweep EXCEPT ![p] = s1]
      \/ sweep' = [sweep EXCEPT ![p] = Idle]
  BY <1>4 DEF Fault
<1> HIDE DEF s1
<1>7. PICK s2 : /\ sweep' = [sweep EXCEPT ![p] = s2]
                /\ s2 = Idle \/ (s.at = "enqueue" /\ s2 = s1)
  BY <1>6
<1>8. \A q \in Replicas : sweep'[q] = IF q = p THEN s2 ELSE sweep[q]
  BY <1>4, <1>7
<1>9. Tidy(s2)
  <2>1. Tidy(s1) \/ s.at # "enqueue"
    BY <1>4, <1>5 DEF Tidy
  <2> QED
    BY <1>7, <2>1, IdleTidy
<1>10. \A q \in Replicas : Tidy(sweep[q])'
  <2>1. \A q \in Replicas : Tidy(sweep'[q])
    BY <1>8, <1>9, HandTidy
  <2> QED
    BY <2>1 DEF Tidy
<1>11. ASSUME NEW o \in owed PROVE Rests(o)' /\ \A q \in Replicas : Chance(o, sweep[q])'
  <2>1. now' = now /\ sendTime'[o.rule] = sendTime[o.rule]
    BY <1>1 DEF rows
  <2>2. Rests(o)'
    BY <1>1, OwedTyped DEF Rests, rows
  <2>3. Chance(o, Idle)'
    BY <1>3, <2>1, Struck
  <2>4. \A y : s.at = "enqueue" /\ y = s1 => Chance(o, y)'
    <3>1. \A y : s.at # "idle" /\ y.at # "idle" /\ y.span = s.span => Chance(o, y)'
      BY <1>3, <2>1, Struck
    <3> QED
      BY <1>5, <3>1
  <2>5. ASSUME NEW q \in Replicas, q # p PROVE Chance(o, sweep[q])'
    <3>1. \A y : y = sweep[q] => Chance(o, y)'
      BY <1>3, <2>1, Struck
    <3>2. sweep'[q] = sweep[q]
      BY <1>8, <2>5
    <3> QED
      BY <3>1, <3>2
  <2>6. Chance(o, sweep[p])'
    <3>1. \A y : y = Idle \/ (s.at = "enqueue" /\ y = s1) => Chance(o, y)'
      BY <2>3, <2>4
    <3>2. sweep'[p] = s2
      BY <1>8
    <3> QED
      BY <1>7, <3>1, <3>2
  <2> QED
    BY <2>2, <2>5, <2>6
<1> QED
  BY <1>1, <1>3, <1>10, <1>11 DEF ServedInv

\* An edit that leaves the rows of an owed message alone, as all edits do whose
\* message is still owed after them.
LEMMA EditServes ==
  ASSUME ServedInv, MonthlyInv', Edit, owed' \subseteq owed,
         \A o \in owed' :
           /\ sendTime'[o.rule] = sendTime[o.rule] /\ event' = event
           /\ o.rule \in active => o.rule \in active'
           /\ reg'[o.reg] = reg[o.reg] /\ answer'[o.reg] = answer[o.reg]
  PROVE  ServedInv'
<1>1. /\ edits < MaxEdits /\ edits' = edits + 1
      /\ UNCHANGED <<now, outbox, sweep, faults>>
  BY DEF Edit
<1>2. /\ faults \in 0 .. MaxFaults /\ edits \in 0 .. MaxEdits
      /\ MaxFaults \in Nat /\ MaxEdits \in Nat
  BY RuleAssumption DEF ServedInv, Budget
<1>3. Left > 0 /\ Left' = Left - 1 /\ Budget'
  BY <1>1, <1>2 DEF Left, Budget
<1>4. \A q \in Replicas : Tidy(sweep[q])'
  BY <1>1, HandTidy DEF Tidy
<1>5. ASSUME NEW o \in owed' PROVE Rests(o)' /\ \A q \in Replicas : Chance(o, sweep[q])'
  <2>0. o \in owed /\ Rests(o)
    BY <1>5, OwedTyped
  <2>1. Rests(o)'
    BY <1>5, <2>0 DEF Rests
  <2>2. ASSUME NEW q \in Replicas PROVE Chance(o, sweep[q])'
    <3>1. \A y : y = sweep[q] => Chance(o, y)'
      BY <1>1, <1>3, <1>5, <2>0, Struck
    <3>2. sweep'[q] = sweep[q]
      BY <1>1
    <3> QED
      BY <3>1, <3>2
  <2> QED
    BY <2>1, <2>2
<1> QED
  BY <1>3, <1>4, <1>5 DEF ServedInv

\* Whoever touches what is owed takes it off the account, its window being open.
LEMMA TouchedIsDropped ==
  ASSUME ServedInv, Edit, NEW touched, Disturbs(touched)
  PROVE  owed' \subseteq owed /\ \A o \in owed' : o \notin touched
<1>1. Left > 0
  <2>1. /\ faults \in 0 .. MaxFaults /\ edits \in 0 .. MaxEdits /\ edits < MaxEdits
        /\ MaxFaults \in Nat /\ MaxEdits \in Nat
    BY RuleAssumption DEF ServedInv, Budget, Edit
  <2> QED
    BY <2>1 DEF Left
<1> QED
  BY <1>1, StillOpen DEF Disturbs

LEMMA UsersServe ==
  ASSUME ServedInv, MonthlyInv',
         \/ \E g \in Regs : Decide(g) \/ AnswerAgain(g)
         \/ \E r \in Rules : PatchRule(r)
         \/ UpdateStatus
  PROVE  ServedInv'
<1>1. /\ reg \in [Regs -> RegStatuses] /\ answer \in [Regs -> Answers]
      /\ sendTime \in [Rules -> SendTimes] /\ \A o \in owed : o.reg \in Regs /\ o.rule \in Rules
  BY OwedTyped DEF ServedInv, MonthlyInv, TypeOK
<1>2. ASSUME NEW g \in Regs, Decide(g) PROVE ServedInv'
  <2>1. /\ Edit /\ Disturbs({o \in owed : o.reg = g})
        /\ UNCHANGED <<event, active, sendTime, answer>>
        /\ \A h \in Regs \ {g} : reg'[h] = reg[h]
    BY <1>1, <1>2 DEF Decide
  <2>2. owed' \subseteq owed /\ \A o \in owed' : o.reg # g
    BY <2>1, TouchedIsDropped
  <2> QED
    BY <1>1, <2>1, <2>2, EditServes
<1>3. ASSUME NEW g \in Regs, AnswerAgain(g) PROVE ServedInv'
  <2>1. /\ Edit /\ Disturbs({o \in owed : o.reg = g})
        /\ UNCHANGED <<event, active, sendTime, reg>>
        /\ \A h \in Regs \ {g} : answer'[h] = answer[h]
    BY <1>1, <1>3 DEF AnswerAgain
  <2>2. owed' \subseteq owed /\ \A o \in owed' : o.reg # g
    BY <2>1, TouchedIsDropped
  <2> QED
    BY <1>1, <2>1, <2>2, EditServes
<1>4. ASSUME NEW r \in Rules, PatchRule(r) PROVE ServedInv'
  <2>1. /\ Edit /\ Disturbs({o \in owed : o.rule = r})
        /\ UNCHANGED <<event, reg, answer>>
        /\ \A q \in Rules \ {r} : sendTime'[q] = sendTime[q] /\ (q \in active => q \in active')
    BY <1>1, <1>4 DEF PatchRule
  <2>2. owed' \subseteq owed /\ \A o \in owed' : o.rule # r
    BY <2>1, TouchedIsDropped
  <2> QED
    BY <1>1, <2>1, <2>2, EditServes
<1>5. CASE UpdateStatus
  <2>1. Edit /\ Disturbs(owed)
    BY <1>5 DEF UpdateStatus
  <2>2. owed' \subseteq owed /\ \A o \in owed' : o \notin owed
    BY <2>1, TouchedIsDropped
  <2>3. owed' = {}
    BY <2>2
  <2> QED
    BY <2>1, <2>3, EditServes
<1> QED
  BY <1>2, <1>3, <1>4, <1>5

-----------------------------------------------------------------------------
(* The clock. *)

LEMMA LaterByOne ==
  ASSUME ServedInv, NEW o \in owed, Tick, Open(o), Lateness(o) + 1 < Tolerance
  PROVE  Open(o)' /\ Lateness(o)' = Lateness(o) + 1
<1> DEFINE a == o.anchor
           time == sendTime[o.rule]
<1>1. /\ now' = NextTick /\ sendTime' = sendTime /\ now \in Instant
  BY DEF Tick, rows, ServedInv, MonthlyInv, TypeOK
<1>2. /\ a \in Nat /\ time \in 0 .. DayTicks - 1 /\ now.day \in Nat
      /\ now.tick \in 0 .. DayTicks - 1
      /\ DayTicks \in Nat /\ Tolerance \in Nat /\ Tolerance < DayTicks
  BY OwedTyped, Account
<1>3. a = now.day \/ a = now.day - 1
  BY DEF Open, Anchors
<1>4. 0 <= Lateness(o) /\ Lateness(o) \in Int
  BY OwedTyped DEF Open, Anchors, Lateness
<1>5. Lateness(o) = (IF a = now.day THEN now.tick ELSE now.tick + DayTicks) - time
  BY DEF Lateness, Late
<1>6. /\ a \in {now'.day, now'.day - 1}
      /\ (IF a = now'.day THEN now'.tick ELSE now'.tick + DayTicks) - time = Lateness(o) + 1
  <2>1. CASE now.tick + 1 < DayTicks
    <3>1. now'.day = now.day /\ now'.tick = now.tick + 1
      BY <1>1, <2>1 DEF NextTick, Instant
    <3> QED
      BY <1>2, <1>3, <1>5, <3>1
  <2>2. CASE ~ now.tick + 1 < DayTicks
    <3>1. now'.day = now.day + 1 /\ now'.tick = 0
      BY <1>1, <2>2 DEF NextTick
    <3>2. now.tick = DayTicks - 1
      BY <1>2, <2>2
    <3>3. a = now.day
      BY <1>2, <1>3, <1>5, <3>2
    <3> QED
      BY <1>2, <1>5, <3>1, <3>2, <3>3
  <2> QED
    BY <2>1, <2>2
<1>7. Lateness(o)' = Lateness(o) + 1
  BY <1>1, <1>6 DEF Lateness, Late
<1>8. Late(now', a, time) = Lateness(o) + 1
  BY <1>6 DEF Late
<1>9. a \in Anchors(now', time)
  BY <1>4, <1>6, <1>8 DEF Anchors
<1> QED
  BY <1>1, <1>7, <1>9 DEF Open

\* What falls due has its whole window before it.
LEMMA FreshlyDue ==
  ASSUME ServedInv, EnoughRuns, Tick, NEW o \in FallsDue(NextTick)
  PROVE  Rests(o)' /\ \A n \in Int : n <= MaxSpan => Room(o, n)'
<1>1. /\ now' = NextTick /\ NextTick.day <= LastTick
      /\ UNCHANGED <<event, active, sendTime, reg, answer, faults, edits>>
  BY DEF Tick, rows
<1>2. /\ o.reg \in Approved /\ o.rule \in ActiveRules(NextTick) /\ o.anchor = NextTick.day
      /\ o.anchor # LastDay /\ sendTime[o.rule] = NextTick.tick
      /\ answer[o.reg] # 0 /\ NextTick.day = TargetDay(answer[o.reg], MonthOf(NextTick.day))
  BY DEF FallsDue
<1>3. now'.tick \in Nat /\ now'.day \in Nat
  <2>1. now \in Instant /\ now.tick + 1 \in Nat
    BY DEF ServedInv, MonthlyInv, TypeOK, Instant
  <2> QED
    BY <1>1, <2>1 DEF NextTick, Instant
<1>4. event = "published" /\ o.rule \in active /\ NextTick.day <= LastDay
  BY <1>2 DEF ActiveRules, Oldest
<1>5. Rests(o)'
  <2>1. o.anchor \in 0 .. LastTick /\ o.anchor < LastDay
    BY <1>1, <1>2, <1>3, <1>4, Calendar, Constants
  <2>2. reg[o.reg] = "approved"
    BY <1>2 DEF Approved
  <2> QED
    BY <1>1, <1>2, <1>4, <2>1, <2>2 DEF Rests
<1>6. Lateness(o)' = 0
  BY <1>1, <1>2, <1>3 DEF Lateness, Late
<1>7. /\ Reserve' = Reserve /\ Reserve \in Nat /\ MaxSpan \in Nat /\ Tolerance \in Nat
      /\ Reserve + (MaxSpan + 1) <= Tolerance
  BY <1>1, Account DEF Reserve, Left
<1>8. Open(o)'
  <2>1. o.anchor \in {now'.day, now'.day - 1}
    BY <1>1, <1>2
  <2>2. Late(now', o.anchor, sendTime'[o.rule]) = 0
    BY <1>6 DEF Lateness
  <2>3. 0 < Tolerance
    BY <1>7
  <2> QED
    BY <2>1, <2>2, <2>3 DEF Open, Anchors
<1> QED
  BY <1>5, <1>6, <1>7, <1>8 DEF Room

LEMMA TickServes ==
  ASSUME ServedInv, EnoughRuns, MonthlyInv', Tick
  PROVE  ServedInv'
<1>1. /\ \A p \in Replicas : ~ sweep[p].due /\ sweep[p].span < MaxSpan
      /\ owed' = owed \cup FallsDue(NextTick)
      /\ sweep' = [p \in Replicas |->
           IF sweep[p].at = "idle" THEN [sweep[p] EXCEPT !.due = TRUE]
                                   ELSE [sweep[p] EXCEPT !.span = @ + 1]]
      /\ UNCHANGED <<event, active, sendTime, reg, answer, outbox, faults, edits>>
  BY DEF Tick, rows
<1>2. \A p \in Replicas :
        /\ sweep'[p].at = sweep[p].at
        /\ sweep[p].at = "idle" => sweep'[p].due /\ sweep'[p].span = sweep[p].span
        /\ sweep[p].at # "idle" => /\ sweep'[p].due = sweep[p].due
                                   /\ sweep'[p].span = sweep[p].span + 1
        /\ sweep'[p].top = sweep[p].top /\ sweep'[p].windows = sweep[p].windows
        /\ sweep'[p].skip = sweep[p].skip /\ sweep'[p].full = sweep[p].full
        /\ sweep'[p].todo = sweep[p].todo /\ sweep'[p].item = sweep[p].item
  <2> SUFFICES ASSUME NEW p \in Replicas
               PROVE  /\ sweep'[p].at = sweep[p].at
                      /\ sweep[p].at = "idle" => sweep'[p].due /\ sweep'[p].span = sweep[p].span
                      /\ sweep[p].at # "idle" => /\ sweep'[p].due = sweep[p].due
                                                 /\ sweep'[p].span = sweep[p].span + 1
                      /\ sweep'[p].top = sweep[p].top /\ sweep'[p].windows = sweep[p].windows
                      /\ sweep'[p].skip = sweep[p].skip /\ sweep'[p].full = sweep[p].full
                      /\ sweep'[p].todo = sweep[p].todo /\ sweep'[p].item = sweep[p].item
    OBVIOUS
  <2>1. sweep[p] \in Locals
    BY HandTidy
  <2> QED
    BY <1>1, <2>1 DEF Locals
<1>3. Left' = Left /\ Reserve' = Reserve
  BY <1>1 DEF Left, Reserve
<1>4. \A p \in Replicas : Tidy(sweep[p])'
  <2>1. ASSUME NEW p \in Replicas PROVE Tidy(sweep'[p])
    <3>1. Tidy(sweep[p]) /\ sweep[p].span \in 0 .. MaxSpan /\ sweep[p].span < MaxSpan
      BY <1>1, HandTidy
    <3>2. sweep'[p].span \in 0 .. MaxSpan
      BY <1>2, <3>1, Account
    <3> QED
      BY <1>2, <3>1, <3>2 DEF Tidy
  <2> QED
    BY <2>1 DEF Tidy
<1>5. ASSUME NEW o \in owed PROVE Rests(o)' /\ \A p \in Replicas : Chance(o, sweep[p])'
  <2>1. Rests(o)'
    BY <1>1, OwedTyped DEF Rests
  <2>2. ASSUME NEW p \in Replicas PROVE Chance(o, sweep[p])'
    <3>1. /\ Reserve \in Nat /\ MaxSpan \in Nat /\ Tolerance \in Nat /\ Lateness(o) \in Int
          /\ sweep[p].span \in Nat /\ sweep[p].span < MaxSpan
          /\ Left > 0 => Reserve >= MaxSpan + 1
      BY <1>1, Account, OwedTyped, HandTidy
    <3>2. Chance(o, sweep[p])
      BY OwedTyped
    <3>3. ASSUME NEW n \in Int, NEW k \in Int, Room(o, n), k <= n - 1, n + Reserve >= 1
          PROVE  Room(o, k)'
      <4>1. Open(o)' /\ Lateness(o)' = Lateness(o) + 1
        BY <3>1, <3>3, LaterByOne DEF Room
      <4> QED
        BY <1>3, <3>1, <3>3, <4>1 DEF Room
    <3>4. CASE sweep[p].at = "idle"
      <4>1. Room(o, 1)
        BY <1>1, <3>2, <3>4 DEF Chance
      <4>2. Room(o, 0)'
        BY <3>1, <3>3, <4>1
      <4> QED
        BY <1>2, <3>4, <4>2 DEF Chance
    <3>5. CASE sweep[p].at # "idle" /\ Room(o, MaxSpan + 1 - sweep[p].span)
      <4>1. PICK n \in Int : n = MaxSpan + 1 - sweep[p].span
        BY <3>1
      <4>2. Room(o, n - 1)'
        BY <3>1, <3>3, <3>5, <4>1
      <4>3. MaxSpan + 1 - sweep'[p].span = n - 1
        BY <1>2, <3>1, <3>5, <4>1
      <4>4. Room(o, MaxSpan + 1 - sweep[p].span)'
        BY <4>2, <4>3 DEF Room
      <4> QED
        BY <1>2, <3>5, <4>4 DEF Chance
    <3>6. CASE /\ sweep[p].at # "idle" /\ WillServe(o, sweep[p])
               /\ Left = 0 \/ Room(o, 0 - sweep[p].span)
      <4>1. WillServe(o, sweep[p])'
        <5>1. MatchOf(o)' = MatchOf(o) /\ WindowOf(o)' = WindowOf(o)
          BY <1>1 DEF MatchOf, WindowOf
        <5>2. Place(o.reg)' = Place(o.reg)
          BY <1>1 DEF Place, Approved
        <5>3. sendTime' = sendTime /\ sweep'[p].at = sweep[p].at /\ sweep'[p].top = sweep[p].top
          BY <1>1, <1>2
        <5>4. OnLaterPage(o, sweep[p]) => OnLaterPage(o, sweep[p])'
          BY <1>2, <5>1, <5>2 DEF OnLaterPage
        <5>5. MatchOf(o) \in sweep[p].todo => MatchOf(o)' \in sweep'[p].todo
          BY <1>2, <5>1
        <5>6. MatchOf(o) \in sweep[p].item => MatchOf(o)' \in sweep'[p].item
          BY <1>2, <5>1
        <5>7. /\ WindowOf(o) \in sweep[p].windows => WindowOf(o)' \in sweep'[p].windows
              /\ sweep'[p].skip = sweep[p].skip
          BY <1>2, <5>1
        <5>8. CASE sweep[p].at = "rules" /\ o.anchor \in Anchors(sweep[p].top, sendTime[o.rule])
          BY <5>3, <5>8 DEF WillServe
        <5>9. CASE /\ sweep[p].at = "page" /\ WindowOf(o) \in sweep[p].windows
                   /\ sweep[p].skip <= Place(o.reg)
          BY <5>2, <5>3, <5>7, <5>9 DEF WillServe
        <5>10. CASE /\ sweep[p].at \in {"fire", "enqueue"}
                    /\ MatchOf(o) \in sweep[p].todo \/ OnLaterPage(o, sweep[p])
          BY <5>3, <5>4, <5>5, <5>10 DEF WillServe
        <5>11. CASE sweep[p].at = "enqueue" /\ MatchOf(o) \in sweep[p].item
          BY <5>3, <5>6, <5>11 DEF WillServe
        <5> QED
          BY <3>6, <5>8, <5>9, <5>10, <5>11 DEF WillServe
      <4>2. Left' = 0 \/ Room(o, 0 - sweep[p].span)'
        <5>1. CASE Left = 0
          BY <1>3, <5>1
        <5>2. CASE Left # 0 /\ Room(o, 0 - sweep[p].span)
          <6>1. PICK n \in Int : n = 0 - sweep[p].span
            BY <3>1
          <6>2. Left > 0
            BY <5>2, Account
          <6>3. n + Reserve >= 1
            BY <3>1, <6>1, <6>2
          <6>4. Room(o, n - 1)'
            BY <3>1, <3>3, <5>2, <6>1, <6>3
          <6>5. 0 - sweep'[p].span = n - 1
            BY <1>2, <3>1, <3>6, <6>1
          <6> QED
            BY <6>4, <6>5 DEF Room
        <5> QED
          BY <3>6, <5>1, <5>2
      <4> QED
        BY <1>2, <3>6, <4>1, <4>2 DEF Chance
    <3> QED
      BY <3>2, <3>4, <3>5, <3>6 DEF Chance
  <2> QED
    BY <2>1, <2>2
<1>6. ASSUME NEW o \in FallsDue(NextTick)
      PROVE  Rests(o)' /\ \A p \in Replicas : Chance(o, sweep[p])'
  <2>1. Rests(o)' /\ \A n \in Int : n <= MaxSpan => Room(o, n)'
    BY <1>6, FreshlyDue
  <2>2. ASSUME NEW p \in Replicas PROVE Chance(o, sweep[p])'
    <3>1. sweep[p].span \in Nat /\ MaxSpan \in Nat
      BY HandTidy, Account
    <3>2. CASE sweep[p].at = "idle"
      <4>1. Room(o, 0)'
        BY <2>1, <3>1
      <4> QED
        BY <1>2, <3>2, <4>1 DEF Chance
    <3>3. CASE sweep[p].at # "idle"
      <4>1. PICK n \in Int : n = MaxSpan - sweep[p].span
        BY <3>1
      <4>2. Room(o, n)'
        BY <2>1, <3>1, <4>1
      <4>3. MaxSpan + 1 - sweep'[p].span = n
        BY <1>2, <3>1, <3>3, <4>1
      <4>4. Room(o, MaxSpan + 1 - sweep[p].span)'
        BY <4>2, <4>3 DEF Room
      <4> QED
        BY <1>2, <3>3, <4>4 DEF Chance
    <3> QED
      BY <3>2, <3>3
  <2> QED
    BY <2>1, <2>2
<1>7. Budget'
  BY <1>1 DEF ServedInv, Budget
<1> QED
  BY <1>1, <1>4, <1>5, <1>6, <1>7 DEF ServedInv

-----------------------------------------------------------------------------
LEMMA ServedInit == Init => ServedInv
<1> SUFFICES ASSUME Init PROVE ServedInv
  OBVIOUS
<1>1. Budget
  BY RuleAssumption DEF Init, Budget
<1>2. \A p \in Replicas : Tidy(sweep[p])
  BY IdleTidy DEF Init
<1>3. owed = {}
  BY DEF Init
<1> QED
  BY <1>1, <1>2, <1>3, MonthlyInit DEF ServedInv

LEMMA ServedNext ==
  ASSUME EnoughRuns, EveryRuleIsRead
  PROVE  ServedInv /\ [Next]_vars => ServedInv'
<1> SUFFICES ASSUME ServedInv, [Next]_vars PROVE ServedInv'
  OBVIOUS
<1>1. MonthlyInv'
  BY MonthlyNext DEF ServedInv
<1>2. ASSUME NEW p \in Replicas, Step(p) PROVE ServedInv'
  BY <1>1, <1>2, StartServes, RulesServe, PageServes, NextServes, CheckServes, EnqueueServes
     DEF Step
<1>3. ASSUME NEW p \in Replicas, Fault(p) PROVE ServedInv'
  BY <1>1, <1>3, FaultServes
<1>4. CASE \/ \E g \in Regs : Decide(g) \/ AnswerAgain(g)
           \/ \E r \in Rules : PatchRule(r)
           \/ UpdateStatus
  BY <1>1, <1>4, UsersServe
<1>5. CASE Tick
  BY <1>1, <1>5, TickServes
<1>6. CASE UNCHANGED vars
  <2>1. /\ UNCHANGED <<now, rows, faults, edits>> /\ sweep' = sweep /\ owed' = owed
    BY <1>6 DEF vars
  <2>2. \A p \in Replicas : Tidy(sweep[p])'
    BY <2>1, HandTidy DEF Tidy
  <2>3. ASSUME NEW o \in owed', NEW p \in Replicas PROVE Rests(o)' /\ Chance(o, sweep[p])'
    <3>1. \A y : (Rests(o) <=> Rests(o)') /\ (Chance(o, y) <=> Chance(o, y)')
      BY <2>1, ChanceFrame
    <3>2. Rests(o) /\ Chance(o, sweep[p]) /\ sweep'[p] = sweep[p]
      BY <2>1, OwedTyped
    <3> QED
      BY <3>1, <3>2
  <2>4. PICK p \in Replicas : TRUE
    BY RuleAssumption
  <2> QED
    BY <1>1, <2>1, <2>2, <2>3, <2>4 DEF ServedInv, Budget
<1> QED
  BY <1>2, <1>3, <1>4, <1>5, <1>6 DEF Next

\* Whatever single sweeps die, are missed or lose their place, every approved
\* registration with an answer due that day has its message of the month when the
\* last sweep that began in the window is over: the repeated runs make up for it.
THEOREM EveryMonthIsServed == Spec => []NobodyMissesAMonth
<1>1. CASE EnoughRuns /\ EveryRuleIsRead
  <2>1. ServedInv => NobodyMissesAMonth
    <3> SUFFICES ASSUME ServedInv, NEW o \in owed, ~ Open(o)
                 PROVE  \E p \in Replicas : sweep[p].due \/ sweep[p].at # "idle"
      BY DEF NobodyMissesAMonth
    <3>1. PICK p \in Replicas : TRUE
      BY RuleAssumption
    <3>2. Chance(o, sweep[p])
      BY OwedTyped
    <3> QED
      BY <3>2 DEF Chance, Room
  <2>2. ServedInv /\ [Next]_vars => ServedInv'
    BY <1>1, ServedNext
  <2> QED
    BY <2>1, <2>2, ServedInit, PTL DEF Spec
<1>2. CASE ~ (EnoughRuns /\ EveryRuleIsRead)
  <2>1. NobodyMissesAMonth
    BY <1>2 DEF NobodyMissesAMonth
  <2> QED
    BY <2>1, PTL
<1> QED
  BY <1>1, <1>2
=============================================================================
