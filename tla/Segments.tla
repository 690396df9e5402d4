------------------------------- MODULE Segments -------------------------------
(***************************************************************************)
(* The two answers of internal/segment to "who belongs to this segment":   *)
(* the incremental one, from the state Redis keeps of a profile, and the   *)
(* recompute, from the rows of the event log.  No state of its own.        *)
(*                                                                         *)
(* A segment is an id with a record: its family and the parameters the     *)
(* family reads.  An event has an id, a profile, a type, a category (NoCategory    *)
(* when the attribute is missing), a price and a time.  Times are ticks:   *)
(* Redis scores and ClickHouse's dateDiff keep whole seconds of them.      *)
(***************************************************************************)
EXTENDS Integers, FiniteSets, SequencesExt

CONSTANTS
  Profiles,
  Categories,
  NoCategory,
  Segments,        \* GenerateTestSegments: the definition behind each id
  Second,          \* ticks in a second, 1000 in the code
  Hour, Day,       \* ticks in them
  RetentionDays    \* 90 in the code

\* What GenerateTestSegments gives a family; no window outlasts the retention.
Parameters(seg) ==
  CASE seg.family = "purchase_count_min" ->
         seg.MinCount \in Nat \ {0} /\ seg.WindowDays \in 1 .. RetentionDays
    [] seg.family = "purchase_value_min" ->
         seg.MinValue \in Nat \ {0} /\ seg.WindowDays \in 1 .. RetentionDays
    [] seg.family = "cart_abandon_days" -> seg.MinDays \in Nat
    [] seg.family = "category_view_min" ->
         seg.Category \in Categories /\ seg.MinCount \in Nat \ {0}
    [] seg.family = "recently_active_hours" -> seg.MinHours \in Nat
    [] seg.family = "never_purchased" -> TRUE
    [] seg.family = "churn_risk_days" -> seg.MinDays \in Nat
    [] seg.family = "multi_category_shopper_min" -> seg.MinDistinct \in Nat \ {0}
    [] OTHER -> FALSE

ASSUME SegmentsAssumption ==
  /\ NoCategory \notin Categories
  /\ {Second, Hour, Day, RetentionDays} \subseteq Nat \ {0}
  /\ Day % Second = 0
  /\ IsFiniteSet(DOMAIN Segments)
  /\ \A s \in DOMAIN Segments : Parameters(Segments[s])

IDs == DOMAIN Segments

Sec(t) == t \div Second

-----------------------------------------------------------------------------
(* The profile's state in Redis: the stats hash, the hash of views per     *)
(* category, and the ZSET of purchases, whose members are an event's id    *)
(* and price.  A field that is missing reads as 0.                         *)

NoStats ==
  [total |-> 0, purchases |-> 0, last |-> 0, lastCart |-> 0, lastPurchase |-> 0,
   views |-> [c \in Categories |-> 0], purch |-> {}]

\* ZREMRANGEBYSCORE with an inclusive bound.
Trimmed(purch, ts) == {m \in purch : m.score > Sec(ts - RetentionDays * Day)}

Member(e) == [id |-> e.id, price |-> e.price, score |-> Sec(e.ts)]

WithPurchase(purch, e) == Trimmed(purch \cup {Member(e)}, e.ts)

\* The stats pipeline of ApplyEvent.
Applied(s, e) ==
  LET t == [s EXCEPT !.total = @ + 1, !.last = e.ts] IN
  CASE e.type = "purchase" ->
         [t EXCEPT !.purchases = @ + 1, !.lastPurchase = e.ts, !.purch = WithPurchase(@, e)]
    [] e.type = "add_to_cart" -> [t EXCEPT !.lastCart = e.ts]
    [] e.type = "page_view" /\ e.category # NoCategory -> [t EXCEPT !.views[e.category] = @ + 1]
    [] OTHER -> t

-----------------------------------------------------------------------------

\* ZCOUNT and ZRANGEBYSCORE, both bounds inclusive.
InWindow(s, seg, now) ==
  {m \in s.purch : Sec(now - seg.WindowDays * Day) <= m.score /\ m.score <= Sec(now)}

\* Deviation: off by one.
ViewedAgain(s) == {c \in Categories : s.views[c] > 1}

Viewed(s) == {c \in Categories : s.views[c] > 0}

\* Deviation: the cart counts as left whatever was bought since.
CartLeftBehindAnyway(s, seg, now) == s.lastCart > 0 /\ now - s.lastCart >= seg.MinDays * Day

CartLeftBehind(s, seg, now) ==
  /\ s.lastCart > 0
  /\ s.lastCart > s.lastPurchase
  /\ now - s.lastCart >= seg.MinDays * Day

Matches(s, seg, now) ==
  CASE seg.family = "purchase_count_min" -> Cardinality(InWindow(s, seg, now)) >= seg.MinCount
    [] seg.family = "purchase_value_min" ->
         MapThenSumSet(LAMBDA m : m.price, InWindow(s, seg, now)) >= seg.MinValue
    [] seg.family = "cart_abandon_days" -> CartLeftBehind(s, seg, now)
    [] seg.family = "category_view_min" -> s.views[seg.Category] >= seg.MinCount
    [] seg.family = "recently_active_hours" -> s.last > 0 /\ now - s.last <= seg.MinHours * Hour
    [] seg.family = "never_purchased" -> s.total > 0 /\ s.purchases = 0
    [] seg.family = "churn_risk_days" ->
         s.purchases > 0 /\ s.last > 0 /\ now - s.last >= seg.MinDays * Day
    [] seg.family = "multi_category_shopper_min" -> Cardinality(Viewed(s)) >= seg.MinDistinct

EvaluateProfile(s, now) ==
  IF s.total = 0 THEN {} ELSE {id \in IDs : Matches(s, Segments[id], now)}

-----------------------------------------------------------------------------
(* One query per family, grouped by profile: a profile without a row that  *)
(* passes WHERE has no group.  A group is the set of its rows' positions.  *)

OfProfile(rows, p) == {n \in DOMAIN rows : rows[n].profile = p}
OfType(rows, group, type) == {n \in group : rows[n].type = type}
Since(rows, group, from) == {n \in group : rows[n].ts >= from}
Latest(rows, group) == LET ts == {rows[n].ts : n \in group} IN IF ts = {} THEN 0 ELSE Max(ts)
DateDiffSeconds(from, to) == Sec(to) - Sec(from)
DaysPassed(from, to, days) == DateDiffSeconds(from, to) >= (days * Day) \div Second
SumOfPrices(rows, group) == MapThenSumSet(LAMBDA n : rows[n].price, group)

\* group: what WHERE timestamp <= asOf leaves of one profile.
Having(rows, group, seg, asOf) ==
  LET bought == OfType(rows, group, "purchase")
      carts == OfType(rows, group, "add_to_cart")
      views == OfType(rows, group, "page_view")
  IN CASE seg.family = "purchase_count_min" ->
            Cardinality(Since(rows, bought, asOf - seg.WindowDays * Day)) >= seg.MinCount
       [] seg.family = "purchase_value_min" ->
            LET inWindow == Since(rows, bought, asOf - seg.WindowDays * Day) IN
            inWindow # {} /\ SumOfPrices(rows, inWindow) >= seg.MinValue
       [] seg.family = "cart_abandon_days" ->
            /\ Latest(rows, carts) > Latest(rows, bought)
            /\ DaysPassed(Latest(rows, carts), asOf, seg.MinDays)
       [] seg.family = "category_view_min" ->
            Cardinality({n \in views : rows[n].category = seg.Category}) >= seg.MinCount
       [] seg.family = "recently_active_hours" ->
            Since(rows, group, asOf - seg.MinHours * Hour) # {}
       [] seg.family = "never_purchased" -> group # {} /\ bought = {}
       [] seg.family = "churn_risk_days" ->
            bought # {} /\ DaysPassed(Latest(rows, group), asOf, seg.MinDays)
       [] seg.family = "multi_category_shopper_min" ->
            Cardinality({rows[n].category : n \in views}) >= seg.MinDistinct

UpTo(rows, group, asOf) == {n \in group : rows[n].ts <= asOf}

Recompute(rows, seg, asOf) ==
  {p \in Profiles : Having(rows, UpTo(rows, OfProfile(rows, p), asOf), seg, asOf)}

=============================================================================
