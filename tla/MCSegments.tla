------------------------------ MODULE MCSegments ------------------------------
(* Instances of SegmentBench for TLC.  A second is 2 ticks, an hour one       *)
(* second, a day two, and purchases are kept for two days.                    *)
EXTENDS SegmentBench, TLC

CONSTANTS p1, p2, a, b

Event1(id, type, ts, category, price) ==
  [id |-> id, profile |-> p1, type |-> type, ts |-> ts, category |-> category, price |-> price]

View(id, ts, category) == Event1(id, "page_view", ts, category, 0)
Cart(id, ts) == Event1(id, "add_to_cart", ts, a, 0)
Bought(id, ts, price) == Event1(id, "purchase", ts, a, price)

\* One segment of each family.
OneEach ==
  ("count" :> [family |-> "purchase_count_min", MinCount |-> 1, WindowDays |-> 1])
  @@ ("value" :> [family |-> "purchase_value_min", MinValue |-> 3, WindowDays |-> 2])
  @@ ("cart" :> [family |-> "cart_abandon_days", MinDays |-> 1])
  @@ ("churn" :> [family |-> "churn_risk_days", MinDays |-> 1])
  @@ ("views" :> [family |-> "category_view_min", Category |-> a, MinCount |-> 1])
  @@ ("active" :> [family |-> "recently_active_hours", MinHours |-> 1])
  @@ ("never" :> [family |-> "never_purchased"])
  @@ ("multi" :> [family |-> "multi_category_shopper_min", MinDistinct |-> 1])

\* b2 comes two days after b1, late within a second of being a day old then.
b1 == Bought(1, 2, 1)
b2 == Bought(2, 10, 2)
late == Bought(6, 7, 2)

\* The event of another profile: time passes for p1 without one of its own.
Others(category) == [View(5, 10, category) EXCEPT !.profile = p2]

Streams == {b1, b2, View(3, 3, a), Cart(4, 4), Others(NoCategory)}
Purchases == {b1, b2, late, Others(a)}

Limits(produces, resends, redis, store) ==
  ("produces" :> produces) @@ ("resends" :> resends) @@ ("redis" :> redis) @@ ("store" :> store)

NoFailures == Limits(0, 0, 0, 0)

\* Any of the failures.
Failures == Limits(1, 1, 1, 1)
=============================================================================
