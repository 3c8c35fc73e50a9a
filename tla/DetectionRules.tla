---------------------------- MODULE DetectionRules ----------------------------
(***************************************************************************)
(* The arithmetic of the four rules of app/services/                       *)
(* anomaly_detection_service.py: when each one fires, and with which       *)
(* severity.  A ratio a / b of the code is compared with a limit n as      *)
(* a > n * b, which is the same for positive b and needs no fractions.     *)
(***************************************************************************)
EXTENDS Integers

Severity == {"low", "medium", "high", "critical"}

\* What an alert is raised for.
Severe == {"high", "critical"}

Larger(m, n) == IF m >= n THEN m ELSE n

Magnitude(n) == IF n >= 0 THEN n ELSE -n

\* The severity of the ratio a / b, given the limits above which it is medium,
\* high and critical.
Graded(a, b, medium, high, critical) ==
  IF a > critical * b THEN "critical"
  ELSE IF a > high * b THEN "high"
  ELSE IF a > medium * b THEN "medium"
  ELSE "low"

\* NegativeInventoryRule.
NegativeFires(quantity) == quantity < 0

\* SuddenSalesSpike: the largest of "count" sales that come to "total" is more
\* than 5 times their average.
SpikeFires(day) == day.count >= 5 /\ day.largest * day.count > 5 * day.total

SpikeSeverity(day) == Graded(day.largest * day.count, day.total, 5, 7, 10)

\* LargeInventoryAdjustment: the change is more than half of the larger of the
\* quantity before it and the quantity the row shows.
Reference(before, current) ==
  Larger(Larger(Magnitude(before), Magnitude(current)), 1)

AdjustmentFires(delta, before, current) ==
  100 * Magnitude(delta) > 50 * Reference(before, current)

AdjustmentSeverity(delta, before, current) ==
  Graded(100 * Magnitude(delta), Reference(before, current), 75, 100, 150)

\* RapidConsecutiveSales: this many sales within the window.
RapidFires(sales) == sales >= 5

RapidSeverity(sales) == Graded(sales, 1, 7, 10, 15)

=============================================================================
