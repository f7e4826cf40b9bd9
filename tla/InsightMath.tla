---------------------------- MODULE InsightMath ----------------------------
(***************************************************************************)
(* The mathematics of the Insight Agent (services/insight_math_service.py):*)
(* is the latest monthly value an anomaly against the line through the     *)
(* earlier ones, and which way does the series go?  Values are whole       *)
(* numbers and the arithmetic is exact: quotients are compared by cross    *)
(* multiplication, a standard deviation by its square.  (The code rounds:  *)
(* see the README for what that does to a line of decimal fractions.)      *)
(***************************************************************************)
EXTENDS Integers, Sequences

CONSTANTS MIN_SNAPSHOTS, MIN_ZSCORE_HISTORY,
          Z_THRESHOLD,      \* standard deviations
          SLOPE_THRESHOLD   \* per cent a month

ASSUME MathAssumption ==
    /\ MIN_SNAPSHOTS \in 1 .. 4 /\ MIN_ZSCORE_HISTORY \in 1 .. 3
    /\ Z_THRESHOLD \in 0 .. 2 /\ SLOPE_THRESHOLD \in Nat

\* The sums of the first values of s, of none to all of them.
Partials(s) ==
    LET sum[n \in 0 .. Len(s)] == IF n = 0 THEN 0 ELSE sum[n - 1] + s[n] IN sum
Total(s) == Partials(s)[Len(s)]
\* The sum of f(i, s[i]) with indices from 0, as the code counts them.
SumOver(s, f(_, _)) == Total([i \in 1 .. Len(s) |-> f(i - 1, s[i])])

None == [none |-> TRUE]

\* Slope n / d and intercept m / (Len(s) * d) of the least squares line.
_ols(s) ==
    LET sum_x == SumOver(s, LAMBDA x, y : x)
        sum_y == SumOver(s, LAMBDA x, y : y)
        d == Len(s) * SumOver(s, LAMBDA x, y : x * x) - sum_x * sum_x
        n == Len(s) * SumOver(s, LAMBDA x, y : x * y) - sum_x * sum_y
    IN  [n |-> n, d |-> d, m |-> d * sum_y - n * sum_x]

\* Len(s) * d times the distance of the value y at x from the line.
Residual(s, x, y) ==
    LET fit == _ols(s) IN Len(s) * fit.d * y - fit.m - Len(s) * fit.n * x

\* mutant: the value under test is part of its own baseline
History_all(values) == values
History(values) == SubSeq(values, 1, Len(values) - 1)

\* The numerator of z and the square of its denominator, times Len - 2.
compute_z_score(values) ==
    LET history == History(values)
        current == values[Len(values)]
        ssr == SumOver(history, LAMBDA x, y : Residual(history, x, y) * Residual(history, x, y))
    IN  IF Len(values) < MIN_SNAPSHOTS \/ Len(history) < MIN_ZSCORE_HISTORY \/ ssr = 0
        THEN None
        ELSE [deviation |-> Residual(history, Len(history), current),
              ssr |-> ssr, dof |-> Len(history) - 2]

IsAnomaly(z) ==
    z # None /\ z.deviation * z.deviation * z.dof > Z_THRESHOLD * Z_THRESHOLD * z.ssr

\* Per cent a month: 100 * n * Len(s) / (d * total).
compute_trend_slope(values) ==
    LET fit == _ols(values) IN
    IF Len(values) < MIN_SNAPSHOTS \/ Total(values) = 0 THEN None
    ELSE [over |-> 100 * fit.n * Len(values), by |-> fit.d * Total(values)]

\* over / by > bound, whichever sign the denominator has
Exceeds(q, bound) ==
    /\ q # None
    /\ \/ q.by > 0 /\ q.over > bound * q.by
       \/ q.by < 0 /\ q.over < bound * q.by
Minus(q) == IF q = None THEN None ELSE [q EXCEPT !.over = -q.over]

classify(z, slope) ==
    CASE IsAnomaly(z) -> IF z.deviation > 0 THEN "spike" ELSE "dip"
      [] ~IsAnomaly(z) /\ Exceeds(slope, SLOPE_THRESHOLD) -> "trend_up"
      [] ~IsAnomaly(z) /\ Exceeds(Minus(slope), SLOPE_THRESHOLD) -> "trend_down"
      [] OTHER -> "stable"

analyze(values) == classify(compute_z_score(values), compute_trend_slope(values))
is_anomaly(values) == analyze(values) \in {"spike", "dip"}

-----------------------------------------------------------------------------
(* Series to tell the two apart by *)

\* A series on a line, and one that is on some line.
Line(a, b, n) == [i \in 1 .. n |-> a + b * (i - 1)]
OnLine(s) == \A i \in DOMAIN s : Residual(s, i - 1, s[i]) = 0

\* Far from a level, beside values that stay within spread of it.
IsFar(value, level, spread) ==
    value <= level - 4 * spread \/ value >= level + 4 * spread
=============================================================================
