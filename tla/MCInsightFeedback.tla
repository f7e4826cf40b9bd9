-------------------------- MODULE MCInsightFeedback --------------------------
(* Model checking of InsightFeedback: two users, two insights at the start. *)
EXTENDS InsightFeedback, TLC

CONSTANTS u1, u2, j1, j2

MCSimilar == {1, 2} \X {3}
MCLevel == -6 .. 6
SymmetryAll == Permutations(User) \cup Permutations(Job)

\* What insight_math_service.py says of itself at lines 9 and 10: "a steadily
\* growing KPI is reported as ``trend_up``", in any case not as its opposite.  It is, when its
\* mean is negative, and no run checks this.
GrowthIsNotDecline ==
    clock = 0 =>
        \A a, b \in Level, n \in 3 .. 6 : b > 0 =>
            analyze(Line(a, b, n)) # "trend_down"
=============================================================================
