----------------------------- MODULE RateLimit -----------------------------
(***************************************************************************)
(* The fixed-window counters of core/rate_limit.py for one tier and one    *)
(* caller.  The counter is raised and read in one transaction, so the      *)
(* outcome depends on the order of the requests only: the sequence of the  *)
(* times at which each has read the clock, in ticks, and whether Redis     *)
(* answered it.                                                            *)
(***************************************************************************)
EXTENDS Integers, Sequences, FiniteSets

CONSTANTS
    Limit, Window,   \* requests admitted in a window, and its length in ticks
    TicksPerSecond,
    Clock,           \* times, in ticks
    Asked            \* the sequences of requests there may be

ASSUME RateLimitAssumption ==
    /\ Limit \in Nat \ {0} /\ Window \in Nat \ {0} /\ TicksPerSecond \in Nat \ {0}
    /\ Clock \subseteq Nat
    /\ Asked \subseteq Seq([at : Clock, up : BOOLEAN])

window_id(t) == t \div Window

\* What request i finds in its counter: itself and those before it in its
\* window.  The key outlives its window, and no other window uses it.
incr(asked, i) ==
    Cardinality({j \in 1 .. i : asked[j].up /\ window_id(asked[j].at) = window_id(asked[i].at)})

\* mutant: one more
Fits_strict(count) == count - 1 <= Limit
Fits(count) == count <= Limit

\* The least number of whole seconds to announce is one.
seconds_left(t) ==
    LET left == ((window_id(t) + 1) * Window - t) \div TicksPerSecond
    IN  IF left < 1 THEN 1 ELSE left

\* 0 lets the request through: it fits, or Redis does not answer.
_retry_after(asked, i) ==
    IF ~asked[i].up \/ Fits(incr(asked, i)) THEN 0 ELSE seconds_left(asked[i].at)

\* Requests that were let through after they were counted.
Admitted(asked) == {i \in DOMAIN asked : asked[i].up /\ _retry_after(asked, i) = 0}

\* In any time of a window's length at most twice the limit is admitted.
AtMostTwice(asked, t) ==
    Cardinality({i \in Admitted(asked) : asked[i].at \in t .. t + Window - 1}) <= 2 * Limit

\* Who waits as long as announced, the fraction of a second that was cut off
\* included, is in a later window.
WaitSuffices(asked, i) ==
    _retry_after(asked, i) > 0 =>
        window_id(asked[i].at + (_retry_after(asked, i) + 1) * TicksPerSecond - 1)
            > window_id(asked[i].at)
=============================================================================
