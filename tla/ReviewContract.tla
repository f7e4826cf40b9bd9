---------------------------- MODULE ReviewContract ----------------------------
(***************************************************************************)
(* What the approval workflow promises to whoever reads its traces, with   *)
(* no notion of requests, sessions or crashes: a verdict on a KPI is       *)
(* committed first; closing an approval request, writing the audit record  *)
(* and publishing the event come later, each at most catching up with a    *)
(* verdict that already stands, and publishing only after closing.         *)
(* Anything after the verdict may be missing, and a second verdict may     *)
(* overwrite the resolution of the first, but never moves the request to   *)
(* another KPI.                                                            *)
(***************************************************************************)
CONSTANTS Kpi, Ar, NoKpi

VARIABLES
    verdicts,    \* verdicts committed on each KPI
    resolution,  \* of each approval request: open, or its outcome and its KPI
    recorded,    \* <<KPI, verdict>> in the audit trail
    announced    \* <<approval request, KPI, verdict>> published

vars == <<verdicts, resolution, recorded, announced>>

Verdict == {"certified", "rejected"}
Resolution(v) == IF v = "certified" THEN "approved" ELSE "rejected"

Open == [state |-> "open", kpi |-> NoKpi]

Init ==
    /\ verdicts = [k \in Kpi |-> {}]
    /\ resolution = [a \in Ar |-> Open]
    /\ recorded = {}
    /\ announced = {}

Decide(k, v) ==
    /\ verdicts' = [verdicts EXCEPT ![k] = @ \cup {v}]
    /\ UNCHANGED <<resolution, recorded, announced>>

Close(a, k, v) ==
    /\ v \in verdicts[k]
    /\ resolution[a].kpi \in {NoKpi, k}
    /\ resolution' = [resolution EXCEPT ![a] = [state |-> Resolution(v), kpi |-> k]]
    /\ UNCHANGED <<verdicts, recorded, announced>>

Record(k, v) ==
    /\ v \in verdicts[k]
    /\ recorded' = recorded \cup {<<k, v>>}
    /\ UNCHANGED <<verdicts, resolution, announced>>

Announce(a, k, v) ==
    /\ v \in verdicts[k]
    /\ resolution[a].kpi = k
    /\ announced' = announced \cup {<<a, k, v>>}
    /\ UNCHANGED <<verdicts, resolution, recorded>>

Next ==
    \E k \in Kpi, v \in Verdict :
        \/ Decide(k, v)
        \/ Record(k, v)
        \/ \E a \in Ar : Close(a, k, v) \/ Announce(a, k, v)

Spec == Init /\ [][Next]_vars
=============================================================================
