------------------------- MODULE MCDecisionPipeline -------------------------
(* Model checking of DecisionPipeline: one feature for each way the rules go. *)
EXTENDS DecisionPipeline, TLC

Critical == [anomaly |-> TRUE, severity |-> "critical", steep |-> FALSE]
Steep == [anomaly |-> FALSE, severity |-> "critical", steep |-> TRUE]
Quiet == [anomaly |-> TRUE, severity |-> "info", steep |-> TRUE]

CriticalAndSteep == {Critical, Steep}
EveryFeature == {Critical, Steep, Quiet}
=============================================================================
