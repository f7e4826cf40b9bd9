--------------------------- MODULE MCKpiGovernance ---------------------------
(* Model checking of KpiGovernance.  No symmetry: both runs check liveness. *)
EXTENDS KpiGovernance
=============================================================================
