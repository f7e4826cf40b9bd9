---------------------------- MODULE MCDashboards ----------------------------
(* Model checking of Dashboards: three users, an empty organisation or one
   with an executive, a manager and an analyst and a dashboard of one of them.
   The layout of a new dashboard is a function: it is checked for every
   sequence of up to MaxKpis KPIs. *)
EXTENDS Dashboards, TLC

CONSTANTS u1, u2, u3, r1, r2, MaxKpis
MCStaff == (u1 :> "executive") @@ (u2 :> "manager") @@ (u3 :> "analyst")
MCHosts == {<<u1, u3>>, <<u3, u2>>}
MCKpiLists == UNION {[1 .. n -> Kind] : n \in 0 .. MaxKpis}
Symmetry == Permutations(Req)
=============================================================================
