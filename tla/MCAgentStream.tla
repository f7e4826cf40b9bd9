---------------------------- MODULE MCAgentStream ----------------------------
(* Model checking of AgentStream: two workers of the KPI agent on its two
   streams. *)
EXTENDS AgentStream, TLC

CONSTANTS w1, w2, passed, refreshed

MCGroupOf == [w \in Worker |-> "kpi-agent"]
MCSubscribed == [g \in Group |-> <<passed, refreshed>>]
=============================================================================
