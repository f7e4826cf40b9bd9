----------------------------- MODULE MCCopilot -----------------------------
(* Model checking of Copilot: one conversation, two requests at a time. *)
EXTENDS Copilot, TLC

CONSTANTS s1, r1, r2
=============================================================================
