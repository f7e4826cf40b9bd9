----------------------------- MODULE MCLiveFeeds -----------------------------
(* Model checking of LiveFeeds: the fan-out on two streams, and one client of
   the insight stream. *)
EXTENDS LiveFeeds, TLC

CONSTANTS fanout, client

MCWatches == (fanout :> Feed) @@ (client :> {"insight_detected"})
MCRoleOf == [ana |-> "analyst", max |-> "manager"]
=============================================================================
