-------------------------- MODULE MCBlockedAlerts --------------------------
(* BlockedAlerts for TLC; the configuration bounds episodes and disturbances. *)
EXTENDS BlockedAlerts
=============================================================================
