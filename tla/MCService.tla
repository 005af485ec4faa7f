----------------------------- MODULE MCService -----------------------------
(* Service for TLC; the configuration chooses the processes and disturbances. *)
EXTENDS Service
=============================================================================
