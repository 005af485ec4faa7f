------------------------------- MODULE MCView -------------------------------
(* View for TLC; the configuration chooses the roles, limits and disturbances. *)
EXTENDS View
=============================================================================
