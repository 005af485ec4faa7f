------------------------------ MODULE MCInbox ------------------------------
(* Inbox for TLC; the configurations choose the deliveries and disturbances. *)
EXTENDS Inbox
=============================================================================
