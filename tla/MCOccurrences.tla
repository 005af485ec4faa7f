--------------------------- MODULE MCOccurrences ---------------------------
(* Scheduler for TLC, with the arithmetic its occurrences come from.        *)
EXTENDS Scheduler, MCArithmetic
=============================================================================
