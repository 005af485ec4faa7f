---------------------------- MODULE Occurrences ----------------------------
(***************************************************************************)
(* What a schedule promises about its occurrences, without attempts,       *)
(* receipts, dispatches or faults. An occurrence waits until it is         *)
(* submitted or given up. It is submitted at most once and never waits     *)
(* again afterwards; only one waits at a time; what is over stays over.    *)
(***************************************************************************)
CONSTANT Keys

VARIABLE phase

Waiting == {k \in Keys : phase[k] = "waiting"}

Init == phase = [k \in Keys |-> "none"]

\* Claimed; a message is submitted and over with its claim. A series that ends gives
\* up what still waits when it claims its last occurrence.
Claim(k, givenUp) ==
  /\ phase[k] = "none" /\ Waiting \subseteq givenUp /\ givenUp \subseteq Waiting
  /\ \E first \in {"waiting", "over"} :
       phase' = [x \in Keys |-> IF x = k THEN first ELSE IF x \in givenUp THEN "over" ELSE phase[x]]

Submit(k) == phase[k] = "waiting" /\ phase' = [phase EXCEPT ![k] = "submitted"]
Close(k) == phase[k] \in {"waiting", "submitted"} /\ phase' = [phase EXCEPT ![k] = "over"]

Next == \E k \in Keys : Claim(k, Waiting) \/ Submit(k) \/ Close(k)
Spec == Init /\ [][Next]_phase
=============================================================================
