------------------------------ MODULE Journal ------------------------------
(***************************************************************************)
(* What reading events promises: the journal only grows, and a reader that *)
(* starts after some event is given every later event it asked for, each   *)
(* once, in the order of the journal; a reader that waits takes the first. *)
(***************************************************************************)
EXTENDS Naturals, Sequences, FiniteSetsExt, SequencesExt

CONSTANT None

VARIABLES
  log,    \* "mine" for an event the reader asked for, "other" for any other
  from,   \* the reader starts after this event; None: it has not begun
  read,   \* what it was given
  single  \* it wants one event

vars == <<log, from, read, single>>

Matching == {s \in DOMAIN log : log[s] = "mine"}
Position == IF read = <<>> THEN from ELSE Last(read)
Ahead == {s \in Matching : s > Position}

Init == /\ log = <<>> /\ from \in {None, 0} /\ read = <<>>
        /\ single \in BOOLEAN

Extend == /\ Len(log') > Len(log) /\ IsPrefix(log, log')
          /\ UNCHANGED <<from, read, single>>

Begin == from = None /\ from' = Len(log) /\ UNCHANGED <<log, read, single>>

Give == /\ from # None /\ Ahead # {} /\ (single => read = <<>>)
        /\ read' = Append(read, Min(Ahead))
        /\ UNCHANGED <<log, from, single>>

Next == Extend \/ Begin \/ Give
Spec == Init /\ [][Next]_vars
=============================================================================
