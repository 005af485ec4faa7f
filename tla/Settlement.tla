----------------------------- MODULE Settlement -----------------------------
(***************************************************************************)
(* What the dispatch protocol promises whoever asked for work, without     *)
(* handlers, samples, attachments or faults. Jobs are taken by one worker  *)
(* one at a time. A job is closed as settled only when both halves of the  *)
(* evidence are recorded, the worker's report and the end of its turn, in  *)
(* whichever order they came; or it is failed. Nothing recorded is taken   *)
(* back, and a closed job never changes again.                             *)
(***************************************************************************)
CONSTANT Jobs

VARIABLE job

Phase == {"none", "open", "settled", "failed"}
NoJob == [phase |-> "none", reported |-> FALSE, turnOver |-> FALSE]

Init == job = [j \in Jobs |-> NoJob]

Open(j) ==
  /\ job[j].phase = "none"
  /\ \A k \in Jobs : job[k].phase # "open"
  /\ job' = [job EXCEPT ![j].phase = "open"]

\* More evidence, and the end of the job when it is complete.
Record(j) ==
  /\ job[j].phase = "open"
  /\ \E reported, turnOver \in BOOLEAN, phase \in {"open", "settled"} :
       /\ job[j].reported => reported
       /\ job[j].turnOver => turnOver
       /\ phase = "settled" => reported /\ turnOver
       /\ job' = [job EXCEPT ![j] = [phase |-> phase, reported |-> reported,
                                     turnOver |-> turnOver]]

Fail(j) ==
  /\ job[j].phase = "open"
  /\ job' = [job EXCEPT ![j].phase = "failed"]

Next == \E j \in Jobs : Open(j) \/ Record(j) \/ Fail(j)

Spec == Init /\ [][Next]_job
=============================================================================
