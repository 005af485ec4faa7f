----------------------------- MODULE Scheduler -----------------------------
(***************************************************************************)
(* One schedule of woofd and its occurrences. The loop claims what is due  *)
(* in one transaction and advances the series; each claimed occurrence is  *)
(* then executed by a goroutine of its own, which makes an attempt with a  *)
(* receipt, calls dispatch, and classifies the attempt from what that left *)
(* in the database. Dispatches end when they like, a person enables,       *)
(* disables, removes, runs and resolves, the target comes and goes, the    *)
(* clock is set back, and the daemon dies between any two transactions.    *)
(*                                                                         *)
(* The dispatch is reduced to what the scheduler reads of it: its status   *)
(* and whether there is evidence that its prompt landed.                   *)
(***************************************************************************)
EXTENDS Naturals, FiniteSets, FiniteSetsExt

CONSTANTS
  Last,        \* the series occurs at 1, 2, ..., Last and never again
  Manual,      \* requests to run the schedule by hand
  Grace,       \* scheduleMissedGrace
  DueLimit,    \* scheduleDueLimit
  Policies,    \* the missed policies to choose from, "latest" and "skip"
  Work,        \* the actions to choose from, "dispatch" and "message"
  Kinds,       \* the disturbances a behaviour may contain, each once
  MaxFaults    \* bound: disturbances in one behaviour

Times == 1..Last
Keys == Times \cup Manual

ASSUME SeriesAssumption == Last \in Nat \ {0} /\ Grace \in Nat /\ DueLimit \in Nat \ {0}
ASSUME ManualAssumption == Manual \cap Nat = {}
ASSUME ChoiceAssumption == /\ Policies \subseteq {"latest", "skip"}
                           /\ Work \subseteq {"dispatch", "message"}
ASSUME BoundsAssumption == MaxFaults \in Nat

VARIABLES
  clock,    \* e.opts.Now(), in units of the series
  sched,    \* the schedule row
  run,      \* state of the schedule_runs row of each occurrence key
  skipped,  \* SkippedCount of that row
  missed,   \* MissedCount of the row "missed:<first>"
  op,       \* the receipt of the occurrence's latest attempt
  disp,     \* the dispatch row that receipt is linked to
  seen,     \* evidence of the prompt on that row: work, report or turn end
  pc,       \* where executeRun of the occurrence stands
  target,   \* the worker: reachable, offline or lost, or terminal
  hits,     \* disturbances so far
  intents,  \* history: dispatch intents or messages committed for the key
  landed,   \* history: prompts of the key that reached the agent
  byHand,   \* history: attempt receipts that a person resolved
  covered   \* history: occurrences that claimDue has passed by

execVars == <<op, disp, seen, pc>>
pastVars == <<intents, landed, byHand, covered>>
vars == <<clock, sched, run, skipped, missed, op, disp, seen, pc, target, hits,
          intents, landed, byHand, covered>>

-----------------------------------------------------------------------------
RunState == {"none", "claimed", "dispatching", "blocked", "persisted", "dispatched",
             "settled", "uncertain", "failed", "cancelled"}
outstandingRuns == {"claimed", "dispatching", "blocked"}
Retryable == {"claimed", "blocked"}
DispatchStatus == {"none", "sending", "active", "uncertain", "settled", "failed"}
Active == {"sending", "active", "uncertain"}
OpRec == [state: {"none", "accepted", "completed", "failed", "uncertain"}, linked: BOOLEAN]
ScheduleRec == [enabled: BOOLEAN, removed: BOOLEAN, next: Nat, missed: Policies, action: Work]
Step == {"off", "message", "reblock", "attempt", "intent", "refused", "invalid", "prompt",
         "ok", "denied", "lost", "settle"}
Final == {"persisted", "settled", "failed", "cancelled"}

Outstanding(rs) == {k \in Keys : rs[k] \in outstandingRuns}
Disturb(kind) == /\ kind \in Kinds \ hits /\ Cardinality(hits) < MaxFaults
                 /\ hits' = hits \cup {kind}

\* Expr.Next: the first occurrence after t; 0 when there is none.
Next1(t) == IF t < Last THEN t + 1 ELSE 0

\* finishTx: a receipt becomes final once.
finishTx(o, state) == IF o.state \in {"accepted", "uncertain"} THEN [o EXCEPT !.state = state] ELSE o

Init ==
  /\ clock = 0 /\ target = "up" /\ hits = {}
  /\ sched \in [enabled: {TRUE}, removed: {FALSE}, next: {1}, missed: Policies, action: Work]
  /\ run = [k \in Keys |-> "none"] /\ skipped = [k \in Keys |-> 0]
  /\ missed = [t \in Times |-> 0]
  /\ op = [k \in Keys |-> [state |-> "none", linked |-> FALSE]]
  /\ disp = [k \in Keys |-> "none"] /\ seen = [k \in Keys |-> FALSE]
  /\ pc = [k \in Keys |-> "off"]
  /\ intents = [k \in Keys |-> 0] /\ landed = [k \in Keys |-> 0]
  /\ byHand = {} /\ covered = {}

-----------------------------------------------------------------------------
(* Time and the target.                                                    *)

Tick == clock <= Last /\ clock' = clock + 1
        /\ UNCHANGED <<sched, run, skipped, missed, execVars, target, hits, pastVars>>
StepBack == clock > 0 /\ Disturb("clock") /\ clock' \in 0..(clock - 1)
            /\ UNCHANGED <<sched, run, skipped, missed, execVars, target, pastVars>>

TargetDown == target = "up" /\ Disturb("down") /\ target' = "down"
              /\ UNCHANGED <<clock, sched, run, skipped, missed, execVars, pastVars>>
TargetUp == target = "down" /\ target' = "up"
            /\ UNCHANGED <<clock, sched, run, skipped, missed, execVars, hits, pastVars>>
\* worker.adopt takes a worker that was released back under its ID.
Readopt == target = "gone" /\ Disturb("adopt") /\ target' = "up"
           /\ UNCHANGED <<clock, sched, run, skipped, missed, execVars, pastVars>>

-----------------------------------------------------------------------------
(* Claims.                                                                 *)

\* cancelOutstandingTx: what has no external effect yet.
cancelOutstanding(rs) == [k \in Keys |-> IF rs[k] \in Retryable THEN "cancelled" ELSE rs[k]]

\* advance: a series without a future occurrence disables itself.
advanced(s) == IF s.enabled THEN [s EXCEPT !.next = Next1(clock), !.enabled = Next1(clock) # 0] ELSE s
cleared(s) == IF s.enabled /\ Next1(clock) = 0 THEN cancelOutstanding(run) ELSE run

\* createRunTx: a message is persisted with the claim, unless its target is terminal.
created == IF sched.action = "dispatch" THEN "claimed"
           ELSE IF target = "gone" THEN "blocked" ELSE "persisted"
Create(rs, k) == /\ run' = [rs EXCEPT ![k] = created]
                 /\ intents' = IF created = "persisted" THEN [intents EXCEPT ![k] = @ + 1]
                               ELSE intents

\* Mutants: every occurrence that is due counts as missed; what is outstanding is not
\* looked at; an occurrence that has a row is claimed again.
MissedAll(count, fire, first) == IF missed[first] # 0 THEN 0 ELSE count
IgnoresOverlap(rs) == {}
ClaimsAgain(k) == TRUE

missedNow(count, fire, first) ==
  IF missed[first] # 0 THEN 0 ELSE IF fire THEN count - 1 ELSE count
overlapping(rs) == Outstanding(rs)
unclaimed(k) == run[k] = "none"

claimDue ==
  /\ sched.enabled /\ ~sched.removed /\ sched.next # 0 /\ sched.next <= clock
  /\ LET first == sched.next
         latest == IF clock < Last THEN clock ELSE Last
         all == latest - first + 1
         count == IF all > DueLimit THEN DueLimit ELSE all
         fire == sched.missed # "skip" \/ clock - latest <= Grace
         rs == cleared(sched)
     IN /\ sched' = advanced(sched)
        /\ missed' = [missed EXCEPT ![first] = @ + missedNow(count, fire, first)]
        /\ covered' = covered \cup (first..latest)
        /\ \/ fire /\ unclaimed(latest) /\ overlapping(rs) = {}
              /\ Create(rs, latest) /\ UNCHANGED skipped
           \/ fire /\ unclaimed(latest) /\ run' = rs /\ UNCHANGED intents
              /\ \E k \in overlapping(rs) : skipped' = [skipped EXCEPT ![k] = @ + 1]
           \/ ~(fire /\ unclaimed(latest)) /\ run' = rs /\ UNCHANGED <<skipped, intents>>
  /\ UNCHANGED <<clock, execVars, target, hits, landed, byHand>>

\* The expression no longer parses.
claimInvalid ==
  /\ sched.enabled /\ ~sched.removed /\ sched.next # 0 /\ sched.next <= clock
  /\ Disturb("unparsable")
  /\ sched' = [sched EXCEPT !.enabled = FALSE, !.next = 0]
  /\ run' = cancelOutstanding(run)
  /\ UNCHANGED <<clock, skipped, missed, execVars, target, pastVars>>

scheduleManualRun(m) ==
  /\ ~sched.removed /\ run[m] = "none" /\ overlapping(run) = {}
  /\ Create(run, m)
  /\ UNCHANGED <<clock, sched, skipped, missed, execVars, target, hits, landed, byHand, covered>>

Mutate == UNCHANGED <<clock, skipped, missed, execVars, target, pastVars>>

Enable ==
  /\ Disturb("enable") /\ ~sched.removed /\ ~sched.enabled
  /\ LET on == [sched EXCEPT !.enabled = TRUE]
     IN sched' = advanced(on) /\ run' = cleared(on)
  /\ Mutate
Disable ==
  /\ Disturb("disable") /\ ~sched.removed
  /\ sched' = [sched EXCEPT !.enabled = FALSE, !.next = 0]
  /\ run' = cancelOutstanding(run) /\ Mutate
Remove ==
  /\ Disturb("remove") /\ ~sched.removed
  /\ sched' = [sched EXCEPT !.enabled = FALSE, !.removed = TRUE, !.next = 0]
  /\ run' = cancelOutstanding(run) /\ Mutate

-----------------------------------------------------------------------------
(* executeRun.                                                             *)

Go(k, step) == pc' = [pc EXCEPT ![k] = step]
Execute == UNCHANGED <<clock, sched, skipped, missed, target, byHand, covered>>

\* The loop starts claimed runs at once and blocked ones after a backoff or when the
\* target is seen idle. The goroutine reads the rows and decides what to do.
Look(k) ==
  /\ pc[k] = "off" /\ run[k] \in Retryable
  /\ Go(k, IF sched.action = "message" THEN "message"
           ELSE IF target = "up" THEN "attempt" ELSE "reblock")
  /\ Execute /\ UNCHANGED <<run, op, disp, seen, hits, intents, landed>>

reblock(k) ==
  /\ pc[k] = "reblock" /\ Go(k, "off")
  /\ run' = IF run[k] \in Retryable THEN [run EXCEPT ![k] = "blocked"] ELSE run
  /\ Execute /\ UNCHANGED <<op, disp, seen, hits, intents, landed>>

retryMessageRun(k) ==
  /\ pc[k] = "message" /\ Go(k, "off")
  /\ IF run[k] \in Retryable THEN Create(run, k) ELSE UNCHANGED <<run, intents>>
  /\ Execute /\ UNCHANGED <<op, disp, seen, hits, landed>>

\* The transaction reads the row again.
stillRetryable(k) == run[k] \in Retryable

Attempt(k) ==
  /\ pc[k] = "attempt"
  /\ IF stillRetryable(k)
     THEN /\ Go(k, "intent") /\ run' = [run EXCEPT ![k] = "dispatching"]
          /\ op' = [op EXCEPT ![k] = [state |-> "accepted", linked |-> FALSE]]
     ELSE Go(k, "off") /\ UNCHANGED <<run, op>>
  /\ Execute /\ UNCHANGED <<disp, seen, hits, intents, landed>>

workerFree == \A x \in Keys : disp[x] \notin Active

\* dispatch refuses before its intent: for now, or for ever.
Refuse(k) ==
  /\ pc[k] = "intent"
  /\ \/ (target # "up" \/ ~workerFree) /\ Go(k, "refused") /\ UNCHANGED hits
     \/ Disturb("busy") /\ Go(k, "refused")
     \/ Disturb("invalid") /\ Go(k, "invalid")
  /\ Execute /\ UNCHANGED <<run, op, disp, seen, intents, landed>>

Intent(k) ==
  /\ pc[k] = "intent" /\ target = "up" /\ workerFree /\ Go(k, "prompt")
  /\ disp' = [disp EXCEPT ![k] = "sending"] /\ seen' = [seen EXCEPT ![k] = FALSE]
  /\ op' = [op EXCEPT ![k].linked = TRUE]
  /\ intents' = [intents EXCEPT ![k] = @ + 1]
  /\ Execute /\ UNCHANGED <<run, hits, landed>>

Prompt(k) ==
  /\ pc[k] = "prompt"
  /\ \E a \in {"ok", "denied", "lost"}, reaches \in BOOLEAN :
       /\ (a = "ok" => reaches) /\ (a = "denied" => ~reaches)
       /\ IF a = "ok" THEN UNCHANGED hits ELSE Disturb(a)
       /\ Go(k, a)
       /\ landed' = IF reaches THEN [landed EXCEPT ![k] = @ + 1] ELSE landed
  /\ Execute /\ UNCHANGED <<run, op, disp, seen, intents>>

\* dispatch's result transaction, or its failure to commit.
Result(k) ==
  /\ pc[k] \in {"ok", "denied", "lost"} /\ Go(k, "settle")
  /\ \/ /\ disp' = IF disp[k] # "sending" THEN disp
                   ELSE [disp EXCEPT ![k] = CASE pc[k] = "ok" -> "active"
                                              [] pc[k] = "denied" -> "failed"
                                              [] OTHER -> "uncertain"]
        /\ op' = [op EXCEPT ![k] = finishTx(@, CASE pc[k] = "ok" -> "completed"
                                                 [] pc[k] = "denied" -> "failed"
                                                 [] OTHER -> "uncertain")]
        /\ UNCHANGED hits
     \/ Disturb("unsaved") /\ UNCHANGED <<disp, op>>
  /\ Execute /\ UNCHANGED <<run, seen, intents, landed>>

\* Mutant: every dispatch that ended counts as evidence that its prompt landed.
promptLandedAnyway(k, status) == TRUE
promptLanded(k, status) == status \in {"active", "settled"} \/ seen[k]

\* finishAttemptTx: the receipt says no more than the evidence supports.
finishAttempt(k, status) ==
  finishTx(op[k], IF promptLanded(k, status) THEN "completed" ELSE "uncertain")

\* Mutant: without a result on the row, the attempt counts as one that sent nothing.
ClassifiesError(k, permanent) ==
  IF op[k].linked /\ disp[k] # "sending" THEN
    CASE disp[k] = "uncertain" -> "uncertain" [] disp[k] = "active" -> "dispatched"
      [] OTHER -> disp[k]
  ELSE IF permanent THEN "failed" ELSE "blocked"

classified(k, permanent) ==
  IF op[k].linked THEN
    CASE disp[k] \in {"sending", "uncertain"} -> "uncertain"
      [] disp[k] = "active" -> "dispatched"
      [] OTHER -> disp[k]
  ELSE IF permanent THEN "failed" ELSE "blocked"

classifyAttempt(k, permanent) ==
  /\ run' = [run EXCEPT ![k] = classified(k, permanent)]
  /\ op' = [op EXCEPT ![k] = IF @.linked THEN finishAttempt(k, disp[k])
                             ELSE finishTx(@, "failed")]

\* settleAttempt, or its failure to commit.
settleAttempt(k) ==
  /\ pc[k] \in {"refused", "invalid", "settle"} /\ Go(k, "off")
  /\ \/ run[k] = "dispatching" /\ classifyAttempt(k, pc[k] = "invalid") /\ UNCHANGED hits
     \/ run[k] # "dispatching" /\ UNCHANGED <<run, op, hits>>
     \/ Disturb("unrecorded") /\ UNCHANGED <<run, op>>
  /\ Execute /\ UNCHANGED <<disp, seen, intents, landed>>

\* Mutant: only attempts with a dispatch are recovered.
RecoversLinked(k) == pc[k] = "off" /\ op[k].linked
abandoned(k) == pc[k] = "off"

\* recoverRuns: the goroutine of the attempt is gone.
recoverRuns(k) ==
  /\ run[k] = "dispatching" /\ abandoned(k) /\ classifyAttempt(k, FALSE)
  /\ Execute /\ UNCHANGED <<disp, seen, pc, hits, intents, landed>>

-----------------------------------------------------------------------------
(* The dispatches, and people.                                             *)

\* Mutant: an occurrence whose prompt is uncertain does not follow its dispatch.
SyncsDispatched(k) == run[k] = "dispatched"
synced(k) == run[k] \in {"dispatched", "uncertain"}

\* The dispatches ks end, and syncScheduleRunTx follows each in the same transaction.
End(ks, status) ==
  /\ disp' = [k \in Keys |-> IF k \in ks THEN status ELSE disp[k]]
  /\ run' = [k \in Keys |-> IF k \in ks /\ synced(k) THEN status ELSE run[k]]

Ends(ks, status) ==
  /\ End(ks, status)
  /\ op' = [k \in Keys |-> IF k \in ks /\ synced(k) THEN finishAttempt(k, status) ELSE op[k]]
  /\ UNCHANGED <<clock, sched, skipped, missed, pc, pastVars>>

Observed(k) ==
  /\ disp[k] \in Active /\ landed[k] > 0 /\ ~seen[k] /\ seen' = [seen EXCEPT ![k] = TRUE]
  /\ UNCHANGED <<clock, sched, run, skipped, missed, op, disp, pc, target, hits, pastVars>>

Settles(k) == /\ disp[k] \in Active /\ seen[k] /\ Ends({k}, "settled")
              /\ UNCHANGED <<seen, target, hits>>
Fail(k) == disp[k] \in Active /\ Disturb("fail") /\ Ends({k}, "failed") /\ UNCHANGED <<seen, target>>
TargetGone == /\ target # "gone" /\ Disturb("gone") /\ target' = "gone"
              /\ Ends({k \in Keys : disp[k] \in Active}, "failed") /\ UNCHANGED seen

\* operation.resolve of an attempt that nobody is executing.
Resolve(k, verdict) ==
  /\ Disturb("resolve") /\ pc[k] = "off" /\ op[k].state \in {"accepted", "uncertain"}
  /\ IF op[k].linked /\ disp[k] \in Active /\ verdict = "failed"
     THEN End({k}, "failed") ELSE UNCHANGED <<disp, run>>
  /\ op' = [op EXCEPT ![k].state = verdict]
  /\ byHand' = byHand \cup {k}
  /\ UNCHANGED <<clock, sched, skipped, missed, seen, pc, target, intents, landed, covered>>

Crash ==
  /\ Disturb("crash") /\ pc' = [k \in Keys |-> "off"]
  /\ UNCHANGED <<clock, sched, run, skipped, missed, op, disp, seen, target, pastVars>>

-----------------------------------------------------------------------------
executeRun(k) == \/ Look(k) \/ reblock(k) \/ retryMessageRun(k) \/ Attempt(k)
                 \/ Refuse(k) \/ Intent(k) \/ Prompt(k) \/ Result(k) \/ settleAttempt(k)

Next ==
  \/ Tick \/ StepBack \/ TargetDown \/ TargetUp \/ TargetGone \/ Readopt
  \/ claimDue \/ claimInvalid \/ \E m \in Manual : scheduleManualRun(m)
  \/ Enable \/ Disable \/ Remove
  \/ \E k \in Keys : executeRun(k) \/ recoverRuns(k) \/ Observed(k) \/ Settles(k) \/ Fail(k)
  \/ \E k \in Keys, verdict \in {"completed", "failed"} : Resolve(k, verdict)
  \/ Crash

Spec == Init /\ [][Next]_vars

\* The loop wakes at least every thirty seconds, and goroutines run to their end.
Fairness == /\ WF_vars(claimDue)
            /\ \A k \in Keys : WF_vars(executeRun(k)) /\ WF_vars(recoverRuns(k))
FairSpec == Spec /\ Fairness

-----------------------------------------------------------------------------
(* The refinement mapping to the abstract occurrences.                     *)

phase == [k \in Keys |->
  IF run[k] = "none" THEN "none"
  ELSE IF run[k] \in Final THEN "over"
  ELSE IF intents[k] > 0 THEN "submitted" ELSE "waiting"]
Abstract == INSTANCE Occurrences

-----------------------------------------------------------------------------
(* Properties                                                              *)

TypeOK ==
  /\ clock \in Nat /\ sched \in ScheduleRec /\ target \in {"up", "down", "gone"}
  /\ run \in [Keys -> RunState] /\ skipped \in [Keys -> Nat] /\ missed \in [Times -> Nat]
  /\ op \in [Keys -> OpRec] /\ disp \in [Keys -> DispatchStatus]
  /\ seen \in [Keys -> BOOLEAN] /\ pc \in [Keys -> Step] /\ hits \subseteq Kinds
  /\ intents \in [Keys -> Nat] /\ landed \in [Keys -> Nat]
  /\ byHand \subseteq Keys /\ covered \subseteq Times

\* An occurrence is submitted at most once, as one message or one dispatch intent, and
\* prompted at most once, across retries, lost answers, crashes and recovery.
SubmittedOnce == \A k \in Keys : intents[k] <= 1 /\ landed[k] <= 1

\* At most one occurrence of a schedule is outstanding, whoever claimed it.
OneOutstanding == Cardinality(Outstanding(run)) <= 1

\* docs/scheduler.md, "Occurrences and history": while nobody is executing it, the
\* history of an occurrence says what became of its dispatch, and "blocked" and
\* "cancelled" mean that nothing was sent.
RunTellsDispatch ==
  \A k \in Keys :
    /\ run[k] \in {"claimed", "blocked", "cancelled"} => disp[k] = "none" /\ landed[k] = 0
    /\ run[k] = "dispatched" => disp[k] = "active"
    /\ run[k] = "uncertain" => disp[k] \in {"sending", "uncertain"}
    /\ run[k] = "settled" => disp[k] = "settled"
    /\ disp[k] \in {"settled", "failed"} => run[k] \in {disp[k], "dispatching"}

\* docs/scheduler.md: a receipt "completes once the prompt is proven to have landed";
\* one that failed proves the opposite. Only a person may say otherwise.
ReceiptIsEvidence ==
  \A k \in Keys \ byHand :
    /\ op[k].state = "completed" => landed[k] = 1
    /\ op[k].state = "failed" => landed[k] = 0

\* Every occurrence the series passed by is accounted for exactly once, as a row, as
\* missed or as skipped, unless the clock was set back or the count was capped.
OccurrencesAccounted ==
  "clock" \in hits \/ DueLimit < Last \/
    Cardinality(covered) = Cardinality({t \in Times : run[t] # "none"})
                           + MapThenSumSet(LAMBDA t : missed[t], Times)
                           + MapThenSumSet(LAMBDA k : skipped[k], Keys)

\* The occurrences behave as their abstract specification says.
ImplementsOccurrences == Abstract!Spec

\* docs/scheduler.md: blocked occurrences "stay visible until they run or the schedule
\* is disabled/removed (-> cancelled)".
RemovedIsCancelled == sched.removed => \A k \in Keys : run[k] \notin {"claimed", "blocked"}

\* What was claimed does not wait for ever while the target can be reached and no
\* dispatch keeps it busy, whichever transaction the daemon died before.
OutstandingEnds ==
  \A k \in Keys :
    run[k] \in outstandingRuns
      ~> run[k] \notin outstandingRuns \/ target # "up" \/ ~workerFree
=============================================================================
