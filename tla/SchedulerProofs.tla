-------------------------- MODULE SchedulerProofs --------------------------
(***************************************************************************)
(* Theorems about one schedule, for any series, any requests by hand, any  *)
(* disturbances and any number of them. What the properties say of an      *)
(* occurrence follows from where its goroutine stands, what its row and    *)
(* its receipt say and what became of its dispatch; the invariant IInv     *)
(* ties the four together. That every occurrence is counted follows from   *)
(* AccountInv, with sums over finite sets, whose lemmas are proved by      *)
(* induction over the parts of the set. At the end, theorems about the     *)
(* arithmetic of an "@every" series, for every anchor, interval, span and  *)
(* width of durations.                                                     *)
(***************************************************************************)
EXTENDS Scheduler, Intervals, FiniteSetTheorems, TLAPS

Sound == TypeOK /\ sched.next <= Last

\* A step that leaves rows, receipts and dispatches alone.
Quiet == Tick \/ StepBack \/ TargetDown \/ TargetUp \/ Readopt
\* A step that claims or cancels.
Claims == \/ claimDue \/ claimInvalid \/ Enable \/ Disable \/ Remove
          \/ \E m \in Manual : scheduleManualRun(m)
\* A dispatch gains evidence, or ends from outside.
Outside == \/ TargetGone \/ \E k \in Keys : Observed(k) \/ Settles(k) \/ Fail(k)
           \/ \E k \in Keys, verdict \in {"completed", "failed"} : Resolve(k, verdict)

-----------------------------------------------------------------------------
(* Types.                                                                  *)

\* Stopping a schedule keeps its type.
LEMMA ScheduleStops ==
  ASSUME NEW s \in ScheduleRec
  PROVE  /\ [s EXCEPT !.enabled = FALSE, !.next = 0] \in ScheduleRec
         /\ [s EXCEPT !.enabled = FALSE, !.next = 0].next = 0
         /\ [s EXCEPT !.enabled = FALSE, !.removed = TRUE, !.next = 0] \in ScheduleRec
         /\ [s EXCEPT !.enabled = FALSE, !.removed = TRUE, !.next = 0].next = 0
BY DEF ScheduleRec

\* Starting it again does, too.
LEMMA ScheduleStarts ==
  ASSUME NEW s \in ScheduleRec
  PROVE  [s EXCEPT !.enabled = TRUE] \in ScheduleRec /\ [s EXCEPT !.enabled = TRUE].next = s.next
BY DEF ScheduleRec

\* And so does advancing it.
LEMMA ScheduleAdvances ==
  ASSUME NEW s \in ScheduleRec, NEW n \in Nat, NEW b \in BOOLEAN
  PROVE  /\ [s EXCEPT !.next = n, !.enabled = b] \in ScheduleRec
         /\ [s EXCEPT !.next = n, !.enabled = b].next = n
BY DEF ScheduleRec

\* The series advances within itself.
LEMMA AdvancedType ==
  ASSUME NEW s \in ScheduleRec, s.next <= Last, Last \in Nat, Next1(clock) \in 0..Last
  PROVE  advanced(s) \in ScheduleRec /\ advanced(s).next <= Last
<1> DEFINE n == Next1(clock)
           b == n # 0
           t == [s EXCEPT !.next = n, !.enabled = b]
<1>1. n \in Nat /\ n <= Last /\ b \in BOOLEAN
  OBVIOUS
<1>2. advanced(s) = IF s.enabled THEN t ELSE s
  BY Zenon DEF advanced
<1>3. t \in ScheduleRec /\ t.next = n
  <2> HIDE DEF n, b
  <2> QED
    BY <1>1, ScheduleAdvances
<1> HIDE DEF n, b, t
<1> QED
  BY <1>1, <1>2, <1>3

\* A schedule that was just added.
LEMMA InitSound == Init => Sound
<1> SUFFICES ASSUME Init PROVE Sound
  OBVIOUS
<1>1. Last \in Nat \ {0}
  BY SeriesAssumption
<1>2. sched \in ScheduleRec /\ sched.next = 1
  <2>1. PICK p \in Policies, a \in Work :
          sched = [enabled |-> TRUE, removed |-> FALSE, next |-> 1, missed |-> p, action |-> a]
    BY DEF Init
  <2> QED
    BY <2>1 DEF ScheduleRec
<1>3. op \in [Keys -> OpRec]
  <2>1. [state |-> "none", linked |-> FALSE] \in OpRec
    BY DEF OpRec
  <2> QED
    BY <2>1 DEF Init
<1>4. /\ run \in [Keys -> RunState] /\ disp \in [Keys -> DispatchStatus] /\ pc \in [Keys -> Step]
      /\ skipped \in [Keys -> Nat] /\ missed \in [Times -> Nat] /\ seen \in [Keys -> BOOLEAN]
      /\ intents \in [Keys -> Nat] /\ landed \in [Keys -> Nat]
  BY DEF Init, RunState, DispatchStatus, Step
<1>5. TypeOK
  BY <1>2, <1>3, <1>4 DEF Init, TypeOK
<1> QED
  BY <1>1, <1>2, <1>5 DEF Sound

\* The next occurrence after an instant is one of the series, or none.
LEMMA NextInSeries ==
  ASSUME Sound
  PROVE  /\ Next1(clock) \in 0..Last
         /\ advanced(sched) \in ScheduleRec /\ advanced(sched).next <= Last
         /\ cleared(sched) \in [Keys -> RunState]
<1>1. /\ clock \in Nat /\ Last \in Nat \ {0} /\ run \in [Keys -> RunState]
      /\ sched \in ScheduleRec /\ sched.next <= Last
  BY SeriesAssumption DEF Sound, TypeOK
<1>2. Next1(clock) \in 0..Last
  BY <1>1 DEF Next1
<1>3. advanced(sched) \in ScheduleRec /\ advanced(sched).next <= Last
  BY <1>1, <1>2, AdvancedType
<1>4. cleared(sched) \in [Keys -> RunState]
  BY <1>1 DEF cleared, cancelOutstanding, RunState
<1> QED
  BY <1>2, <1>3, <1>4

\* Creating a row keeps types.
LEMMA CreateType ==
  ASSUME Sound, NEW rs \in [Keys -> RunState], NEW k \in Keys, Create(rs, k)
  PROVE  run' \in [Keys -> RunState] /\ intents' \in [Keys -> Nat]
BY DEF Sound, TypeOK, Create, created, RunState

\* Time and the target.
LEMMA QuietSound == Sound /\ Quiet => Sound'
<1> SUFFICES ASSUME Sound, Quiet PROVE Sound'
  OBVIOUS
<1>1. clock' \in Nat
  BY SeriesAssumption DEF Sound, TypeOK, Quiet, Tick, StepBack, TargetDown, TargetUp, Readopt
<1> QED
  BY <1>1 DEF Sound, TypeOK, Quiet, Tick, StepBack, TargetDown, TargetUp, Readopt, Disturb,
     execVars, pastVars

\* Claims and commands: counts of what was missed stay natural, occurrences stay in the series.
LEMMA ClaimsSound == Sound /\ Claims => Sound'
<1> SUFFICES ASSUME Sound, Claims PROVE Sound'
  OBVIOUS
<1>t. /\ clock \in Nat /\ sched \in ScheduleRec /\ sched.next <= Last /\ Last \in Nat \ {0}
      /\ run \in [Keys -> RunState] /\ missed \in [Times -> Nat] /\ skipped \in [Keys -> Nat]
      /\ covered \subseteq Times /\ hits \subseteq Kinds /\ intents \in [Keys -> Nat]
      /\ DueLimit \in Nat \ {0}
  BY SeriesAssumption DEF Sound, TypeOK
<1>c. cancelOutstanding(run) \in [Keys -> RunState]
  BY <1>t DEF cancelOutstanding, RunState
<1>1. CASE claimDue
  <2> DEFINE first == sched.next
             latest == IF clock < Last THEN clock ELSE Last
             all == latest - first + 1
             count == IF all > DueLimit THEN DueLimit ELSE all
             fire == sched.missed # "skip" \/ clock - latest <= Grace
             rs == cleared(sched)
  <2>1. first \in Times /\ latest \in Times /\ first <= latest /\ latest \in Keys
    BY <1>t, <1>1 DEF claimDue, ScheduleRec, Times, Keys
  <2>2. count \in Nat \ {0}
    BY <1>t, <2>1 DEF Times
  <2>3. missedNow(count, fire, first) \in Nat
    BY <2>2 DEF missedNow
  <2>4. missed' = [missed EXCEPT ![first] = @ + missedNow(count, fire, first)]
    BY <1>1 DEF claimDue
  <2>5. missed' \in [Times -> Nat]
    <3> HIDE DEF first, count, fire
    <3>1. missed[first] + missedNow(count, fire, first) \in Nat
      BY <1>t, <2>1, <2>3
    <3> QED
      BY <1>t, <2>4, <3>1
  <2>6. first..latest \subseteq Times
    BY <1>t, <2>1 DEF Times
  <2>7. covered' \subseteq Times
    BY <1>t, <1>1, <2>6 DEF claimDue
  <2>8. rs \in [Keys -> RunState]
    BY NextInSeries
  <2>9. run' \in [Keys -> RunState] /\ intents' \in [Keys -> Nat]
    BY <1>t, <1>1, <2>1, <2>8, CreateType DEF claimDue
  <2>10. skipped' \in [Keys -> Nat]
    BY <1>t, <1>1 DEF claimDue
  <2>11. sched' \in ScheduleRec /\ sched'.next <= Last
    BY <1>1, NextInSeries DEF claimDue
  <2> QED
    BY <1>1, <2>5, <2>7, <2>9, <2>10, <2>11 DEF claimDue, Sound, TypeOK, execVars
<1>2. CASE claimInvalid \/ Disable \/ Remove
  <2>1. \/ sched' = [sched EXCEPT !.enabled = FALSE, !.next = 0]
        \/ sched' = [sched EXCEPT !.enabled = FALSE, !.removed = TRUE, !.next = 0]
    BY <1>2 DEF claimInvalid, Disable, Remove
  <2>2. sched' \in ScheduleRec /\ sched'.next = 0
    BY <1>t, <2>1, ScheduleStops
  <2>3. hits' \subseteq Kinds /\ run' \in [Keys -> RunState]
    BY <1>t, <1>c, <1>2 DEF claimInvalid, Disable, Remove, Disturb
  <2> QED
    BY <1>2, <1>t, <2>2, <2>3 DEF claimInvalid, Disable, Remove, Mutate, Sound, TypeOK, execVars, pastVars
<1>3. CASE Enable
  <2> DEFINE on == [sched EXCEPT !.enabled = TRUE]
  <2>1. on \in ScheduleRec /\ on.next <= Last
    BY <1>t, ScheduleStarts
  <2>2. Next1(clock) \in 0..Last
    BY NextInSeries
  <2>3. advanced(on) \in ScheduleRec /\ advanced(on).next <= Last
    <3> HIDE DEF on
    <3> QED
      BY <1>t, <2>1, <2>2, AdvancedType
  <2>4. cleared(on) \in [Keys -> RunState]
    BY <1>t, <1>c DEF cleared
  <2> QED
    BY <1>3, <1>t, <2>3, <2>4 DEF Enable, Mutate, Sound, TypeOK, execVars, pastVars, Disturb
<1>4. ASSUME NEW m \in Manual, scheduleManualRun(m) PROVE Sound'
  <2>1. run' \in [Keys -> RunState] /\ intents' \in [Keys -> Nat]
    BY <1>t, <1>4, CreateType DEF scheduleManualRun, Keys
  <2> QED
    BY <1>4, <2>1 DEF scheduleManualRun, Sound, TypeOK, execVars
<1> QED
  BY <1>1, <1>2, <1>3, <1>4 DEF Claims

-----------------------------------------------------------------------------
(* What executes, and what ends, keeps types.                              *)

Exec(k) == executeRun(k) \/ recoverRuns(k)

\* Receipts that are linked or finished.
LEMMA ReceiptTypes ==
  ASSUME NEW o \in OpRec, NEW st \in {"none", "accepted", "completed", "failed", "uncertain"}
  PROVE  /\ [o EXCEPT !.state = st] \in OpRec /\ [o EXCEPT !.linked = TRUE] \in OpRec
         /\ finishTx(o, st) \in OpRec
         /\ o.linked \in BOOLEAN /\ o.state \in {"none", "accepted", "completed", "failed", "uncertain"}
BY DEF OpRec, finishTx

\* A receipt is finished by evidence.
LEMMA FinishType ==
  ASSUME Sound, NEW k \in Keys, NEW status
  PROVE  finishAttempt(k, status) \in OpRec
BY ReceiptTypes DEF Sound, TypeOK, finishAttempt

\* Classifying an attempt keeps types.
LEMMA ClassifyType ==
  ASSUME Sound, NEW k \in Keys, NEW permanent \in BOOLEAN, classifyAttempt(k, permanent)
  PROVE  run' \in [Keys -> RunState] /\ op' \in [Keys -> OpRec]
<1>1. run \in [Keys -> RunState] /\ op \in [Keys -> OpRec] /\ disp[k] \in DispatchStatus
  BY DEF Sound, TypeOK
<1>2. classified(k, permanent) \in RunState
  BY <1>1 DEF classified, RunState, DispatchStatus
<1>3. finishAttempt(k, disp[k]) \in OpRec /\ finishTx(op[k], "failed") \in OpRec
  BY <1>1, FinishType, ReceiptTypes
<1> QED
  BY <1>1, <1>2, <1>3 DEF classifyAttempt

\* Execution and recovery.
LEMMA ExecSound == ASSUME Sound, NEW k \in Keys, Exec(k) PROVE Sound'
<1>t. /\ sched \in ScheduleRec /\ hits \subseteq Kinds
      /\ run \in [Keys -> RunState] /\ op \in [Keys -> OpRec] /\ pc \in [Keys -> Step]
      /\ disp \in [Keys -> DispatchStatus] /\ seen \in [Keys -> BOOLEAN]
      /\ intents \in [Keys -> Nat] /\ landed \in [Keys -> Nat]
  BY DEF Sound, TypeOK
<1>s. UNCHANGED <<clock, sched, skipped, missed, target, byHand, covered>>
  BY DEF Exec, executeRun, Look, reblock, retryMessageRun, Attempt, Refuse, Intent, Prompt, Result,
     settleAttempt, recoverRuns, Execute
<1>p. pc' \in [Keys -> Step]
  <2>1. Look(k) \/ Prompt(k) => \E s \in Step : Go(k, s)
    BY DEF Look, Prompt, Step
  <2>2. reblock(k) \/ retryMessageRun(k) \/ Attempt(k) \/ Refuse(k) => \E s \in Step : Go(k, s)
    BY DEF reblock, retryMessageRun, Attempt, Refuse, Step
  <2>3. Intent(k) \/ Result(k) \/ settleAttempt(k) => \E s \in Step : Go(k, s)
    BY DEF Intent, Result, settleAttempt, Step
  <2>4. recoverRuns(k) => pc' = pc
    BY DEF recoverRuns
  <2> QED
    BY <1>t, <2>1, <2>2, <2>3, <2>4 DEF Exec, executeRun, Go
<1>h. hits' \subseteq Kinds
  <2>1. Prompt(k) => hits' = hits \/ \E kind : Disturb(kind)
    BY DEF Prompt
  <2>2. Refuse(k) \/ Result(k) \/ settleAttempt(k) => hits' = hits \/ \E kind : Disturb(kind)
    BY DEF Refuse, Result, settleAttempt
  <2>3. Look(k) \/ reblock(k) \/ retryMessageRun(k) \/ Attempt(k) \/ Intent(k) \/ recoverRuns(k)
          => hits' = hits
    BY DEF Look, reblock, retryMessageRun, Attempt, Intent, recoverRuns
  <2> QED
    BY <1>t, <2>1, <2>2, <2>3 DEF Exec, executeRun, Disturb
<1> SUFFICES /\ run' \in [Keys -> RunState] /\ op' \in [Keys -> OpRec]
             /\ disp' \in [Keys -> DispatchStatus] /\ seen' \in [Keys -> BOOLEAN]
             /\ intents' \in [Keys -> Nat] /\ landed' \in [Keys -> Nat]
  BY <1>s, <1>p, <1>h DEF Sound, TypeOK
<1>1. CASE Look(k) \/ Refuse(k)
  BY <1>1, <1>t DEF Look, Refuse
<1>2. CASE reblock(k)
  BY <1>2, <1>t DEF reblock, RunState
<1>3. CASE retryMessageRun(k)
  BY <1>3, <1>t, CreateType DEF retryMessageRun
<1>4. CASE Attempt(k)
  <2>1. [state |-> "accepted", linked |-> FALSE] \in OpRec
    BY DEF OpRec
  <2> QED
    BY <1>4, <1>t, <2>1 DEF Attempt, RunState
<1>5. CASE Intent(k)
  <2>1. [op[k] EXCEPT !.linked = TRUE] \in OpRec
    BY <1>t, ReceiptTypes
  <2>2. op' = [op EXCEPT ![k] = [op[k] EXCEPT !.linked = TRUE]]
    BY <1>5 DEF Intent
  <2>3. op' \in [Keys -> OpRec]
    BY <1>t, <2>1, <2>2
  <2> QED
    BY <1>5, <1>t, <2>3 DEF Intent, DispatchStatus
<1>6. CASE Prompt(k)
  <2>1. landed' \in [Keys -> Nat]
    BY <1>6, <1>t DEF Prompt
  <2> QED
    BY <1>6, <1>t, <2>1 DEF Prompt
<1>7. CASE Result(k)
  <2>1. \A st \in {"completed", "failed", "uncertain"} : finishTx(op[k], st) \in OpRec
    BY <1>t, ReceiptTypes
  <2>2. op' \in [Keys -> OpRec]
    BY <1>7, <1>t, <2>1 DEF Result
  <2>3. disp' \in [Keys -> DispatchStatus]
    BY <1>7, <1>t DEF Result, DispatchStatus
  <2> QED
    BY <1>7, <1>t, <2>2, <2>3 DEF Result
<1>8. CASE settleAttempt(k)
  <2>1. run' \in [Keys -> RunState] /\ op' \in [Keys -> OpRec]
    BY <1>8, <1>t, ClassifyType DEF settleAttempt
  <2> QED
    BY <1>8, <1>t, <2>1 DEF settleAttempt
<1>9. CASE recoverRuns(k)
  BY <1>9, <1>t, ClassifyType DEF recoverRuns
<1> QED
  BY <1>1, <1>2, <1>3, <1>4, <1>5, <1>6, <1>7, <1>8, <1>9 DEF Exec, executeRun

\* Ending dispatches keeps rows typed.
LEMMA EndType ==
  ASSUME Sound, NEW ks, NEW status \in {"settled", "failed"}, End(ks, status)
  PROVE  disp' \in [Keys -> DispatchStatus] /\ run' \in [Keys -> RunState]
BY DEF Sound, TypeOK, End, DispatchStatus, RunState

\* Ending dispatches keeps receipts typed.
LEMMA EndsType ==
  ASSUME Sound, NEW ks, NEW status \in {"settled", "failed"}, Ends(ks, status)
  PROVE  op' \in [Keys -> OpRec]
<1>1. \A k \in Keys : finishAttempt(k, status) \in OpRec /\ op[k] \in OpRec
  BY FinishType DEF Sound, TypeOK
<1> QED
  BY <1>1 DEF Ends

\* Dispatches that gain evidence or end.
LEMMA OutsideSound == Sound /\ Outside => Sound'
<1> SUFFICES ASSUME Sound, Outside PROVE Sound'
  OBVIOUS
<1>t. /\ hits \subseteq Kinds /\ run \in [Keys -> RunState] /\ op \in [Keys -> OpRec]
      /\ disp \in [Keys -> DispatchStatus] /\ seen \in [Keys -> BOOLEAN] /\ byHand \subseteq Keys
  BY DEF Sound, TypeOK
<1>1. CASE TargetGone
  BY <1>1, <1>t, EndsType, EndType DEF TargetGone, Ends, Disturb, Sound, TypeOK, pastVars
<1>2. ASSUME NEW k \in Keys, Observed(k) PROVE Sound'
  BY <1>2, <1>t DEF Observed, Sound, TypeOK, pastVars
<1>3. ASSUME NEW k \in Keys, Settles(k) PROVE Sound'
  BY <1>3, <1>t, EndsType, EndType DEF Settles, Ends, Sound, TypeOK, pastVars
<1>4. ASSUME NEW k \in Keys, Fail(k) PROVE Sound'
  BY <1>4, <1>t, EndsType, EndType DEF Fail, Ends, Disturb, Sound, TypeOK, pastVars
<1>5. ASSUME NEW k \in Keys, NEW verdict \in {"completed", "failed"}, Resolve(k, verdict)
      PROVE  Sound'
  <2>1. [op[k] EXCEPT !.state = verdict] \in OpRec
    BY <1>t, ReceiptTypes
  <2>2. op' = [op EXCEPT ![k] = [op[k] EXCEPT !.state = verdict]]
    BY <1>5 DEF Resolve
  <2>3. op' \in [Keys -> OpRec]
    BY <1>t, <2>1, <2>2
  <2>4. disp' \in [Keys -> DispatchStatus] /\ run' \in [Keys -> RunState]
    BY <1>5, <1>t, EndType DEF Resolve
  <2> QED
    BY <1>5, <1>t, <2>3, <2>4 DEF Resolve, Disturb, Sound, TypeOK
<1> QED
  BY <1>1, <1>2, <1>3, <1>4, <1>5 DEF Outside

\* The daemon dies.
LEMMA CrashSound == Sound /\ Crash => Sound'
BY DEF Sound, TypeOK, Crash, Disturb, Step, pastVars

\* Nothing happens.
LEMMA StutterSound == Sound /\ UNCHANGED vars => Sound'
BY DEF Sound, TypeOK, vars

\* The steps by kind.
LEMMA StepKinds ==
  ASSUME [Next]_vars
  PROVE  Quiet \/ Claims \/ (\E k \in Keys : Exec(k)) \/ Outside \/ Crash \/ UNCHANGED vars
BY DEF Next, Quiet, Claims, Exec, Outside

\* Every step keeps types.
LEMMA NextSound == Sound /\ [Next]_vars => Sound'
BY StepKinds, QuietSound, ClaimsSound, ExecSound, OutsideSound, CrashSound, StutterSound

\* Every variable of a schedule keeps its type, and the series goes on within itself.
THEOREM TypeCorrect == Spec => []TypeOK
<1>1. Sound => TypeOK
  BY DEF Sound
<1> QED
  BY <1>1, InitSound, NextSound, PTL DEF Spec

-----------------------------------------------------------------------------
(* What ties goroutine, row, receipt and dispatch together.                *)

Attempting == {"intent", "refused", "invalid", "prompt", "ok", "denied", "lost", "settle"}
Unsent == {"none", "claimed", "blocked", "cancelled"}

\* Where the goroutine of an occurrence stands: before its attempt the row may only have been
\* cancelled, from the attempt on it is dispatching and nobody else ends it.
HandlerInv(k) ==
  /\ pc[k] \in {"reblock", "attempt", "message"} => run[k] \in {"claimed", "blocked", "cancelled"}
  /\ pc[k] \in Attempting => run[k] = "dispatching"
  /\ pc[k] \in {"intent", "refused", "invalid"} => ~op[k].linked /\ op[k].state = "accepted"
  /\ pc[k] \in {"prompt", "ok", "denied", "lost", "settle"} => op[k].linked
  /\ pc[k] \in {"prompt", "ok", "denied", "lost"} =>
       op[k].state = "accepted" /\ disp[k] \in {"sending", "settled", "failed"}
  /\ pc[k] \in {"prompt", "denied"} => landed[k] = 0
  /\ pc[k] = "ok" => landed[k] = 1

\* What the row says of the dispatch; a dispatch or a message is one intent.
RowInv(k) ==
  /\ op[k].linked <=> disp[k] # "none"
  /\ run[k] = "none" => pc[k] = "off"
  /\ run[k] \in Unsent => disp[k] = "none"
  /\ run[k] = "persisted" => disp[k] = "none"
  /\ run[k] = "dispatched" => disp[k] = "active"
  /\ run[k] = "uncertain" => disp[k] \in {"sending", "uncertain"}
  /\ run[k] = "settled" => disp[k] = "settled"
  /\ run[k] = "failed" => disp[k] \in {"none", "failed"}
  /\ intents[k] = IF disp[k] # "none" \/ run[k] = "persisted" THEN 1 ELSE 0

\* What dispatch and receipt say of the prompt.
EvidenceInv(k) ==
  /\ landed[k] \in {0, 1}
  /\ seen[k] => landed[k] = 1
  /\ disp[k] \in {"active", "settled"} => landed[k] = 1
  /\ disp[k] = "none" => landed[k] = 0
  /\ k \notin byHand => /\ op[k].state = "completed" => landed[k] = 1
                        /\ op[k].state = "failed" => landed[k] = 0

KeyInv(k) == HandlerInv(k) /\ RowInv(k) /\ EvidenceInv(k)

\* One occurrence is outstanding, and one dispatch keeps the worker busy.
OneWaits == \A x, y \in Keys : run[x] \in outstandingRuns /\ run[y] \in outstandingRuns => x = y
OneBusy == \A x, y \in Keys : disp[x] \in Active /\ disp[y] \in Active => x = y

IInv == Sound /\ OneWaits /\ OneBusy /\ \A k \in Keys : KeyInv(k)

\* The invariant holds at first.
LEMMA InitIInv == Init => IInv
<1> SUFFICES ASSUME Init PROVE IInv
  OBVIOUS
<1>1. OneWaits /\ OneBusy
  BY DEF Init, OneWaits, OneBusy, outstandingRuns, Active
<1>2. ASSUME NEW k \in Keys PROVE KeyInv(k)
  <2>1. run[k] = "none" /\ disp[k] = "none" /\ pc[k] = "off" /\ ~seen[k] /\ intents[k] = 0
        /\ landed[k] = 0 /\ op[k].state = "none" /\ ~op[k].linked
    BY DEF Init
  <2> QED
    BY <2>1 DEF KeyInv, HandlerInv, RowInv, EvidenceInv, Attempting
<1> QED
  BY <1>1, <1>2, InitSound DEF IInv

\* The types of one occurrence.
LEMMA KeyTypes ==
  ASSUME Sound, NEW k \in Keys
  PROVE  /\ run[k] \in RunState /\ disp[k] \in DispatchStatus /\ pc[k] \in Step /\ op[k] \in OpRec
         /\ seen[k] \in BOOLEAN /\ intents[k] \in Nat /\ landed[k] \in Nat
         /\ op[k].linked \in BOOLEAN
         /\ op[k].state \in {"none", "accepted", "completed", "failed", "uncertain"}
BY ReceiptTypes DEF Sound, TypeOK

\* What of an occurrence does not change keeps its invariant.
LEMMA KeyStays ==
  ASSUME NEW k \in Keys, KeyInv(k),
         pc'[k] = pc[k], run'[k] = run[k], op'[k] = op[k], disp'[k] = disp[k], seen'[k] = seen[k],
         intents'[k] = intents[k], landed'[k] = landed[k], k \in byHand' <=> k \in byHand
  PROVE  KeyInv(k)'
BY DEF KeyInv, HandlerInv, RowInv, EvidenceInv

\* Time and the target change none of it.
LEMMA QuietKeeps ==
  ASSUME IInv, Quiet \/ UNCHANGED vars
  PROVE  IInv'
<1>1. UNCHANGED <<run, op, disp, seen, pc, intents, landed, byHand>>
  BY DEF Quiet, Tick, StepBack, TargetDown, TargetUp, Readopt, execVars, pastVars, vars
<1>2. OneWaits' /\ OneBusy'
  BY <1>1 DEF IInv, OneWaits, OneBusy
<1>3. \A k \in Keys : KeyInv(k)'
  BY <1>1, KeyStays DEF IInv
<1>4. Sound'
  BY QuietSound, StutterSound DEF IInv
<1> QED
  BY <1>2, <1>3, <1>4 DEF IInv

-----------------------------------------------------------------------------
(* Claims.                                                                 *)

\* A claim or a command cancels what was not sent yet, or nothing, and may create one row
\* when nothing is outstanding any more.
Cancelled == {run, cancelOutstanding(run)}
Claimed(rs) == \/ run' = rs /\ intents' = intents
               \/ \E k \in Keys : run[k] = "none" /\ overlapping(rs) = {} /\ Create(rs, k)

\* Every claim and command is of that form.
LEMMA ClaimsForm ==
  ASSUME Sound, Claims
  PROVE  /\ UNCHANGED <<op, disp, seen, pc, landed, byHand>>
         /\ \E rs \in Cancelled : Claimed(rs)
<1>1. UNCHANGED <<op, disp, seen, pc, landed, byHand>>
  BY DEF Claims, claimDue, claimInvalid, Enable, Disable, Remove, scheduleManualRun, Mutate,
     execVars, pastVars
<1>2. CASE claimDue
  <2> DEFINE latest == IF clock < Last THEN clock ELSE Last
  <2>1. cleared(sched) \in Cancelled
    BY DEF cleared, Cancelled
  <2>2. latest \in Keys
    BY <1>2, SeriesAssumption DEF claimDue, Sound, TypeOK, ScheduleRec, Keys, Times
  <2>3. Claimed(cleared(sched))
    BY <1>2, <2>2 DEF claimDue, Claimed, unclaimed
  <2> QED
    BY <1>1, <2>1, <2>3
<1>3. CASE claimInvalid \/ Disable \/ Remove
  BY <1>1, <1>3 DEF claimInvalid, Disable, Remove, Mutate, pastVars, Cancelled, Claimed
<1>4. CASE Enable
  <2> DEFINE on == [sched EXCEPT !.enabled = TRUE]
  <2>1. cleared(on) \in Cancelled
    BY DEF cleared, Cancelled
  <2>2. run' = cleared(on) /\ intents' = intents
    BY <1>4 DEF Enable, Mutate, pastVars
  <2> QED
    BY <1>1, <2>1, <2>2 DEF Claimed
<1>5. ASSUME NEW m \in Manual, scheduleManualRun(m)
      PROVE  \E rs \in Cancelled : Claimed(rs)
  BY <1>5 DEF scheduleManualRun, Cancelled, Claimed, Keys
<1> QED
  BY <1>1, <1>2, <1>3, <1>4, <1>5 DEF Claims

\* What that means for each row.
LEMMA ClaimedRow ==
  ASSUME Sound, NEW rs \in Cancelled, NEW k \in Keys, run[k] = "none", Create(rs, k), NEW x \in Keys
  PROVE  /\ x # k => run'[x] = rs[x] /\ intents'[x] = intents[x]
         /\ x = k => \/ run'[x] \in {"claimed", "blocked"} /\ intents'[x] = intents[x]
                     \/ run'[x] = "persisted" /\ intents'[x] = intents[x] + 1
<1>1. rs \in [Keys -> RunState] /\ intents \in [Keys -> Nat]
  BY DEF Sound, TypeOK, Cancelled, cancelOutstanding, RunState
<1>2. created \in {"claimed", "blocked", "persisted"}
  BY DEF created
<1> QED
  BY <1>1, <1>2 DEF Create

\* Claims keep the invariant: who is created was nowhere, who is cancelled sent nothing.
LEMMA ClaimsKeep ==
  ASSUME IInv, Claims
  PROVE  IInv'
<1>s. Sound /\ Sound'
  BY ClaimsSound DEF IInv
<1>u. UNCHANGED <<op, disp, seen, pc, landed, byHand>>
  BY <1>s, ClaimsForm
<1>r. PICK rs \in Cancelled : Claimed(rs)
  BY <1>s, ClaimsForm
<1>c. \A x \in Keys : rs[x] = run[x] \/ (run[x] \in Retryable /\ rs[x] = "cancelled")
  BY <1>r DEF Cancelled, cancelOutstanding
<1>1. OneBusy'
  BY <1>u DEF IInv, OneBusy
<1>2. CASE run' = rs /\ intents' = intents
  <2>1. OneWaits'
    BY <1>2, <1>c DEF IInv, OneWaits, outstandingRuns
  <2>2. ASSUME NEW x \in Keys PROVE KeyInv(x)'
    BY <1>2, <1>c, <1>u DEF IInv, KeyInv, HandlerInv, RowInv, EvidenceInv, Attempting, Unsent, Retryable
  <2> QED
    BY <1>1, <1>s, <2>1, <2>2 DEF IInv
<1>3. ASSUME NEW k \in Keys, run[k] = "none", overlapping(rs) = {}, Create(rs, k)
      PROVE  IInv'
  <2>1. \A x \in Keys : x # k => run'[x] = rs[x] /\ intents'[x] = intents[x]
    BY <1>s, <1>3, ClaimedRow
  <2>2. \/ run'[k] \in {"claimed", "blocked"} /\ intents'[k] = intents[k]
        \/ run'[k] = "persisted" /\ intents'[k] = intents[k] + 1
    BY <1>s, <1>3, ClaimedRow
  <2>3. \A x \in Keys : rs[x] \notin outstandingRuns
    BY <1>3 DEF overlapping, Outstanding
  <2>4. OneWaits'
    BY <2>1, <2>3 DEF OneWaits
  <2>5. ASSUME NEW x \in Keys, x # k PROVE KeyInv(x)'
    BY <2>1, <2>5, <1>c, <1>u DEF IInv, KeyInv, HandlerInv, RowInv, EvidenceInv, Attempting, Unsent,
       Retryable
  <2>6. KeyInv(k)'
    BY <2>2, <1>3, <1>u DEF IInv, KeyInv, HandlerInv, RowInv, EvidenceInv, Attempting, Unsent
  <2> QED
    BY <1>1, <1>s, <2>4, <2>5, <2>6 DEF IInv
<1> QED
  BY <1>r, <1>2, <1>3 DEF Claimed

-----------------------------------------------------------------------------
(* Execution.                                                              *)

\* A goroutine, or the recovery of an attempt, changes its own occurrence only.
OthersStay(k) ==
  \A x \in Keys : x # k =>
    /\ pc'[x] = pc[x] /\ run'[x] = run[x] /\ op'[x] = op[x] /\ disp'[x] = disp[x]
    /\ seen'[x] = seen[x] /\ intents'[x] = intents[x] /\ landed'[x] = landed[x]

\* The other occurrences stay.
LEMMA ExecFrame ==
  ASSUME Sound, NEW k \in Keys, Exec(k)
  PROVE  OthersStay(k) /\ byHand' = byHand
<1>t. /\ run \in [Keys -> RunState] /\ op \in [Keys -> OpRec] /\ pc \in [Keys -> Step]
      /\ disp \in [Keys -> DispatchStatus] /\ seen \in [Keys -> BOOLEAN]
      /\ intents \in [Keys -> Nat] /\ landed \in [Keys -> Nat]
  BY DEF Sound, TypeOK
<1>1. CASE Look(k) \/ reblock(k) \/ retryMessageRun(k) \/ Attempt(k)
  BY <1>1, <1>t DEF Look, reblock, retryMessageRun, Attempt, Create, Go, Execute, OthersStay
<1>2. CASE Refuse(k) \/ Intent(k) \/ Result(k)
  BY <1>2, <1>t DEF Refuse, Intent, Result, Go, Execute, OthersStay
<1>3. CASE Prompt(k)
  <2>1. /\ UNCHANGED <<run, op, disp, seen, intents, byHand>>
        /\ \A x \in Keys : x # k => pc'[x] = pc[x] /\ landed'[x] = landed[x]
    BY <1>3, <1>t DEF Prompt, Go, Execute
  <2> QED
    BY <2>1 DEF OthersStay
<1>4. CASE settleAttempt(k) \/ recoverRuns(k)
  BY <1>4, <1>t DEF settleAttempt, recoverRuns, classifyAttempt, Go, Execute, OthersStay
<1> QED
  BY <1>1, <1>2, <1>3, <1>4 DEF Exec, executeRun

\* What finishing a receipt does to it.
LEMMA Finished ==
  ASSUME NEW o \in OpRec, NEW st \in {"completed", "failed", "uncertain"}
  PROVE  /\ finishTx(o, st).linked = o.linked
         /\ o.state \in {"accepted", "uncertain"} => finishTx(o, st).state = st
         /\ o.state \notin {"accepted", "uncertain"} => finishTx(o, st) = o
BY DEF OpRec, finishTx

\* A receipt finished by evidence is completed only if the prompt landed.
LEMMA FinishedAttempt ==
  ASSUME Sound, NEW k \in Keys, NEW status
  PROVE  /\ finishAttempt(k, status).linked = op[k].linked
         /\ \/ finishAttempt(k, status).state = op[k].state
            \/ finishAttempt(k, status).state = "completed" /\ promptLanded(k, status)
            \/ finishAttempt(k, status).state = "uncertain"
<1>1. op[k] \in OpRec
  BY DEF Sound, TypeOK
<1> QED
  BY <1>1, Finished DEF finishAttempt

\* An attempt is classified by its dispatch, and never as one that sent nothing when it may have.
LEMMA Classifies ==
  ASSUME Sound, NEW k \in Keys, KeyInv(k), NEW permanent \in BOOLEAN, run[k] = "dispatching",
         classifyAttempt(k, permanent), pc'[k] = "off", disp'[k] = disp[k], seen'[k] = seen[k],
         intents'[k] = intents[k], landed'[k] = landed[k], byHand' = byHand
  PROVE  KeyInv(k)' /\ (run'[k] \in outstandingRuns => intents[k] = 0)
<1>t. /\ run \in [Keys -> RunState] /\ op \in [Keys -> OpRec] /\ disp[k] \in DispatchStatus
      /\ op[k] \in OpRec
  BY DEF Sound, TypeOK
<1>1. CASE op[k].linked
  <2>1. run'[k] = classified(k, permanent) /\ op'[k] = finishAttempt(k, disp[k])
    BY <1>1, <1>t DEF classifyAttempt
  <2>2. disp[k] # "none" /\ intents[k] = 1
    BY <1>1 DEF KeyInv, RowInv
  <2>3. \/ run'[k] = "uncertain" /\ disp[k] \in {"sending", "uncertain"}
        \/ run'[k] = "dispatched" /\ disp[k] = "active"
        \/ run'[k] \in {"settled", "failed"} /\ run'[k] = disp[k]
    BY <1>1, <1>t, <2>1, <2>2 DEF classified, DispatchStatus
  <2>4. op'[k].linked
    BY <1>1, <2>1, FinishedAttempt
  <2>5. op'[k].state = op[k].state \/ (op'[k].state = "completed" /\ promptLanded(k, disp[k]))
        \/ op'[k].state = "uncertain"
    BY <2>1, FinishedAttempt
  <2>6. promptLanded(k, disp[k]) => landed[k] = 1
    BY DEF KeyInv, EvidenceInv, promptLanded
  <2>7. HandlerInv(k)'
    BY DEF HandlerInv, Attempting
  <2>8. RowInv(k)'
    BY <2>2, <2>3, <2>4 DEF KeyInv, RowInv, Unsent
  <2>9. EvidenceInv(k)'
    BY <2>5, <2>6 DEF KeyInv, EvidenceInv
  <2> QED
    BY <2>3, <2>7, <2>8, <2>9 DEF KeyInv, outstandingRuns
<1>2. CASE ~op[k].linked
  <2>1. run'[k] \in {"failed", "blocked"} /\ op'[k] = finishTx(op[k], "failed")
    BY <1>2, <1>t DEF classifyAttempt, classified
  <2>2. disp[k] = "none" /\ intents[k] = 0 /\ landed[k] = 0
    BY <1>2 DEF KeyInv, RowInv, EvidenceInv
  <2>3. ~op'[k].linked /\ op'[k].state \in {op[k].state, "failed"}
    BY <1>2, <1>t, <2>1, Finished
  <2>4. HandlerInv(k)'
    BY DEF HandlerInv, Attempting
  <2>5. RowInv(k)'
    BY <2>1, <2>2, <2>3 DEF RowInv, Unsent
  <2>6. EvidenceInv(k)'
    BY <2>2, <2>3 DEF KeyInv, EvidenceInv
  <2> QED
    BY <2>2, <2>4, <2>5, <2>6 DEF KeyInv
<1> QED
  BY <1>1, <1>2

\* Each transaction and call of a goroutine keeps the invariant of its occurrence, makes nothing
\* outstanding that was not, and begins a dispatch only when the worker is free.
LEMMA ExecKey ==
  ASSUME IInv, NEW k \in Keys, Exec(k)
  PROVE  /\ KeyInv(k)'
         /\ run'[k] \in outstandingRuns => run[k] \in outstandingRuns
         /\ disp'[k] \in Active => disp[k] \in Active \/ \A x \in Keys : disp[x] \notin Active
<1>k. Sound /\ KeyInv(k) /\ HandlerInv(k) /\ RowInv(k) /\ EvidenceInv(k)
  BY DEF IInv, KeyInv
<1>t. /\ run \in [Keys -> RunState] /\ op \in [Keys -> OpRec] /\ pc \in [Keys -> Step]
      /\ disp \in [Keys -> DispatchStatus] /\ seen \in [Keys -> BOOLEAN] /\ op[k] \in OpRec
      /\ intents \in [Keys -> Nat] /\ landed \in [Keys -> Nat]
  BY <1>k DEF Sound, TypeOK
<1>b. byHand' = byHand
  BY <1>k, ExecFrame
<1>1. CASE Look(k)
  <2>1. run[k] \in {"claimed", "blocked"} /\ pc'[k] \in {"message", "reblock", "attempt"}
        /\ UNCHANGED <<run, op, disp, seen, intents, landed>>
    BY <1>1, <1>t DEF Look, Go, Retryable
  <2> QED
    BY <1>b, <1>k, <2>1 DEF KeyInv, HandlerInv, RowInv, EvidenceInv, Attempting
<1>2. CASE reblock(k)
  <2>1. pc'[k] = "off" /\ UNCHANGED <<op, disp, seen, intents, landed>> /\ run[k] # "none"
    BY <1>2, <1>t, <1>k DEF reblock, Go, RowInv
  <2>2. run'[k] = run[k] \/ (run[k] \in Retryable /\ run'[k] = "blocked")
    BY <1>2, <1>t DEF reblock
  <2> QED
    BY <1>b, <1>k, <2>1, <2>2 DEF KeyInv, HandlerInv, RowInv, EvidenceInv, Attempting, Unsent, Retryable,
       outstandingRuns
<1>3. CASE retryMessageRun(k)
  <2>1. pc'[k] = "off" /\ UNCHANGED <<op, disp, seen, landed>> /\ run[k] # "none"
    BY <1>3, <1>t, <1>k DEF retryMessageRun, Go, RowInv
  <2>2. \/ run'[k] = run[k] /\ intents'[k] = intents[k]
        \/ run[k] \in Retryable /\ run'[k] \in {"claimed", "blocked"} /\ intents'[k] = intents[k]
        \/ run[k] \in Retryable /\ run'[k] = "persisted" /\ intents'[k] = intents[k] + 1
    BY <1>3, <1>t DEF retryMessageRun, Create, created
  <2> QED
    BY <1>b, <1>k, <2>1, <2>2 DEF KeyInv, HandlerInv, RowInv, EvidenceInv, Attempting, Unsent, Retryable,
       outstandingRuns
<1>4. CASE Attempt(k)
  <2>1. UNCHANGED <<disp, seen, intents, landed>> /\ run[k] # "none"
    BY <1>4, <1>t, <1>k DEF Attempt, RowInv
  <2>2. \/ UNCHANGED <<run, op>> /\ pc'[k] = "off"
        \/ /\ run[k] \in Retryable /\ run'[k] = "dispatching" /\ pc'[k] = "intent"
           /\ op'[k].state = "accepted" /\ ~op'[k].linked
    BY <1>4, <1>t DEF Attempt, Go, stillRetryable
  <2> QED
    BY <1>b, <1>k, <2>1, <2>2 DEF KeyInv, HandlerInv, RowInv, EvidenceInv, Attempting, Unsent, Retryable,
       outstandingRuns
<1>5. CASE Refuse(k)
  <2>1. /\ UNCHANGED <<run, op, disp, seen, intents, landed>>
        /\ pc[k] = "intent" /\ pc'[k] \in {"refused", "invalid"}
    BY <1>5, <1>t DEF Refuse, Go
  <2> QED
    BY <1>b, <1>k, <2>1 DEF KeyInv, HandlerInv, RowInv, EvidenceInv, Attempting
<1>6. CASE Intent(k)
  <2>1. /\ UNCHANGED <<run, landed>> /\ pc[k] = "intent" /\ pc'[k] = "prompt"
        /\ disp'[k] = "sending" /\ ~seen'[k] /\ intents'[k] = intents[k] + 1
        /\ \A x \in Keys : disp[x] \notin Active
    BY <1>6, <1>t DEF Intent, Go, workerFree
  <2>2. op'[k].linked /\ op'[k].state = op[k].state
    BY <1>6, <1>t DEF Intent, OpRec
  <2> QED
    BY <1>b, <1>k, <2>1, <2>2 DEF KeyInv, HandlerInv, RowInv, EvidenceInv, Attempting, Unsent
<1>7. CASE Prompt(k)
  <2>1. /\ UNCHANGED <<run, op, disp, seen, intents>> /\ pc[k] = "prompt"
        /\ \/ pc'[k] = "ok" /\ landed'[k] = landed[k] + 1
           \/ pc'[k] = "denied" /\ landed'[k] = landed[k]
           \/ pc'[k] = "lost" /\ landed'[k] \in {landed[k], landed[k] + 1}
    BY <1>7, <1>t DEF Prompt, Go
  <2> QED
    BY <1>b, <1>k, <1>t, <2>1 DEF KeyInv, HandlerInv, RowInv, EvidenceInv, Attempting, Unsent
<1>8. CASE Result(k)
  <2>1. /\ UNCHANGED <<run, seen, intents, landed>> /\ pc'[k] = "settle"
        /\ pc[k] \in {"ok", "denied", "lost"}
    BY <1>8, <1>t DEF Result, Go
  <2>2. \A st \in {"completed", "failed", "uncertain"} :
          finishTx(op[k], st).linked = op[k].linked /\ finishTx(op[k], st).state = st
    BY <1>k, <1>t, <2>1, Finished DEF HandlerInv
  <2>3. \/ UNCHANGED <<disp, op>>
        \/ /\ disp'[k] = disp[k] \/ (disp[k] = "sending" /\ disp'[k] \in
                {CASE pc[k] = "ok" -> "active" [] pc[k] = "denied" -> "failed" [] OTHER -> "uncertain"})
           /\ op'[k].linked = op[k].linked
           /\ pc[k] = "ok" => op'[k].state = "completed"
           /\ pc[k] = "denied" => op'[k].state = "failed"
           /\ pc[k] = "lost" => op'[k].state = "uncertain"
    BY <1>8, <1>t, <2>2 DEF Result
  <2> QED
    BY <1>b, <1>k, <1>t, <2>1, <2>3 DEF KeyInv, HandlerInv, RowInv, EvidenceInv, Attempting, Unsent, Active
<1>9. CASE settleAttempt(k)
  <2>1. /\ UNCHANGED <<disp, seen, intents, landed>> /\ pc'[k] = "off" /\ run[k] = "dispatching"
    BY <1>9, <1>t, <1>k DEF settleAttempt, Go, HandlerInv, Attempting
  <2>2. CASE UNCHANGED <<run, op>>
    BY <1>b, <1>k, <2>1, <2>2 DEF KeyInv, HandlerInv, RowInv, EvidenceInv, Attempting, Unsent
  <2>3. CASE classifyAttempt(k, pc[k] = "invalid")
    <3>1. (pc[k] = "invalid") \in BOOLEAN
      OBVIOUS
    <3> QED
      BY <1>b, <1>k, <2>1, <2>3, <3>1, Classifies DEF outstandingRuns
  <2> QED
    BY <1>9, <2>1, <2>2, <2>3 DEF settleAttempt
<1>10. CASE recoverRuns(k)
  <2>1. /\ UNCHANGED <<disp, seen, intents, landed>> /\ pc'[k] = "off" /\ run[k] = "dispatching"
        /\ classifyAttempt(k, FALSE)
    BY <1>10 DEF recoverRuns, abandoned
  <2> QED
    BY <1>b, <1>k, <2>1, Classifies DEF outstandingRuns
<1> QED
  BY <1>1, <1>2, <1>3, <1>4, <1>5, <1>6, <1>7, <1>8, <1>9, <1>10 DEF Exec, executeRun

\* Execution keeps the invariant.
LEMMA ExecKeeps ==
  ASSUME IInv, NEW k \in Keys, Exec(k)
  PROVE  IInv'
<1>f. OthersStay(k) /\ byHand' = byHand
  BY ExecFrame DEF IInv
<1>1. OneWaits'
  BY <1>f, ExecKey DEF IInv, OneWaits, OthersStay
<1>2. OneBusy'
  BY <1>f, ExecKey DEF IInv, OneBusy, OthersStay
<1>3. \A x \in Keys : x # k => KeyInv(x)'
  BY <1>f, KeyStays DEF IInv, OthersStay
<1>4. Sound'
  BY ExecSound DEF IInv
<1> QED
  BY <1>1, <1>2, <1>3, <1>4, ExecKey DEF IInv

-----------------------------------------------------------------------------
(* Dispatches end, people resolve, the daemon dies.                        *)

\* What ending dispatches does to one row.
LEMMA EndRow ==
  ASSUME Sound, NEW ks, NEW status \in {"settled", "failed"}, End(ks, status), NEW x \in Keys
  PROVE  /\ disp'[x] = IF x \in ks THEN status ELSE disp[x]
         /\ run'[x] = IF x \in ks /\ synced(x) THEN status ELSE run[x]
BY DEF Sound, TypeOK, End

\* Only what a dispatch that has not ended left behind is rewritten when it ends.
LEMMA EndsKey ==
  ASSUME Sound, NEW x \in Keys, KeyInv(x), NEW ks, NEW status \in {"settled", "failed"},
         x \in ks => disp[x] \in Active, status = "settled" /\ x \in ks => seen[x],
         Ends(ks, status), seen' = seen
  PROVE  KeyInv(x)'
<1>1. UNCHANGED <<pc, intents, landed, byHand>> /\ End(ks, status)
  BY DEF Ends, pastVars
<1>2. op'[x] = IF x \in ks /\ synced(x) THEN finishAttempt(x, status) ELSE op[x]
  BY DEF Ends
<1>3. CASE x \notin ks
  <2>1. disp'[x] = disp[x] /\ run'[x] = run[x] /\ op'[x] = op[x]
    BY <1>1, <1>2, <1>3, EndRow
  <2> QED
    BY <1>1, <2>1, KeyStays
<1>4. CASE x \in ks
  <2>1. disp[x] \in Active /\ run[x] \in {"dispatching", "dispatched", "uncertain"}
    BY <1>4, KeyTypes DEF KeyInv, RowInv, Active, Unsent, RunState
  <2>2. disp'[x] = status /\ run'[x] = IF synced(x) THEN status ELSE run[x]
    BY <1>1, <1>4, EndRow
  <2>3. promptLanded(x, status) => landed[x] = 1
    BY <1>4 DEF KeyInv, EvidenceInv, promptLanded
  <2>4. op'[x].linked = op[x].linked
    BY <1>2, FinishedAttempt
  <2>5. \/ op'[x].state = op[x].state
        \/ op'[x].state = "completed" /\ landed[x] = 1
        \/ op'[x].state = "uncertain"
    BY <1>2, <2>3, FinishedAttempt
  <2>6. synced(x) <=> run[x] # "dispatching"
    BY <2>1 DEF synced
  <2>7. run[x] # "dispatching" => pc[x] = "off"
    BY <2>1, KeyTypes DEF KeyInv, HandlerInv, Attempting, Step
  <2>8. run[x] = "dispatching" => op'[x] = op[x]
    BY <1>2, <2>6
  <2>9. HandlerInv(x)'
    BY <1>1, <2>2, <2>4, <2>6, <2>7, <2>8 DEF KeyInv, HandlerInv, Attempting
  <2>10. RowInv(x)'
    BY <1>1, <2>1, <2>2, <2>4, <2>6 DEF KeyInv, RowInv, Active, Unsent
  <2>11. EvidenceInv(x)'
    BY <1>1, <1>4, <2>2, <2>5 DEF KeyInv, EvidenceInv
  <2> QED
    BY <2>9, <2>10, <2>11 DEF KeyInv
<1> QED
  BY <1>3, <1>4

\* Ending dispatches makes nothing outstanding and nothing active.
LEMMA EndsBoth ==
  ASSUME IInv, NEW ks, NEW status \in {"settled", "failed"}, End(ks, status)
  PROVE  OneWaits' /\ OneBusy'
<1>1. \A x \in Keys : /\ disp'[x] = disp[x] \/ disp'[x] \notin Active
                      /\ run'[x] = run[x] \/ run'[x] \notin outstandingRuns
  BY EndRow DEF IInv, Active, outstandingRuns
<1> QED
  BY <1>1 DEF IInv, OneWaits, OneBusy

\* Dispatches that gain evidence or end, and people, keep the invariant.
LEMMA OutsideKeeps ==
  ASSUME IInv, Outside
  PROVE  IInv'
<1>s. Sound /\ Sound' /\ \A x \in Keys : KeyInv(x)
  BY OutsideSound DEF IInv
<1>t. /\ disp \in [Keys -> DispatchStatus] /\ seen \in [Keys -> BOOLEAN] /\ op \in [Keys -> OpRec]
      /\ landed \in [Keys -> Nat] /\ run \in [Keys -> RunState]
  BY <1>s DEF Sound, TypeOK
<1> SUFFICES OneWaits' /\ OneBusy' /\ \A x \in Keys : KeyInv(x)'
  BY <1>s DEF IInv
<1>1. CASE TargetGone
  <2> DEFINE ks == {k \in Keys : disp[k] \in Active}
  <2>1. Ends(ks, "failed") /\ seen' = seen
    BY <1>1 DEF TargetGone
  <2>2. \A x \in Keys : KeyInv(x)'
    BY <1>s, <2>1, EndsKey
  <2> QED
    BY <2>1, <2>2, EndsBoth DEF Ends
<1>2. ASSUME NEW k \in Keys, Observed(k)
      PROVE  OneWaits' /\ OneBusy' /\ \A x \in Keys : KeyInv(x)'
  <2>1. UNCHANGED <<run, op, disp, pc, intents, landed, byHand>>
    BY <1>2 DEF Observed, pastVars
  <2>2. seen' = [seen EXCEPT ![k] = TRUE] /\ landed[k] > 0
    BY <1>2 DEF Observed
  <2>3. \A x \in Keys : x # k => KeyInv(x)'
    BY <1>s, <1>t, <2>1, <2>2, KeyStays
  <2>4. landed[k] = 1
    BY <1>s, <2>2 DEF KeyInv, EvidenceInv
  <2>5. KeyInv(k)'
    BY <1>s, <2>1, <2>4 DEF KeyInv, HandlerInv, RowInv, EvidenceInv
  <2> QED
    BY <2>1, <2>3, <2>5 DEF IInv, OneWaits, OneBusy
<1>3. ASSUME NEW k \in Keys, Settles(k)
      PROVE  OneWaits' /\ OneBusy' /\ \A x \in Keys : KeyInv(x)'
  <2>1. Ends({k}, "settled") /\ seen' = seen /\ seen[k] /\ disp[k] \in Active
    BY <1>3 DEF Settles
  <2>2. \A x \in Keys : KeyInv(x)'
    BY <1>s, <2>1, EndsKey
  <2> QED
    BY <2>1, <2>2, EndsBoth DEF Ends
<1>4. ASSUME NEW k \in Keys, Fail(k)
      PROVE  OneWaits' /\ OneBusy' /\ \A x \in Keys : KeyInv(x)'
  <2>1. Ends({k}, "failed") /\ seen' = seen /\ disp[k] \in Active
    BY <1>4 DEF Fail
  <2>2. \A x \in Keys : KeyInv(x)'
    BY <1>s, <2>1, EndsKey
  <2> QED
    BY <2>1, <2>2, EndsBoth DEF Ends
<1>5. ASSUME NEW k \in Keys, NEW verdict \in {"completed", "failed"}, Resolve(k, verdict)
      PROVE  OneWaits' /\ OneBusy' /\ \A x \in Keys : KeyInv(x)'
  <2>1. UNCHANGED <<pc, seen, intents, landed>> /\ byHand' = byHand \cup {k} /\ pc[k] = "off"
        /\ \A x \in Keys : x # k => op'[x] = op[x]
    BY <1>5, <1>t DEF Resolve
  <2>2. op'[k].linked = op[k].linked
    BY <1>5, <1>t DEF Resolve, OpRec
  <2>3. CASE UNCHANGED <<disp, run>>
    <3>1. \A x \in Keys : x # k => KeyInv(x)'
      BY <1>s, <2>1, <2>3, KeyStays
    <3>2. KeyInv(k)'
      BY <1>s, <2>1, <2>2, <2>3 DEF KeyInv, HandlerInv, RowInv, EvidenceInv, Attempting
    <3> QED
      BY <2>3, <3>1, <3>2 DEF IInv, OneWaits, OneBusy
  <2>4. CASE disp[k] \in Active /\ End({k}, "failed")
    <3>1. \A x \in Keys : x # k => disp'[x] = disp[x] /\ run'[x] = run[x]
      BY <1>s, <2>4, EndRow
    <3>2. disp'[k] = "failed" /\ run'[k] = IF synced(k) THEN "failed" ELSE run[k]
      BY <1>s, <2>4, EndRow
    <3>3. run[k] \in {"dispatching", "dispatched", "uncertain"}
      BY <1>s, <2>4, KeyTypes DEF KeyInv, RowInv, Active, Unsent, RunState
    <3>4. \A x \in Keys : x # k => KeyInv(x)'
      BY <1>s, <2>1, <3>1, KeyStays
    <3>5. KeyInv(k)'
      BY <1>s, <2>1, <2>2, <2>4, <3>2, <3>3 DEF KeyInv, HandlerInv, RowInv, EvidenceInv, Attempting,
         Unsent, Active, synced
    <3> QED
      BY <2>4, <3>4, <3>5, EndsBoth
  <2> QED
    BY <1>5, <2>3, <2>4 DEF Resolve
<1> QED
  BY <1>1, <1>2, <1>3, <1>4, <1>5 DEF Outside

\* A crash leaves rows that say less, and nothing that is untrue.
LEMMA CrashKeeps ==
  ASSUME IInv, Crash
  PROVE  IInv'
<1>1. UNCHANGED <<run, op, disp, seen, intents, landed, byHand>> /\ \A k \in Keys : pc'[k] = "off"
  BY DEF Crash, pastVars
<1>2. \A k \in Keys : KeyInv(k)'
  BY <1>1 DEF IInv, KeyInv, HandlerInv, RowInv, EvidenceInv, Attempting
<1>3. OneWaits' /\ OneBusy'
  BY <1>1 DEF IInv, OneWaits, OneBusy
<1> QED
  BY <1>2, <1>3, CrashSound DEF IInv

\* Every step keeps the invariant.
LEMMA NextKeeps == IInv /\ [Next]_vars => IInv'
BY StepKinds, QuietKeeps, ClaimsKeep, ExecKeeps, OutsideKeeps, CrashKeeps

\* The invariant that ties goroutine, row, receipt, dispatch and prompt of every occurrence
\* together holds in every reachable state.
THEOREM Invariance == Spec => []IInv
BY InitIInv, NextKeeps, PTL DEF Spec

-----------------------------------------------------------------------------
(* What follows.                                                           *)

\* At most one occurrence of a schedule is outstanding, whoever claimed it, whatever was
\* cancelled, retried, abandoned by a crash or recovered meanwhile.
THEOREM OneOutstandingHolds == Spec => []OneOutstanding
<1>1. IInv => OneOutstanding
  <2> SUFFICES ASSUME IInv PROVE Cardinality(Outstanding(run)) <= 1
    BY DEF OneOutstanding
  <2>1. CASE Outstanding(run) = {}
    BY <2>1, FS_EmptySet
  <2>2. ASSUME NEW k \in Outstanding(run) PROVE Outstanding(run) = {k}
    BY <2>2 DEF IInv, OneWaits, Outstanding
  <2>3. ASSUME NEW k \in Outstanding(run) PROVE Cardinality(Outstanding(run)) = 1
    BY <2>2, <2>3, FS_Singleton
  <2> QED
    BY <2>1, <2>3
<1> QED
  BY <1>1, Invariance, PTL

\* No occurrence is submitted or prompted twice, across refusals, retries, lost answers,
\* crashes and recovery.
THEOREM SubmittedOnceHolds == Spec => []SubmittedOnce
<1>1. IInv => SubmittedOnce
  BY DEF IInv, KeyInv, RowInv, EvidenceInv, SubmittedOnce
<1> QED
  BY <1>1, Invariance, PTL

\* The history of an occurrence says what became of its dispatch, and what is blocked or
\* cancelled was never sent.
THEOREM HistoryIsTrue == Spec => []RunTellsDispatch
<1>1. IInv => RunTellsDispatch
  <2> SUFFICES ASSUME IInv, NEW k \in Keys
               PROVE  /\ run[k] \in {"claimed", "blocked", "cancelled"} => disp[k] = "none" /\ landed[k] = 0
                      /\ run[k] = "dispatched" => disp[k] = "active"
                      /\ run[k] = "uncertain" => disp[k] \in {"sending", "uncertain"}
                      /\ run[k] = "settled" => disp[k] = "settled"
                      /\ disp[k] \in {"settled", "failed"} => run[k] \in {disp[k], "dispatching"}
    BY DEF RunTellsDispatch
  <2> QED
    BY KeyTypes DEF IInv, KeyInv, RowInv, EvidenceInv, Unsent, RunState
<1> QED
  BY <1>1, Invariance, PTL

\* A receipt that nobody resolved by hand is completed only if the prompt landed, and failed
\* only if it did not.
THEOREM ReceiptsAreEvidence == Spec => []ReceiptIsEvidence
<1>1. IInv => ReceiptIsEvidence
  BY DEF IInv, KeyInv, EvidenceInv, ReceiptIsEvidence
<1> QED
  BY <1>1, Invariance, PTL

-----------------------------------------------------------------------------
(* Sums over finite sets.                                                  *)

\* A set of natural numbers has a least one.
LEMMA LeastNumber ==
  ASSUME NEW T \in SUBSET Nat, T # {}
  PROVE  \E x \in T : \A y \in T : x <= y
<1> DEFINE R == OpToRel(<, Nat)
<1>1. IsWellFoundedOn(R, Nat) /\ R = {p \in Nat \X Nat : p[1] < p[2]}
  BY NatLessThanWellFounded DEF OpToRel
<1> HIDE DEF R
<1>2. PICK x \in T : \A y \in T : ~(<<y, x>> \in R)
  BY <1>1, WFMin
<1>3. ASSUME NEW y \in T PROVE x <= y
  <2>1. y \in Nat /\ x \in Nat
    OBVIOUS
  <2>2. y < x => <<y, x>> \in R
    BY <2>1, <1>1
  <2> QED
    BY <2>1, <2>2, <1>2
<1> QED
  BY <1>3

\* What holds of zero, and of a successor if of its predecessor, holds of every number.
LEMMA Induction ==
  ASSUME NEW T, 0 \in T, \A n \in Nat : n \in T => n + 1 \in T
  PROVE  Nat \subseteq T
<1> SUFFICES ASSUME Nat \ T # {} PROVE FALSE
  OBVIOUS
<1>1. PICK x \in Nat \ T : \A y \in Nat \ T : x <= y
  BY LeastNumber
<1>2. x - 1 \in Nat /\ x - 1 \in T
  BY <1>1
<1> QED
  BY <1>2

\* The sum of f over s, a part of S, is defined by taking one element at a time.
AnyOf(s) == CHOOSE x \in s : TRUE
Partial(f, S) == CHOOSE g : g = [s \in SUBSET S |-> IF s = {} THEN 0 ELSE f[AnyOf(s)] + g[s \ {AnyOf(s)}]]
Sum(f, S) == MapThenSumSet(LAMBDA x : f[x], S)

\* MapThenSumSet is the partial sum over all of S.
LEMMA SumIsPartial ==
  ASSUME NEW f, NEW S
  PROVE  Sum(f, S) = Partial(f, S)[S]
BY Zenon DEF Sum, MapThenSumSet, MapThenFoldSet, Partial, AnyOf

\* The elements of a finite set, one fewer at a time.
LEMMA OneFewer ==
  ASSUME NEW S, IsFiniteSet(S), NEW s \in SUBSET S
  PROVE  /\ IsFiniteSet(s) /\ Cardinality(s) \in Nat
         /\ s = {} <=> Cardinality(s) = 0
         /\ s # {} => /\ AnyOf(s) \in s /\ s \ {AnyOf(s)} \in SUBSET S
                      /\ Cardinality(s \ {AnyOf(s)}) = Cardinality(s) - 1
<1>1. IsFiniteSet(s)
  BY FS_Subset
<1>2. Cardinality(s) \in Nat /\ (s = {} <=> Cardinality(s) = 0)
  BY <1>1, FS_CardinalityType, FS_EmptySet
<1>3. s # {} => AnyOf(s) \in s
  BY DEF AnyOf
<1>4. s # {} => Cardinality(s \ {AnyOf(s)}) = Cardinality(s) - 1
  BY <1>1, <1>3, FS_RemoveElement
<1> QED
  BY <1>1, <1>2, <1>3, <1>4

\* What holds of the empty set, and of a set if of it without one of its elements, holds of
\* every part of a finite set.
LEMMA SetInduction ==
  ASSUME NEW S, IsFiniteSet(S), NEW T,
         {} \in T, \A s \in SUBSET S : s # {} /\ s \ {AnyOf(s)} \in T => s \in T
  PROVE  SUBSET S \subseteq T
<1> DEFINE N == {n \in Nat : \A s \in SUBSET S : Cardinality(s) = n => s \in T}
<1>1. 0 \in N
  BY OneFewer
<1>2. ASSUME NEW n \in Nat, n \in N PROVE n + 1 \in N
  <2> SUFFICES ASSUME NEW s \in SUBSET S, Cardinality(s) = n + 1 PROVE s \in T
    OBVIOUS
  <2>1. s # {}
    BY FS_EmptySet
  <2>2. s \ {AnyOf(s)} \in SUBSET S /\ Cardinality(s \ {AnyOf(s)}) = n
    BY <2>1, OneFewer
  <2> QED
    BY <1>2, <2>2
<1>3. Nat \subseteq N
  <2> HIDE DEF N
  <2> QED
    BY <1>1, <1>2, Induction
<1> QED
  BY <1>3, OneFewer

\* The partial sums exist.
LEMMA PartialSums ==
  ASSUME NEW S, IsFiniteSet(S), NEW f
  PROVE  /\ Partial(f, S)[{}] = 0
         /\ \A s \in SUBSET S : s # {} =>
              Partial(f, S)[s] = f[AnyOf(s)] + Partial(f, S)[s \ {AnyOf(s)}]
<1> DEFINE Adds(g, s) == IF s = {} THEN 0 ELSE f[AnyOf(s)] + g[s \ {AnyOf(s)}]
           Upto(g, n) == \A s \in SUBSET S : Cardinality(s) <= n => g[s] = Adds(g, s)
           N == {n \in Nat : \E g : g = [s \in SUBSET S |-> g[s]] /\ Upto(g, n)}
<1>1. 0 \in N
  <2>1. PICK g : g = [s \in SUBSET S |-> 0]
    OBVIOUS
  <2>2. ASSUME NEW s \in SUBSET S, Cardinality(s) <= 0 PROVE s = {}
    <3>1. Cardinality(s) \in Nat /\ (s = {} <=> Cardinality(s) = 0)
      BY OneFewer
    <3> QED
      BY <2>2, <3>1
  <2>3. Upto(g, 0)
    BY <2>1, <2>2
  <2>4. g = [s \in SUBSET S |-> g[s]]
    BY <2>1
  <2> HIDE DEF Upto
  <2> QED
    BY <2>3, <2>4
<1>2. ASSUME NEW n \in Nat, n \in N PROVE n + 1 \in N
  <2>1. PICK g : g = [s \in SUBSET S |-> g[s]] /\ Upto(g, n)
    BY <1>2
  <2>2. PICK k : k = [s \in SUBSET S |-> Adds(g, s)]
    OBVIOUS
  <2>3. ASSUME NEW s \in SUBSET S, Cardinality(s) <= n PROVE k[s] = g[s]
    BY <2>1, <2>2, <2>3
  <2>4. ASSUME NEW s \in SUBSET S, Cardinality(s) <= n + 1 PROVE k[s] = Adds(k, s)
    <3>1. CASE s = {}
      BY <2>2, <3>1
    <3>2. CASE s # {}
      <4>1. s \ {AnyOf(s)} \in SUBSET S /\ Cardinality(s \ {AnyOf(s)}) <= n
        BY <2>4, <3>2, OneFewer
      <4>2. k[s \ {AnyOf(s)}] = g[s \ {AnyOf(s)}]
        BY <4>1, <2>3
      <4> QED
        BY <2>2, <3>2, <4>2
    <3> QED
      BY <3>1, <3>2
  <2>5. k = [s \in SUBSET S |-> k[s]]
    BY <2>2
  <2>6. Upto(k, n + 1)
    BY <2>4
  <2> HIDE DEF Upto
  <2> QED
    BY <2>5, <2>6
<1>3. Nat \subseteq N
  <2> HIDE DEF N
  <2> QED
    BY <1>1, <1>2, Induction
<1>4. \E g : g = [s \in SUBSET S |-> Adds(g, s)]
  <2>1. Cardinality(S) \in Nat
    BY FS_CardinalityType
  <2>2. PICK g : g = [s \in SUBSET S |-> g[s]] /\ Upto(g, Cardinality(S))
    BY <1>3, <2>1
  <2>3. \A s \in SUBSET S : Cardinality(s) <= Cardinality(S)
    BY FS_Subset
  <2>4. \A s \in SUBSET S : g[s] = Adds(g, s)
    BY <2>2, <2>3
  <2> QED
    BY <2>2, <2>4
<1>5. Partial(f, S) = [s \in SUBSET S |-> Adds(Partial(f, S), s)]
  BY <1>4 DEF Partial
<1> QED
  BY <1>5

\* A sum of natural numbers is one.
LEMMA SumType ==
  ASSUME NEW S, IsFiniteSet(S), NEW f \in [S -> Nat]
  PROVE  Sum(f, S) \in Nat
<1> DEFINE T == {s \in SUBSET S : Partial(f, S)[s] \in Nat}
<1>1. {} \in T
  BY PartialSums
<1>2. ASSUME NEW s \in SUBSET S, s # {}, s \ {AnyOf(s)} \in T PROVE s \in T
  <2>1. f[AnyOf(s)] \in Nat
    BY <1>2, OneFewer
  <2> QED
    BY <1>2, <2>1, PartialSums
<1>3. SUBSET S \subseteq T
  <2> HIDE DEF T
  <2> QED
    BY <1>1, <1>2, SetInduction
<1> QED
  BY <1>3, SumIsPartial

\* Zeros add up to zero.
LEMMA SumOfZeros ==
  ASSUME NEW S, IsFiniteSet(S), NEW f, \A x \in S : f[x] = 0
  PROVE  Sum(f, S) = 0
<1> DEFINE T == {s \in SUBSET S : Partial(f, S)[s] = 0}
<1>1. {} \in T
  BY PartialSums
<1>2. ASSUME NEW s \in SUBSET S, s # {}, s \ {AnyOf(s)} \in T PROVE s \in T
  <2>1. f[AnyOf(s)] = 0
    BY <1>2, OneFewer
  <2>2. Partial(f, S)[s] = f[AnyOf(s)] + Partial(f, S)[s \ {AnyOf(s)}]
    BY <1>2, PartialSums
  <2>3. Partial(f, S)[s \ {AnyOf(s)}] = 0
    BY <1>2
  <2> QED
    BY <2>1, <2>2, <2>3
<1>3. SUBSET S \subseteq T
  <2> HIDE DEF T
  <2> QED
    BY <1>1, <1>2, SetInduction
<1> QED
  BY <1>3, SumIsPartial

\* When one of the numbers changes, the sum changes by as much.
LEMMA SumChanges ==
  ASSUME NEW S, IsFiniteSet(S), NEW f \in [S -> Nat], NEW g \in [S -> Nat], NEW x \in S,
         \A y \in S \ {x} : g[y] = f[y]
  PROVE  Sum(g, S) + f[x] = Sum(f, S) + g[x]
<1> DEFINE F == Partial(f, S)
           G == Partial(g, S)
           T == {s \in SUBSET S : /\ F[s] \in Nat /\ G[s] \in Nat
                                  /\ IF x \in s THEN G[s] + f[x] = F[s] + g[x] ELSE G[s] = F[s]}
<1>1. {} \in T
  BY PartialSums
<1>2. ASSUME NEW s \in SUBSET S, s # {}, s \ {AnyOf(s)} \in T PROVE s \in T
  <2> DEFINE a == AnyOf(s)
             t == s \ {a}
  <2>1. a \in s /\ a \in S /\ f[a] \in Nat /\ g[a] \in Nat /\ f[x] \in Nat /\ g[x] \in Nat
    BY <1>2, OneFewer
  <2>2. F[s] = f[a] + F[t] /\ G[s] = g[a] + G[t]
    BY <1>2, PartialSums
  <2>3. /\ F[t] \in Nat /\ G[t] \in Nat
        /\ IF x \in t THEN G[t] + f[x] = F[t] + g[x] ELSE G[t] = F[t]
    BY <1>2
  <2> HIDE DEF F, G, a
  <2>4. F[s] \in Nat /\ G[s] \in Nat
    BY <2>1, <2>2, <2>3
  <2>5. CASE a = x
    BY <2>1, <2>2, <2>3, <2>4, <2>5
  <2>6. CASE a # x
    <3>1. f[a] = g[a] /\ (x \in s <=> x \in t)
      BY <2>1, <2>6
    <3> QED
      BY <2>1, <2>2, <2>3, <2>4, <3>1
  <2> QED
    BY <2>5, <2>6
<1>3. SUBSET S \subseteq T
  <2> HIDE DEF T
  <2> QED
    BY <1>1, <1>2, SetInduction
<1> QED
  BY <1>3, SumIsPartial

-----------------------------------------------------------------------------
(* Occurrences that are accounted for.                                     *)

\* While nobody has set the clock back: what the series passed by is past and lies before the
\* next occurrence, and only that has a row or counts as missed.
Passed ==
  /\ \A t \in covered : t <= clock /\ (sched.next # 0 => t < sched.next)
  /\ \A t \in Times : run[t] # "none" \/ missed[t] # 0 => t \in covered

Rows == {t \in Times : run[t] # "none"}
Balance == Cardinality(covered) = Cardinality(Rows) + Sum(missed, Times) + Sum(skipped, Keys)

AccountInv == "clock" \in hits \/ (Passed /\ (DueLimit < Last \/ Balance))

\* The property is the balance.
LEMMA AccountMeans == AccountInv => OccurrencesAccounted
BY DEF AccountInv, Balance, Rows, Sum, OccurrencesAccounted

\* A step that accounts for nothing: no row appears or disappears, and the next occurrence
\* stays, or there is none, or it is yet to come.
Uncounted ==
  /\ UNCHANGED <<covered, missed, skipped>> /\ hits \subseteq hits'
  /\ \A t \in Times : run'[t] = "none" <=> run[t] = "none"
  /\ "clock" \in hits' \/ clock' >= clock
  /\ sched'.next \in {sched.next, 0} \/ (clock' = clock /\ sched'.next = clock + 1)

\* Such a step keeps the balance.
LEMMA UncountedKeeps ==
  ASSUME Sound, Sound', AccountInv, Uncounted
  PROVE  AccountInv'
<1>1. Rows' = Rows
  BY DEF Uncounted, Rows
<1>2. Balance => Balance'
  BY <1>1 DEF Balance, Uncounted
<1>3. clock \in Nat /\ clock' \in Nat /\ covered \subseteq Nat /\ sched.next \in Nat
  BY SeriesAssumption DEF Sound, TypeOK, ScheduleRec, Times
<1>4. "clock" \in hits' \/ Passed => "clock" \in hits' \/ Passed'
  BY <1>3 DEF Passed, Uncounted
<1> QED
  BY <1>2, <1>4 DEF AccountInv, Uncounted

\* Only a claim accounts for anything.
LEMMA ExecUncounted ==
  ASSUME IInv, NEW k \in Keys, Exec(k)
  PROVE  Uncounted
<1>t. /\ Sound /\ KeyInv(k) /\ run \in [Keys -> RunState]
  BY DEF IInv, Sound, TypeOK
<1>1. UNCHANGED <<clock, sched, skipped, missed, covered>>
  BY DEF Exec, executeRun, Look, reblock, retryMessageRun, Attempt, Refuse, Intent, Prompt, Result,
     settleAttempt, recoverRuns, Execute
<1>2. hits \subseteq hits'
  <2>1. Prompt(k) => hits' = hits \/ \E kind : Disturb(kind)
    BY DEF Prompt
  <2>2. Refuse(k) \/ Result(k) \/ settleAttempt(k) => hits' = hits \/ \E kind : Disturb(kind)
    BY DEF Refuse, Result, settleAttempt
  <2>3. Look(k) \/ reblock(k) \/ retryMessageRun(k) \/ Attempt(k) \/ Intent(k) \/ recoverRuns(k)
          => hits' = hits
    BY DEF Look, reblock, retryMessageRun, Attempt, Intent, recoverRuns
  <2> QED
    BY <2>1, <2>2, <2>3 DEF Exec, executeRun, Disturb
<1>3. run'[k] = "none" <=> run[k] = "none"
  <2>1. created # "none"
    BY DEF created
  <2>2. CASE Look(k) \/ Refuse(k) \/ Intent(k) \/ Prompt(k) \/ Result(k)
    BY <2>2 DEF Look, Refuse, Intent, Prompt, Result
  <2>3. CASE reblock(k) \/ retryMessageRun(k) \/ Attempt(k)
    BY <1>t, <2>1, <2>3 DEF reblock, retryMessageRun, Attempt, stillRetryable, Create, Retryable
  <2>4. CASE settleAttempt(k) \/ recoverRuns(k)
    <3>1. run' = run \/ (run[k] = "dispatching" /\ \E b \in BOOLEAN : classifyAttempt(k, b))
      BY <2>4 DEF settleAttempt, recoverRuns
    <3>2. \A b \in BOOLEAN : classified(k, b) # "none"
      BY <1>t, KeyTypes DEF classified, KeyInv, RowInv, DispatchStatus
    <3> QED
      BY <1>t, <3>1, <3>2 DEF classifyAttempt
  <2> QED
    BY <2>2, <2>3, <2>4 DEF Exec, executeRun
<1>4. OthersStay(k)
  BY <1>t, ExecFrame
<1>5. \A t \in Times : run'[t] = "none" <=> run[t] = "none"
  BY <1>3, <1>4 DEF OthersStay, Keys
<1>6. clock \in Nat
  BY <1>t DEF Sound, TypeOK
<1> QED
  BY <1>1, <1>2, <1>5, <1>6 DEF Uncounted

\* Neither do the clock, the target, a crash and what ends a dispatch from outside.
LEMMA OthersUncounted ==
  ASSUME IInv, Quiet \/ Outside \/ Crash \/ UNCHANGED vars
  PROVE  Uncounted
<1>t. clock \in Nat /\ run \in [Keys -> RunState]
  BY DEF IInv, Sound, TypeOK
<1>1. UNCHANGED <<sched, missed, skipped, covered>> /\ hits \subseteq hits'
  BY DEF Quiet, Tick, StepBack, TargetDown, TargetUp, Readopt, Outside, TargetGone, Observed, Settles,
     Fail, Resolve, Ends, Crash, Disturb, vars, execVars, pastVars
<1>2. "clock" \in hits' \/ clock' >= clock
  <2>1. CASE Quiet
    BY <1>t, <2>1 DEF Quiet, Tick, StepBack, TargetDown, TargetUp, Readopt, Disturb
  <2>2. CASE Outside \/ Crash \/ UNCHANGED vars
    <3>1. clock' = clock
      BY <2>2 DEF Outside, TargetGone, Observed, Settles, Fail, Resolve, Ends, Crash, vars
    <3> QED
      BY <1>t, <3>1
  <2> QED
    BY <2>1, <2>2
<1>3. run' = run \/ \E ks \in SUBSET Keys, status \in {"settled", "failed"} : End(ks, status)
  <2>1. CASE Quiet \/ Crash \/ UNCHANGED vars
    BY <2>1 DEF Quiet, Tick, StepBack, TargetDown, TargetUp, Readopt, Crash, vars
  <2>2. CASE TargetGone
    BY <2>2 DEF TargetGone, Ends
  <2>3. ASSUME NEW k \in Keys, Observed(k) \/ Settles(k) \/ Fail(k)
        PROVE  run' = run \/ \E status \in {"settled", "failed"} : End({k}, status)
    BY <2>3 DEF Observed, Settles, Fail, Ends
  <2>4. ASSUME NEW k \in Keys, NEW verdict \in {"completed", "failed"}, Resolve(k, verdict)
        PROVE  run' = run \/ End({k}, "failed")
    BY <2>4 DEF Resolve
  <2> QED
    BY <2>1, <2>2, <2>3, <2>4 DEF Outside
<1>4. \A t \in Times : run'[t] = "none" <=> run[t] = "none"
  BY <1>t, <1>3 DEF End, synced, Keys
<1> QED
  BY <1>1, <1>2, <1>4 DEF Uncounted

\* Neither do the commands, nor a claim that finds the schedule invalid.
LEMMA CommandsUncounted ==
  ASSUME IInv, Claims, ~claimDue
  PROVE  Uncounted
<1>t. /\ clock \in Nat /\ run \in [Keys -> RunState] /\ sched \in ScheduleRec /\ sched.next \in Nat
      /\ Last \in Nat
  BY SeriesAssumption DEF IInv, Sound, TypeOK, ScheduleRec
<1>1. UNCHANGED <<clock, missed, skipped, covered>> /\ hits \subseteq hits'
  BY DEF Claims, claimInvalid, Enable, Disable, Remove, scheduleManualRun, Mutate, Disturb, pastVars
<1>2. \A t \in Times : run'[t] = "none" <=> run[t] = "none"
  <2>1. ASSUME NEW m \in Manual, scheduleManualRun(m)
        PROVE  \A t \in Times : run'[t] = run[t]
    BY <1>t, <2>1, ManualAssumption DEF scheduleManualRun, Create, Keys, Times
  <2>2. claimInvalid \/ Enable \/ Disable \/ Remove => run' = run \/ run' = cancelOutstanding(run)
    BY DEF claimInvalid, Enable, Disable, Remove, cleared
  <2>3. \A t \in Times : cancelOutstanding(run)[t] = "none" <=> run[t] = "none"
    BY <1>t DEF cancelOutstanding, Retryable, Keys
  <2> QED
    BY <2>1, <2>2, <2>3 DEF Claims
<1>3. sched'.next \in {sched.next, 0, clock + 1}
  <2>1. CASE Enable
    <3> DEFINE on == [sched EXCEPT !.enabled = TRUE]
    <3>1. on \in ScheduleRec /\ on.next = sched.next /\ sched' = advanced(on)
      BY <1>t, <2>1, ScheduleStarts DEF Enable
    <3>2. Next1(clock) \in {0, clock + 1} /\ Next1(clock) \in Nat
      BY <1>t DEF Next1
    <3>3. advanced(on).next \in {on.next, Next1(clock)}
      <4> HIDE DEF on
      <4> QED
        BY <3>1 DEF advanced, ScheduleRec
    <3> QED
      BY <3>1, <3>2, <3>3
  <2>2. CASE claimInvalid \/ Disable \/ Remove
    BY <1>t, <2>2 DEF claimInvalid, Disable, Remove, ScheduleRec
  <2>3. CASE \E m \in Manual : scheduleManualRun(m)
    BY <2>3 DEF scheduleManualRun
  <2> QED
    BY <2>1, <2>2, <2>3 DEF Claims
<1> QED
  BY <1>t, <1>1, <1>2, <1>3 DEF Uncounted

\* Adding to one of the numbers adds to the sum.
LEMMA SumAdds ==
  ASSUME NEW S, IsFiniteSet(S), NEW f \in [S -> Nat], NEW x \in S, NEW n \in Nat,
         NEW g \in [S -> Nat], g[x] = f[x] + n, \A y \in S \ {x} : g[y] = f[y]
  PROVE  Sum(g, S) = Sum(f, S) + n
<1>1. Sum(g, S) \in Nat /\ Sum(f, S) \in Nat /\ f[x] \in Nat
  BY SumType
<1>2. Sum(g, S) + f[x] = Sum(f, S) + g[x]
  BY SumChanges
<1> QED
  BY <1>1, <1>2

\* A claim accounts for what it passes by: all but one are missed, and the latest has a row or
\* is skipped, unless the policy lets all of them be missed.
LEMMA ClaimCounts ==
  ASSUME IInv, IsFiniteSet(Manual), AccountInv, claimDue
  PROVE  AccountInv'
<1>t. /\ clock \in Nat /\ sched \in ScheduleRec /\ sched.next \in Nat /\ sched.next <= Last
      /\ Last \in Nat \ {0} /\ DueLimit \in Nat \ {0} /\ run \in [Keys -> RunState]
      /\ missed \in [Times -> Nat] /\ skipped \in [Keys -> Nat] /\ covered \subseteq Times
  BY SeriesAssumption DEF IInv, Sound, TypeOK, ScheduleRec
<1> SUFFICES ASSUME "clock" \notin hits, Passed, DueLimit < Last \/ Balance
             PROVE  Passed' /\ (DueLimit < Last \/ Balance')
  BY DEF AccountInv, claimDue
<1> DEFINE first == sched.next
           latest == IF clock < Last THEN clock ELSE Last
           all == latest - first + 1
           count == IF all > DueLimit THEN DueLimit ELSE all
           fire == sched.missed # "skip" \/ clock - latest <= Grace
           rs == cleared(sched)
           n == missedNow(count, fire, first)
<1>1. /\ first \in Times /\ latest \in Times /\ first <= latest /\ latest <= clock
      /\ latest \in Keys /\ all \in Nat \ {0} /\ count \in Nat \ {0}
  BY <1>t DEF claimDue, Times, Keys
<1>2. /\ covered' = covered \cup (first..latest) /\ clock' = clock /\ hits' = hits
      /\ missed' = [missed EXCEPT ![first] = @ + n]
      /\ sched'.next \in {0, clock + 1}
  <2>1. sched' = advanced(sched) /\ sched.enabled
    BY DEF claimDue
  <2>2. sched'.next = Next1(clock)
    BY <1>t, <2>1 DEF advanced, ScheduleRec
  <2> QED
    BY <2>2 DEF claimDue, Next1
<1>3. covered \cap (first..latest) = {} /\ \A t \in first..latest : run[t] = "none" /\ missed[t] = 0
  <2>1. \A t \in covered : t < first
    BY <1>t, <1>1 DEF Passed, Times
  <2> HIDE DEF first, latest
  <2>2. \A t \in first..latest : t \in Times /\ t \notin covered
    BY <1>t, <1>1, <2>1 DEF Times
  <2> QED
    BY <2>2 DEF Passed
<1>4. n = (IF fire THEN count - 1 ELSE count) /\ n \in Nat
  <2>1. first \in first..latest /\ missed[first] = 0
    BY <1>t, <1>1, <1>3 DEF Times
  <2> HIDE DEF first, count, fire
  <2> QED
    BY <1>1, <2>1 DEF missedNow
<1>5. unclaimed(latest)
  <2>1. latest \in first..latest
    BY <1>t, <1>1 DEF Times
  <2> HIDE DEF first, latest
  <2> QED
    BY <1>3, <2>1 DEF unclaimed
<1>6. rs \in [Keys -> RunState] /\ \A t \in Keys : rs[t] = "none" <=> run[t] = "none"
  BY <1>t DEF cleared, cancelOutstanding, Retryable, RunState
<1>7. \/ fire /\ Create(rs, latest) /\ UNCHANGED skipped
      \/ fire /\ run' = rs /\ \E k \in overlapping(rs) : skipped' = [skipped EXCEPT ![k] = @ + 1]
      \/ ~fire /\ run' = rs /\ UNCHANGED skipped
  BY <1>5 DEF claimDue
<1> HIDE DEF first, latest, all, count, fire, rs, n
<1>8. Passed'
  <2>1. ASSUME NEW t \in Times, run'[t] # "none" PROVE t \in covered'
    <3>1. latest \in covered'
      BY <1>t, <1>1, <1>2 DEF Times
    <3>2. t # latest => rs[t] # "none"
      BY <1>6, <1>7, <2>1 DEF Create, Keys
    <3> QED
      BY <1>2, <1>6, <3>1, <3>2 DEF Passed, Keys
  <2>2. \A t \in Times : missed'[t] # 0 => t \in covered'
    BY <1>t, <1>1, <1>2 DEF Passed, Times
  <2>3. \A t \in covered' : t <= clock /\ t \in Nat
    BY <1>t, <1>1, <1>2 DEF Passed, Times
  <2> QED
    BY <1>t, <1>2, <2>1, <2>2, <2>3 DEF Passed
<1>9. ASSUME Balance, DueLimit >= Last PROVE Balance'
  <2>1. count = all
    BY <1>t, <1>1, <1>9 DEF all, count, first, latest, Times
  <2>2. IsFiniteSet(Times) /\ IsFiniteSet(Keys) /\ IsFiniteSet(covered) /\ IsFiniteSet(Rows)
    <3>1. IsFiniteSet(Times)
      BY <1>t, FS_Interval DEF Times
    <3>2. IsFiniteSet(Keys)
      BY <3>1, FS_Union DEF Keys
    <3>3. Rows \subseteq Times
      BY DEF Rows
    <3> QED
      BY <1>t, <3>1, <3>2, <3>3, FS_Subset
  <2>3. Cardinality(covered') = Cardinality(covered) + all
    <3>1. IsFiniteSet(first..latest) /\ Cardinality(first..latest) = all
      BY <1>1, FS_Interval DEF all, Times
    <3>2. Cardinality(covered \cup (first..latest))
            = Cardinality(covered) + Cardinality(first..latest) - Cardinality(covered \cap (first..latest))
      BY <2>2, <3>1, FS_Union
    <3>3. Cardinality(covered \cap (first..latest)) = 0 /\ Cardinality(covered) \in Nat
      BY <1>3, <2>2, FS_EmptySet, FS_CardinalityType
    <3> QED
      BY <1>1, <1>2, <3>1, <3>2, <3>3
  <2>4. Sum(missed', Times) = Sum(missed, Times) + n
    <3>1. PICK f, g : f = missed /\ g = missed'
      OBVIOUS
    <3>2. /\ f \in [Times -> Nat] /\ g \in [Times -> Nat]
          /\ g[first] = f[first] + n /\ \A t \in Times \ {first} : g[t] = f[t]
      BY <1>t, <1>1, <1>2, <1>4, <3>1
    <3>3. Sum(g, Times) = Sum(f, Times) + n
      BY <1>1, <1>4, <2>2, <3>2, SumAdds
    <3> QED
      BY <3>1, <3>3
  <2>5. Sum(missed, Times) \in Nat /\ Sum(skipped, Keys) \in Nat
    BY <1>t, <2>2, SumType
  <2>6. Cardinality(covered) \in Nat /\ Cardinality(Rows) \in Nat
    BY <2>2, FS_CardinalityType
  <2>7. CASE fire /\ Create(rs, latest) /\ UNCHANGED skipped
    <3>1. Rows' = Rows \cup {latest} /\ latest \notin Rows
      BY <1>1, <1>3, <1>6, <2>7 DEF Rows, Create, created, Keys, first, Times
    <3>2. Cardinality(Rows') = Cardinality(Rows) + 1
      BY <2>2, <3>1, FS_AddElement
    <3> QED
      BY <1>1, <1>4, <1>9, <2>1, <2>3, <2>4, <2>5, <2>6, <2>7, <3>2 DEF Balance
  <2>8. CASE fire /\ run' = rs /\ \E k \in overlapping(rs) : skipped' = [skipped EXCEPT ![k] = @ + 1]
    <3>1. Rows' = Rows
      BY <1>6, <2>8 DEF Rows, Keys
    <3>2. Sum(skipped', Keys) = Sum(skipped, Keys) + 1
      <4>1. PICK f, g : f = skipped /\ g = skipped'
        OBVIOUS
      <4>2. /\ f \in [Keys -> Nat] /\ g \in [Keys -> Nat]
            /\ \E k \in Keys : g[k] = f[k] + 1 /\ \A x \in Keys \ {k} : g[x] = f[x]
        BY <1>t, <2>8, <4>1 DEF overlapping, Outstanding
      <4>3. Sum(g, Keys) = Sum(f, Keys) + 1
        BY <2>2, <4>2, SumAdds
      <4> QED
        BY <4>1, <4>3
    <3> QED
      BY <1>1, <1>4, <1>9, <2>1, <2>3, <2>4, <2>5, <2>6, <2>8, <3>1, <3>2 DEF Balance
  <2>9. CASE ~fire /\ run' = rs /\ UNCHANGED skipped
    <3>1. Rows' = Rows
      BY <1>6, <2>9 DEF Rows, Keys
    <3> QED
      BY <1>1, <1>4, <1>9, <2>1, <2>3, <2>4, <2>5, <2>6, <2>9, <3>1 DEF Balance
  <2> QED
    BY <1>7, <2>7, <2>8, <2>9
<1> QED
  BY <1>t, <1>8, <1>9

\* At first nothing is passed by.
LEMMA InitAccount ==
  ASSUME Init, IsFiniteSet(Manual)
  PROVE  AccountInv
<1>1. IsFiniteSet(Times) /\ IsFiniteSet(Keys)
  <2>1. IsFiniteSet(Times)
    BY SeriesAssumption, FS_Interval DEF Times
  <2> QED
    BY <2>1, FS_Union DEF Keys
<1>2. Sum(missed, Times) = 0 /\ Sum(skipped, Keys) = 0
  BY <1>1, SumOfZeros DEF Init
<1>3. covered = {} /\ Rows = {}
  BY DEF Init, Rows, Keys
<1>4. Balance
  BY <1>2, <1>3, FS_EmptySet DEF Balance
<1>5. Passed
  BY DEF Init, Passed, Keys
<1> QED
  BY <1>4, <1>5 DEF AccountInv

\* Every occurrence the series passed by has a row, or counts as missed or as skipped, and
\* counts once, under either policy, through overlaps, restarts and changes of the schedule,
\* unless the clock was set back or the number of those due was capped.
THEOREM EveryOccurrenceCounts ==
  ASSUME IsFiniteSet(Manual)
  PROVE  Spec => []OccurrencesAccounted
<1>1. Init => IInv /\ AccountInv
  BY InitIInv, InitAccount
<1>2. IInv /\ AccountInv /\ [Next]_vars => (IInv /\ AccountInv)'
  <2> SUFFICES ASSUME IInv, AccountInv, [Next]_vars PROVE IInv' /\ AccountInv'
    OBVIOUS
  <2>1. IInv' /\ Sound /\ Sound'
    BY NextKeeps DEF IInv
  <2>2. claimDue \/ Uncounted
    BY StepKinds, ExecUncounted, OthersUncounted, CommandsUncounted
  <2> QED
    BY <2>1, <2>2, ClaimCounts, UncountedKeeps
<1> QED
  BY <1>1, <1>2, AccountMeans, PTL DEF Spec

-----------------------------------------------------------------------------
(* The abstract occurrences.                                               *)

\* The phase of an occurrence depends on its row and on what was submitted for it.
PhaseOf(r, n) == IF r = "none" THEN "none" ELSE IF r \in Final THEN "over"
                 ELSE IF n > 0 THEN "submitted" ELSE "waiting"

\* Phases, occurrence by occurrence.
LEMMA Phases ==
  /\ phase = [k \in Keys |-> PhaseOf(run[k], intents[k])]
  /\ phase' = [k \in Keys |-> PhaseOf(run'[k], intents'[k])]
BY DEF phase, PhaseOf

\* When one occurrence changes, one phase does.
LEMMA OnlyPhase ==
  ASSUME NEW k \in Keys,
         \A x \in Keys : x # k => run'[x] = run[x] /\ intents'[x] = intents[x]
  PROVE  phase' = [phase EXCEPT ![k] = phase'[k]]
<1>1. \A x \in Keys : x # k => phase'[x] = phase[x]
  BY Phases
<1> QED
  BY <1>1, Phases

\* When no phase changes.
LEMMA SamePhase ==
  ASSUME \A x \in Keys : phase'[x] = phase[x]
  PROVE  phase' = phase
BY Phases

\* One occurrence is submitted, or is over; the others stay.
LEMMA OneMoves ==
  ASSUME NEW k \in Keys,
         \A x \in Keys : x # k => run'[x] = run[x] /\ intents'[x] = intents[x],
         \/ phase'[k] = phase[k]
         \/ phase[k] = "waiting" /\ phase'[k] = "submitted"
         \/ phase[k] \in {"waiting", "submitted"} /\ phase'[k] = "over"
  PROVE  Abstract!Next \/ UNCHANGED phase
<1>1. phase' = [phase EXCEPT ![k] = phase'[k]]
  BY OnlyPhase
<1>2. CASE phase'[k] = phase[k]
  BY <1>1, <1>2, SamePhase, Phases
<1>3. CASE phase[k] = "waiting" /\ phase'[k] = "submitted"
  BY <1>1, <1>3 DEF Abstract!Next, Abstract!Submit
<1>4. CASE phase[k] \in {"waiting", "submitted"} /\ phase'[k] = "over"
  BY <1>1, <1>4 DEF Abstract!Next, Abstract!Close
<1> QED
  BY <1>2, <1>3, <1>4

\* A goroutine moves only what is outstanding, and takes no submission back.
LEMMA ExecMoves ==
  ASSUME IInv, NEW k \in Keys, Exec(k)
  PROVE  \/ run'[k] = run[k] /\ intents'[k] = intents[k]
         \/ run[k] \in outstandingRuns /\ intents'[k] >= intents[k] /\ run'[k] # "none"
<1>t. /\ run \in [Keys -> RunState] /\ intents \in [Keys -> Nat] /\ disp[k] \in DispatchStatus
  BY DEF IInv, Sound, TypeOK
<1>k. Sound /\ KeyInv(k)
  BY DEF IInv
<1>1. CASE Look(k) \/ Refuse(k) \/ Prompt(k) \/ Result(k)
  <2>1. UNCHANGED <<run, intents>>
    BY <1>1 DEF Look, Refuse, Prompt, Result
  <2> QED
    BY <2>1
<1>2. CASE reblock(k) \/ retryMessageRun(k) \/ Attempt(k)
  BY <1>2, <1>t DEF reblock, retryMessageRun, Attempt, Create, created, stillRetryable, Retryable,
     outstandingRuns
<1>3. CASE Intent(k)
  BY <1>3, <1>t, <1>k DEF Intent, KeyInv, HandlerInv, Attempting, outstandingRuns
<1>4. ASSUME NEW permanent, run[k] = "dispatching", classifyAttempt(k, permanent), intents' = intents
      PROVE  run[k] \in outstandingRuns /\ intents'[k] >= intents[k] /\ run'[k] # "none"
  <2>1. run'[k] = classified(k, permanent)
    BY <1>4, <1>t DEF classifyAttempt
  <2>2. op[k].linked => disp[k] # "none"
    BY <1>k DEF KeyInv, RowInv
  <2> QED
    BY <1>4, <1>t, <2>1, <2>2 DEF classified, outstandingRuns, DispatchStatus
<1>5. CASE settleAttempt(k) \/ recoverRuns(k)
  BY <1>4, <1>5 DEF settleAttempt, recoverRuns
<1> QED
  BY <1>1, <1>2, <1>3, <1>4, <1>5 DEF Exec, executeRun

\* Execution submits, ends, or stutters.
LEMMA ExecRefines ==
  ASSUME IInv, NEW k \in Keys, Exec(k)
  PROVE  Abstract!Next \/ UNCHANGED phase
<1>1. \A x \in Keys : x # k => run'[x] = run[x] /\ intents'[x] = intents[x]
  BY ExecFrame DEF IInv, OthersStay
<1>2. phase[k] = PhaseOf(run[k], intents[k]) /\ phase'[k] = PhaseOf(run'[k], intents'[k])
  BY Phases
<1>3. CASE run'[k] = run[k] /\ intents'[k] = intents[k]
  BY <1>1, <1>2, <1>3, OneMoves
<1>4. CASE run[k] \in outstandingRuns /\ intents'[k] >= intents[k] /\ run'[k] # "none"
  <2>1. intents[k] \in Nat /\ intents'[k] \in Nat
    BY ExecSound DEF IInv, Sound, TypeOK
  <2>2. phase[k] = IF intents[k] > 0 THEN "submitted" ELSE "waiting"
    BY <1>2, <1>4 DEF PhaseOf, outstandingRuns, Final
  <2>3. phase'[k] \in {"over", "submitted", "waiting"} /\ (intents[k] > 0 => phase'[k] # "waiting")
    BY <1>2, <1>4, <2>1 DEF PhaseOf
  <2> QED
    BY <1>1, <2>2, <2>3, OneMoves
<1> QED
  BY <1>3, <1>4, ExecMoves

\* An ended dispatch ends its occurrence, or stutters.
LEMMA OutsideRefines ==
  ASSUME IInv, Outside
  PROVE  Abstract!Next \/ UNCHANGED phase
<1>i. UNCHANGED intents
  BY DEF Outside, TargetGone, Observed, Settles, Fail, Resolve, Ends, pastVars
<1>1. ASSUME NEW k \in Keys, NEW ks, NEW status \in {"settled", "failed"}, End(ks, status),
             \A x \in Keys : x # k => x \notin ks, disp[k] \in Active
      PROVE  Abstract!Next \/ UNCHANGED phase
  <2>1. \A x \in Keys : x # k => run'[x] = run[x] /\ intents'[x] = intents[x]
    BY <1>i, <1>1, EndRow DEF IInv
  <2>2. run'[k] = run[k] \/ (run[k] \in {"dispatched", "uncertain"} /\ run'[k] = status)
    BY <1>1, EndRow DEF IInv, synced
  <2>3. intents[k] = 1 /\ intents'[k] = 1
    BY <1>i, <1>1 DEF IInv, KeyInv, RowInv, Active
  <2>4. phase[k] = PhaseOf(run[k], 1) /\ phase'[k] = PhaseOf(run'[k], 1)
    BY <2>3, Phases
  <2>5. phase'[k] = phase[k] \/ (phase[k] = "submitted" /\ phase'[k] = "over")
    BY <2>2, <2>4 DEF PhaseOf, Final
  <2> QED
    BY <2>1, <2>5, OneMoves
<1>2. CASE run' = run
  BY <1>2, <1>i, SamePhase, Phases
<1>3. CASE TargetGone
  <2> DEFINE ks == {k \in Keys : disp[k] \in Active}
  <2>1. End(ks, "failed")
    BY <1>3 DEF TargetGone, Ends
  <2>2. CASE ks = {}
    <3>1. \A x \in Keys : run'[x] = run[x]
      BY <2>1, <2>2, EndRow DEF IInv
    <3> QED
      BY <3>1, <1>i, SamePhase, Phases
  <2>3. ASSUME NEW k \in ks PROVE Abstract!Next \/ UNCHANGED phase
    <3>1. \A x \in Keys : x # k => x \notin ks
      BY <2>3 DEF IInv, OneBusy
    <3> QED
      BY <1>1, <2>1, <2>3, <3>1
  <2> QED
    BY <2>2, <2>3
<1>4. ASSUME NEW k \in Keys, Settles(k) \/ Fail(k) PROVE Abstract!Next \/ UNCHANGED phase
  BY <1>1, <1>4 DEF Settles, Fail, Ends
<1>5. ASSUME NEW k \in Keys, NEW verdict \in {"completed", "failed"}, Resolve(k, verdict)
      PROVE  Abstract!Next \/ UNCHANGED phase
  BY <1>1, <1>2, <1>5 DEF Resolve
<1>6. ASSUME NEW k \in Keys, Observed(k) PROVE run' = run
  BY <1>6 DEF Observed
<1> QED
  BY <1>2, <1>3, <1>4, <1>5, <1>6 DEF Outside

\* A claim is a claim that gives up what still waits; a command ends what waits.
LEMMA ClaimsRefine ==
  ASSUME IInv, Claims
  PROVE  Abstract!Next \/ UNCHANGED phase
<1>s. Sound
  BY DEF IInv
<1>r. PICK rs \in Cancelled : Claimed(rs)
  BY <1>s, ClaimsForm
<1>c. \A x \in Keys : \/ rs[x] = run[x]
                      \/ run[x] \in Retryable /\ rs[x] = "cancelled" /\ intents[x] = 0
  BY <1>r DEF Cancelled, cancelOutstanding, IInv, KeyInv, RowInv, Unsent, Retryable
<1>1. CASE run' = rs /\ intents' = intents
  <2>1. CASE \A x \in Keys : rs[x] = run[x]
    BY <1>1, <2>1, SamePhase, Phases
  <2>2. ASSUME NEW k \in Keys, rs[k] # run[k] PROVE Abstract!Next \/ UNCHANGED phase
    <3>1. \A x \in Keys : x # k => run'[x] = run[x] /\ intents'[x] = intents[x]
      BY <1>1, <1>c, <2>2 DEF IInv, OneWaits, Retryable, outstandingRuns
    <3>2. phase[k] = "waiting" /\ phase'[k] = "over"
      BY <1>1, <1>c, <2>2, Phases DEF PhaseOf, Final, Retryable
    <3> QED
      BY <3>1, <3>2, OneMoves
  <2> QED
    BY <2>1, <2>2
<1>2. ASSUME NEW k \in Keys, run[k] = "none", overlapping(rs) = {}, Create(rs, k)
      PROVE  Abstract!Next
  <2> DEFINE W == Abstract!Waiting
  <2>1. \A x \in Keys : x # k => run'[x] = rs[x] /\ intents'[x] = intents[x]
    BY <1>s, <1>r, <1>2, ClaimedRow
  <2>2. (run'[k] \in {"claimed", "blocked"} /\ intents'[k] = 0) \/ run'[k] = "persisted"
    BY <1>s, <1>r, <1>2, ClaimedRow DEF IInv, KeyInv, RowInv, Unsent
  <2>3. phase[k] = "none" /\ phase'[k] \in {"waiting", "over"}
    <3>0. intents[k] \in Nat /\ intents'[k] \in Nat
      BY ClaimsSound DEF IInv, Sound, TypeOK
    <3>1. phase[k] = PhaseOf(run[k], intents[k]) /\ phase'[k] = PhaseOf(run'[k], intents'[k])
      BY Phases
    <3>2. phase[k] = "none"
      BY <1>2, <3>1, <3>0 DEF PhaseOf, Final
    <3>3. phase'[k] \in {"waiting", "over"}
      BY <2>2, <3>1, <3>0 DEF PhaseOf, Final
    <3> QED
      BY <3>2, <3>3
  <2>4. \A x \in Keys : rs[x] \notin outstandingRuns
    BY <1>2 DEF overlapping, Outstanding
  <2>5. ASSUME NEW x \in Keys, x # k
        PROVE  phase'[x] = IF x \in W THEN "over" ELSE phase[x]
    <3>1. phase[x] = PhaseOf(run[x], intents[x]) /\ phase'[x] = PhaseOf(rs[x], intents[x])
      BY <2>1, <2>5, Phases
    <3>2. x \in W <=> phase[x] = "waiting"
      BY DEF Abstract!Waiting
    <3>3. CASE rs[x] = run[x]
      <4>1. run[x] \notin outstandingRuns
        BY <2>4, <3>3
      <4>2. phase[x] # "waiting"
        <5>1. run[x] \in RunState /\ KeyInv(x)
          BY <1>s, KeyTypes DEF IInv
        <5> QED
          BY <3>1, <4>1, <5>1 DEF PhaseOf, RunState, outstandingRuns, Final, KeyInv, RowInv
      <4> QED
        BY <3>1, <3>2, <3>3, <4>2
    <3>4. CASE run[x] \in Retryable /\ rs[x] = "cancelled" /\ intents[x] = 0
      BY <3>1, <3>2, <3>4 DEF PhaseOf, Final, Retryable
    <3> QED
      BY <1>c, <3>3, <3>4
  <2>6. phase' = [x \in Keys |-> IF x = k THEN phase'[k] ELSE IF x \in W THEN "over" ELSE phase[x]]
    BY <2>5, Phases
  <2> HIDE DEF W
  <2>7. Abstract!Claim(k, W)
    BY <2>3, <2>6 DEF Abstract!Claim, W
  <2> QED
    BY <2>7 DEF Abstract!Next, W
<1> QED
  BY <1>r, <1>1, <1>2 DEF Claimed

\* Every step is a step of the abstract occurrences, or none.
LEMMA StepRefines ==
  ASSUME IInv, [Next]_vars
  PROVE  Abstract!Next \/ UNCHANGED phase
<1>1. CASE Quiet \/ Crash \/ UNCHANGED vars
  <2>1. UNCHANGED <<run, intents>>
    BY <1>1 DEF Quiet, Tick, StepBack, TargetDown, TargetUp, Readopt, Crash, pastVars, vars
  <2> QED
    BY <2>1, SamePhase, Phases
<1> QED
  BY <1>1, StepKinds, ClaimsRefine, ExecRefines, OutsideRefines

\* The occurrences of a schedule behave as their abstract specification says: one waits at a
\* time, each is submitted once or given up, and what is over never waits again.
THEOREM Refinement == Spec => ImplementsOccurrences
<1>1. Init => Abstract!Init
  <2>1. ASSUME Init, NEW k \in Keys PROVE PhaseOf(run[k], intents[k]) = "none"
    BY <2>1 DEF Init, PhaseOf, Final
  <2> QED
    BY <2>1, Phases DEF Abstract!Init
<1>2. IInv /\ [Next]_vars => [Abstract!Next]_phase
  BY StepRefines
<1> QED
  BY <1>1, <1>2, Invariance, PTL DEF Spec, ImplementsOccurrences, Abstract!Spec

-----------------------------------------------------------------------------
(* The arithmetic of "@every" (the module Intervals).                       *)

\* Division leaves a remainder smaller than the divisor.
LEMMA Division ==
  ASSUME NEW a \in Int, NEW b \in Nat \ {0}
  PROVE  /\ a \div b \in Int /\ a % b \in Int
         /\ a = b * (a \div b) + (a % b) /\ 0 <= a % b /\ a % b < b
  BY SMT

\* Multiples of a positive number keep the order of their factors.
LEMMA Multiples ==
  ASSUME NEW b \in Nat \ {0}, NEW m \in Int, NEW n \in Int
  PROVE  /\ m * b \in Int
         /\ m <= n => m * b <= n * b
         /\ m < n => m * b + b <= n * b
<1>1. m * b \in Int /\ n * b \in Int /\ (n - m) * b = n * b - m * b
  BY SMT
<1>2. n - m >= 0 => (n - m) * b >= 0
  BY SMT
<1>3. n - m >= 1 => (n - m) * b >= b
  <2>1. n - m >= 1 => (n - m - 1) * b >= 0 /\ (n - m - 1) * b = (n - m) * b - b
    BY SMT
  <2> QED
    BY <1>1, <2>1, SMT
<1> QED
  BY <1>1, <1>2, <1>3, SMT

\* A quotient that is not negative, and what it leaves of the distance.
LEMMA Quotient ==
  ASSUME NEW a \in Nat, NEW b \in Nat \ {0}
  PROVE  /\ a \div b \in Nat /\ (a \div b) * b <= a /\ a < (a \div b) * b + b
<1>1. /\ a \div b \in Int /\ a % b \in Int
      /\ a = b * (a \div b) + (a % b) /\ 0 <= a % b /\ a % b < b
  BY Division
<1>2. (a \div b) * b = b * (a \div b) /\ (a \div b) * b \in Int
  BY <1>1, SMT
<1>3. a \div b >= 0
  <2>1. a \div b < 0 => (a \div b) * b + b <= 0 * b
    BY <1>1, Multiples
  <2> QED
    BY <1>1, <1>2, <2>1, SMT
<1> QED
  BY <1>1, <1>2, <1>3, SMT

\* nextEvery returns the first occurrence strictly after the time given, unless it
\* reports an error.
THEOREM NextIsFirst ==
  ASSUME NEW anchor \in Int, NEW after \in Int, NEW every \in Nat \ {0},
         nextEvery(after, anchor, every) # Error
  PROVE  LET t == nextEvery(after, anchor, every)
         IN /\ t > after
            /\ \E n \in Nat : t = Occurrence(n, anchor, every)
            /\ \A n \in Nat : Occurrence(n, anchor, every) > after => t <= Occurrence(n, anchor, every)
<1> DEFINE t == nextEvery(after, anchor, every)
<1>1. CASE after < anchor
  <2>1. t = anchor
    BY <1>1 DEF nextEvery
  <2>2. \A n \in Nat : 0 * every <= n * every /\ n * every \in Int /\ 0 * every = 0
    BY Multiples, SMT
  <2> QED
    BY <1>1, <2>1, <2>2 DEF Occurrence
<1>2. CASE ~(after < anchor)
  <2> DEFINE q == (after - anchor) \div every
  <2>1. t = anchor + (q + 1) * every
    BY <1>2 DEF nextEvery
  <2>2. q \in Nat /\ q * every <= after - anchor /\ after - anchor < q * every + every
    <3>1. after - anchor \in Nat
      BY <1>2
    <3> QED
      BY <3>1, Quotient
  <2>3. (q + 1) * every = q * every + every /\ q * every \in Int
    BY <2>2, SMT
  <2> HIDE DEF t, q
  <2>4. \A n \in Nat : Occurrence(n, anchor, every) > after => t <= Occurrence(n, anchor, every)
    <3> TAKE n \in Nat
    <3>1. n < q + 1 => n * every <= q * every
      BY <2>2, Multiples
    <3>2. ~(n < q + 1) => (q + 1) * every <= n * every
      BY <2>2, Multiples
    <3>3. n * every \in Int
      BY Multiples
    <3> QED
      BY <2>1, <2>2, <2>3, <3>1, <3>2, <3>3 DEF Occurrence
  <2>5. t > after
    BY <2>1, <2>2, <2>3
  <2>6. \E n \in Nat : t = Occurrence(n, anchor, every)
    BY <2>1, <2>2 DEF Occurrence
  <2> QED
    BY <2>4, <2>5, <2>6 DEF t
<1> QED
  BY <1>1, <1>2

\* No product that nextEvery computes exceeds the width of a duration.
THEOREM NextFits ==
  ASSUME NEW anchor \in Int, NEW after \in Int, NEW every \in Nat \ {0}, MaxDuration \in Nat,
         anchor <= after, nextEvery(after, anchor, every) # Error
  PROVE  nextEvery(after, anchor, every) - anchor <= MaxDuration
<1> DEFINE n == (after - anchor) \div every + 1
<1>1. nextEvery(after, anchor, every) = anchor + n * every /\ ~(n > MaxDuration \div every)
  BY DEF nextEvery
<1>2. n \in Int
  BY Division
<1>3. MaxDuration \div every \in Nat /\ (MaxDuration \div every) * every <= MaxDuration
  BY Quotient
<1> HIDE DEF n
<1>4. n * every <= (MaxDuration \div every) * every /\ n * every \in Int
  BY <1>1, <1>2, <1>3, Multiples
<1> QED
  BY <1>1, <1>3, <1>4, SMT

\* The first interval that ends at or after a distance is the least such one.
LEMMA FirstIndexIsLeast ==
  ASSUME NEW lo \in Nat, NEW every \in Nat \ {0}
  PROVE  /\ firstIndex(lo, every) \in Nat
         /\ \A n \in Nat : n >= firstIndex(lo, every) <=> n * every >= lo
<1> DEFINE q == lo \div every
           f == firstIndex(lo, every)
<1>1. q \in Nat /\ q * every <= lo /\ lo < q * every + every
  BY Quotient
<1>2. lo % every \in Int /\ lo = every * q + (lo % every) /\ 0 <= lo % every
  BY Division
<1>3. q * every \in Int /\ every * q = q * every
  BY <1>1, SMT
<1>4. f = IF lo % every = 0 THEN q ELSE q + 1
  BY <1>1, <1>2 DEF firstIndex
<1> HIDE DEF q, f
<1>5. ASSUME NEW n \in Nat PROVE n >= f <=> n * every >= lo
  <2>1. n * every \in Int /\ (q <= n => q * every <= n * every)
    BY <1>1, Multiples
  <2>2. (n < q => n * every + every <= q * every) /\ (q < n => q * every + every <= n * every)
    BY <1>1, Multiples
  <2>3. n <= q => n * every <= q * every
    BY <1>1, Multiples
  <2> QED
    BY <1>1, <1>2, <1>3, <1>4, <2>1, <2>2, <2>3
<1> QED
  BY <1>1, <1>2, <1>4, <1>5 DEF f

\* Reporting nothing is right when nothing is due.
LEMMA NothingSummarizes ==
  ASSUME NEW anchor, NEW every, NEW limit \in Nat \ {0}
  PROVE  Summarizes(NothingDue, {}, anchor, every, limit)
<1>1. Cardinality({}) = 0
  BY FS_EmptySet
<1>2. (Cardinality({}) > limit) = FALSE
  BY <1>1
<1>3. NothingDue.count = 0 /\ NothingDue.capped = FALSE
  BY DEF NothingDue
<1>4. NothingDue.count = IF Cardinality({}) > limit THEN limit ELSE Cardinality({})
  BY <1>1, <1>2, <1>3
<1>5. NothingDue.capped = (Cardinality({}) > limit)
  BY <1>2, <1>3, Zenon
<1> QED
  BY <1>4, <1>5, Zenon DEF Summarizes

\* What Due reports of an "@every" schedule is what is due: the indices of the
\* occurrences in the span are an interval, it counts them up to the limit, says whether
\* there were more, and names the earliest and the latest of them.
THEOREM DueIsExact ==
  ASSUME NEW anchor \in Int, NEW from \in Int, NEW now \in Int,
         NEW every \in Nat \ {0}, NEW limit \in Nat \ {0},
         dueEvery(from, now, anchor, every, limit) # Error
  PROVE  Summarizes(dueEvery(from, now, anchor, every, limit),
                    DueIndices(from, now, anchor, every), anchor, every, limit)
<1> DEFINE due == dueEvery(from, now, anchor, every, limit)
           D == DueIndices(from, now, anchor, every)
           start == IF from < anchor THEN anchor ELSE from
           first == firstIndex(start - anchor, every)
           last == (now - anchor) \div every
<1>1. CASE from > now \/ now < anchor
  <2>1. due = NothingDue
    BY <1>1 DEF dueEvery
  <2>2. D = {}
    BY <1>1 DEF DueIndices
  <2>3. Cardinality(D) = 0
    BY <2>2, FS_EmptySet
  <2> HIDE DEF due, D
  <2>4. Summarizes(due, D, anchor, every, limit)
    BY <2>1, <2>2, <2>3, NothingSummarizes
  <2> QED
    BY <2>4 DEF due, D
<1>2. CASE ~(from > now \/ now < anchor)
  <2>1. start - anchor \in Nat /\ now - anchor \in Nat
    BY <1>2
  <2>2. /\ first \in Nat
        /\ \A n \in Nat : n >= first <=> n * every >= start - anchor
    BY <2>1, FirstIndexIsLeast
  <2>3. last \in Nat /\ last * every <= now - anchor /\ now - anchor < last * every + every
    BY <2>1, Quotient
  <2>4. \A n \in Nat : n <= last <=> n * every <= now - anchor
    <3> TAKE n \in Nat
    <3>1. n * every \in Int /\ (n <= last => n * every <= last * every)
      BY <2>3, Multiples
    <3>2. last * every \in Int /\ (last < n => last * every + every <= n * every)
      BY <2>3, Multiples
    <3> QED
      BY <2>1, <2>3, <3>1, <3>2
  <2>5. \A n \in Nat : n <= n * every /\ n * every \in Int
    <3> TAKE n \in Nat
    <3>1. n * every = n * (every - 1) + n /\ n * (every - 1) >= 0 /\ n * every \in Int
      BY SMT
    <3> QED
      BY <3>1
  <2>6. due = IF last < first THEN NothingDue
              ELSE [count  |-> IF last - first + 1 > limit THEN limit ELSE last - first + 1,
                    first  |-> anchor + first * every,
                    latest |-> anchor + last * every,
                    capped |-> last - first + 1 > limit]
    BY <1>2 DEF dueEvery
  <2> HIDE DEF first, last, due
  <2>7. D = first..last
    <3>1. ASSUME NEW n \in Nat
          PROVE  Occurrence(n, anchor, every) \in from..now <=> first <= n /\ n <= last
      <4>1. n * every \in Int /\ n * every >= 0
        BY <2>5
      <4>2. first <= n <=> n * every >= start - anchor
        BY <2>2
      <4>3. n <= last <=> n * every <= now - anchor
        BY <2>4
      <4> QED
        BY <4>1, <4>2, <4>3 DEF Occurrence
    <3>2. \A n \in Nat : n <= last => n \in 0..(now - anchor)
      BY <2>1, <2>3, <2>4, <2>5
    <3> QED
      BY <2>1, <2>2, <2>3, <3>1, <3>2 DEF DueIndices
  <2>8. IsFiniteSet(D) /\ Cardinality(D) = IF first > last THEN 0 ELSE last - first + 1
    BY <2>2, <2>3, <2>7, FS_Interval
  <2> HIDE DEF D
  <2>9. ASSUME last < first PROVE Summarizes(due, D, anchor, every, limit)
    <3>1. D = {} /\ due = NothingDue /\ Cardinality(D) = 0
      BY <2>2, <2>3, <2>6, <2>7, <2>8, <2>9
    <3> QED
      BY <3>1, NothingSummarizes
  <2>10. ASSUME ~(last < first) PROVE Summarizes(due, D, anchor, every, limit)
    <3>1. Cardinality(D) = last - first + 1
      BY <2>2, <2>3, <2>8, <2>10
    <3>2. /\ due.count = IF Cardinality(D) > limit THEN limit ELSE Cardinality(D)
          /\ due.capped = (Cardinality(D) > limit)
          /\ due.first = Occurrence(first, anchor, every)
          /\ due.latest = Occurrence(last, anchor, every)
      BY <2>6, <2>10, <3>1 DEF Occurrence
    <3>3. first \in D /\ last \in D /\ \A n \in D : first <= n /\ n <= last
      BY <2>2, <2>3, <2>7, <2>10
    <3> QED
      BY <3>2, <3>3 DEF Summarizes
  <2>11. Summarizes(due, D, anchor, every, limit)
    BY <2>9, <2>10
  <2> QED
    BY <2>11 DEF due, D
<1> QED
  BY <1>1, <1>2
=============================================================================
