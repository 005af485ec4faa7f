--------------------------- MODULE DispatchProofs ---------------------------
(***************************************************************************)
(* Theorems about the dispatch protocol, for every set of requests, every  *)
(* set of disturbances and every bound. First the rows: how a request's    *)
(* handler, its row and its receipt advance, and the abstract settlement   *)
(* they implement. Then the evidence: what a dispatch settles on, and the  *)
(* worker's row that it settles beside.                                    *)
(***************************************************************************)
EXTENDS Dispatch, TLAPS

-----------------------------------------------------------------------------
(* Records: what their fields are, and that an update keeps the type.      *)

LEMMA AgentTypes ==
  ASSUME NEW a \in AgentRec
  PROVE  /\ a.alive \in BOOLEAN /\ a.inc \in Nat /\ a.conv \in Nat /\ a.epoch \in Nat
         /\ a.status \in AgentStatus /\ a.seq \in Nat /\ a.comp \in Nat
         /\ a.inc + 1 \in Nat /\ a.epoch + 1 \in Nat /\ a.seq + 1 \in Nat
  BY DEF AgentRec

LEMMA AgentUpdate ==
  ASSUME NEW a \in AgentRec, NEW s \in AgentStatus, NEW q \in Nat, NEW c \in Nat
  PROVE  [a EXCEPT !.status = s, !.seq = q, !.comp = c] \in AgentRec
  BY DEF AgentRec

LEMMA AgentGone ==
  ASSUME NEW a \in AgentRec, NEW i \in Nat
  PROVE  [a EXCEPT !.alive = FALSE, !.inc = i] \in AgentRec
  BY DEF AgentRec

LEMMA AgentReset ==
  ASSUME NEW a \in AgentRec, NEW e \in Nat
  PROVE  [a EXCEPT !.seq = 0, !.comp = 0, !.epoch = e] \in AgentRec
  BY DEF AgentRec

LEMMA AgentReplaced ==
  ASSUME NEW a \in AgentRec, NEW i \in Nat, NEW v \in Nat, NEW q \in Nat
  PROVE  [a EXCEPT !.inc = i, !.conv = v, !.status = "idle", !.seq = q] \in AgentRec
  BY DEF AgentRec, AgentStatus

LEMMA WorkerTypes ==
  ASSUME NEW a \in WorkerRec
  PROVE  /\ a.attach \in Nat /\ a.inc \in Nat /\ a.conv \in Nat /\ a.epoch \in Nat
         /\ a.state \in WorkerState /\ a.raw \in AgentStatus
         /\ a.seq \in Nat /\ a.comp \in Nat /\ a.held \in BOOLEAN
  BY DEF WorkerRec

LEMMA WorkerUpdate ==
  ASSUME NEW a \in WorkerRec, NEW s \in WorkerState, NEW b \in BOOLEAN
  PROVE  /\ [a EXCEPT !.state = s, !.held = b] \in WorkerRec
         /\ [a EXCEPT !.state = s] \in WorkerRec
  BY DEF WorkerRec

LEMMA DispatchTypes ==
  ASSUME NEW d \in DispatchRec
  PROVE  /\ d.status \in Status /\ d.attach \in Nat /\ d.base \in Nat
         /\ d.baseComp \in Nat /\ d.work \in Nat /\ d.ended \in BOOLEAN
         /\ d.endSeq \in Nat /\ d.report \in {"none", "done", "failed"}
         /\ d.outcome \in Outcome
  BY DEF DispatchRec

LEMMA DispatchUpdate ==
  ASSUME NEW d \in DispatchRec, NEW s \in Status, NEW o \in Outcome,
         NEW r \in {"none", "done", "failed"}, NEW a \in Nat, NEW b \in Nat, NEW c \in Nat,
         NEW x \in BOOLEAN
  PROVE  /\ [d EXCEPT !.status = s, !.outcome = o] \in DispatchRec
         /\ [d EXCEPT !.status = s] \in DispatchRec
         /\ [d EXCEPT !.report = r] \in DispatchRec
         /\ [d EXCEPT !.work = a, !.ended = x, !.endSeq = b] \in DispatchRec
         /\ [d EXCEPT !.status = s, !.attach = a, !.base = b, !.baseComp = c] \in DispatchRec
  BY DEF DispatchRec

LEMMA InitialRecords ==
  /\ NoDispatch \in DispatchRec /\ FirstAgent \in AgentRec /\ FirstWorker \in WorkerRec
  /\ NoSnap \in SnapRec
  BY DEF NoDispatch, DispatchRec, Status, Outcome, FirstAgent, AgentRec, AgentStatus,
     FirstWorker, WorkerRec, WorkerState, NoSnap, SnapRec

SampleRec == [kind: {"off", "event", "refresh", "held"}, attach: Nat, p: AgentRec]
LaneRec == [step: LaneStep, row: WorkerRec]

LEMMA SampleAndLane ==
  /\ NoSample \in SampleRec /\ FreeLane \in LaneRec
  /\ \A x \in SampleRec : x.kind \in {"off", "event", "refresh", "held"}
                          /\ x.attach \in Nat /\ x.p \in AgentRec
  /\ \A l \in LaneRec : l.step \in LaneStep /\ l.row \in WorkerRec
  /\ \A s \in LaneStep, row \in WorkerRec : [step |-> s, row |-> row] \in LaneRec
  BY InitialRecords DEF NoSample, FreeLane, SampleRec, LaneRec, LaneStep

-----------------------------------------------------------------------------
(* Type correctness.                                                       *)

LEMMA TypeInit == Init => TypeOK
<1> SUFFICES ASSUME Init PROVE TypeOK
  OBVIOUS
<1>1. agent \in AgentRec /\ w \in WorkerRec /\ obs \in SampleRec /\ lane \in LaneRec
  <2>1. PICK conv \in Sessions : /\ agent = [FirstAgent EXCEPT !.conv = conv]
                                 /\ w = [FirstWorker EXCEPT !.conv = conv]
    BY DEF Init
  <2>2. conv \in Nat
    BY BoundsAssumption
  <2>3. agent \in AgentRec /\ w \in WorkerRec
    BY <2>1, <2>2, InitialRecords DEF AgentRec, WorkerRec
  <2> QED
    BY <2>3, SampleAndLane DEF Init
<1>2. disp \in [Requests -> DispatchRec] /\ snap \in [Requests -> SnapRec]
  BY InitialRecords DEF Init
<1>3. /\ run \in [Requests -> {"none", "active", "completed"}]
      /\ op \in [Requests -> {"none", "accepted", "completed", "failed", "uncertain"}]
      /\ pc \in [Requests -> {"new", "wait", "probe", "intent", "prompt", "result",
                              "end", "dead"}]
      /\ answer \in [Requests -> {"none", "ok", "refused", "lost"}]
  BY DEF Init
<1>4. /\ landed \in [Requests -> Nat] /\ ownEnded \in [Requests -> BOOLEAN]
      /\ intruded \in [Requests -> BOOLEAN] /\ turnOver \in [Requests -> BOOLEAN]
  BY DEF Init
<1>5. /\ turn \in Requests \cup {Human, None} /\ queue \subseteq Requests
      /\ lastAttach \in Nat /\ ready \in Nat /\ online \in BOOLEAN
      /\ notify \in BOOLEAN /\ faults \in Nat /\ cleared \subseteq Requests
  BY DEF Init
<1> QED
  BY <1>1, <1>2, <1>3, <1>4, <1>5 DEF TypeOK, SampleRec, LaneRec

LEMMA DisturbType == \A kind : TypeOK /\ Disturb(kind) => faults' \in Nat
  BY BoundsAssumption DEF TypeOK, Disturb

LEMMA ChangeType ==
  ASSUME TypeOK, NEW s \in AgentStatus, NEW c \in Nat, Change(s, c)
  PROVE  agent' \in AgentRec
<1>1. agent \in AgentRec
  BY DEF TypeOK
<1>2. agent.seq + 1 \in Nat
  BY <1>1, AgentTypes
<1>3. agent' = [agent EXCEPT !.status = s, !.seq = agent.seq + 1, !.comp = c]
  BY DEF Change
<1> QED
  BY <1>1, <1>2, <1>3, AgentUpdate, Zenon

\* Steps of the agent and of Herdr.
LEMMA TypeAgent == TypeOK /\ Agent => TypeOK'
<1> SUFFICES ASSUME TypeOK, Agent PROVE TypeOK'
  OBVIOUS
<1>a. agent \in AgentRec /\ agent.comp \in Nat /\ agent.seq + 1 \in Nat
      /\ agent.inc + 1 \in Nat /\ agent.epoch + 1 \in Nat /\ agent.conv \in Nat
  BY AgentTypes DEF TypeOK
<1>b. {"idle", "working", "blocked", "unknown"} \subseteq AgentStatus
  BY DEF AgentStatus
<1>1. ASSUME NEW r \in Requests, BeginTurn(r) PROVE TypeOK'
  <2>1. agent' \in AgentRec
    BY <1>1, <1>a, <1>b, ChangeType DEF BeginTurn, Begin
  <2> QED
    BY <1>1, <2>1 DEF BeginTurn, Begin, TypeOK, Change, rowVars, procVars
<1>2. CASE BeginHumanTurn
  <2>1. agent' \in AgentRec
    BY <1>2, <1>a, <1>b, ChangeType DEF BeginHumanTurn, Begin
  <2> QED
    BY <1>2, <2>1, DisturbType DEF BeginHumanTurn, Begin, TypeOK, Change, rowVars, procVars
<1>3. CASE Block
  <2>1. agent' \in AgentRec
    BY <1>3, <1>a, <1>b, ChangeType DEF Block
  <2> QED
    BY <1>3, <2>1, DisturbType DEF Block, TypeOK, Change, rowVars, procVars
<1>4. CASE Obscure
  <2>1. agent' \in AgentRec
    BY <1>4, <1>a, <1>b, ChangeType DEF Obscure
  <2> QED
    BY <1>4, <2>1, DisturbType DEF Obscure, TypeOK, Change, rowVars, procVars
<1>5. CASE Resume
  <2>1. agent' \in AgentRec
    BY <1>5, <1>a, <1>b, ChangeType DEF Resume
  <2> QED
    BY <1>5, <2>1 DEF Resume, TypeOK, Change, rowVars, procVars
<1>6. CASE EndTurn
  <2>1. PICK comp \in {agent.comp, agent.seq + 1} : Change("idle", comp)
    BY <1>6 DEF EndTurn
  <2>2. agent' \in AgentRec
    BY <2>1, <1>a, <1>b, ChangeType
  <2> QED
    BY <1>6, <2>1, <2>2 DEF EndTurn, TypeOK, Change, rowVars, procVars
<1>7. CASE ReplaceAgent
  <2>1. PICK conv \in {agent.conv, agent.inc + 1} :
          agent' = [agent EXCEPT !.inc = agent.inc + 1, !.conv = conv, !.status = "idle",
                                 !.seq = agent.seq + 1]
    BY <1>7 DEF ReplaceAgent
  <2>2. conv \in Nat
    BY <1>a
  <2>3. agent' \in AgentRec
    BY <2>1, <2>2, <1>a, AgentReplaced, Zenon
  <2> QED
    BY <1>7, <2>3, DisturbType DEF ReplaceAgent, TypeOK, rowVars, procVars
<1>8. CASE ClosePane
  <2>1. agent' = [agent EXCEPT !.alive = FALSE, !.inc = agent.inc + 1]
    BY <1>8 DEF ClosePane
  <2>2. agent' \in AgentRec
    BY <2>1, <1>a, AgentGone, Zenon
  <2> QED
    BY <1>8, <2>2, DisturbType DEF ClosePane, TypeOK, rowVars, procVars
<1>9. CASE ResetSequence
  <2>1. agent' = [agent EXCEPT !.seq = 0, !.comp = 0, !.epoch = agent.epoch + 1]
    BY <1>9 DEF ResetSequence
  <2>2. agent' \in AgentRec
    BY <2>1, <1>a, AgentReset, Zenon
  <2>3. Disturb("reset") /\ online' = FALSE /\ notify' = FALSE
    BY <1>9, Zenon DEF ResetSequence
  <2>4. UNCHANGED <<turn, queue, w, lastAttach, ready, obs, rowVars, procVars,
                    lane, landed, ownEnded, intruded, turnOver>>
    BY <1>9 DEF ResetSequence
  <2> QED
    BY <2>2, <2>3, <2>4, DisturbType DEF TypeOK, rowVars, procVars
<1> QED
  BY <1>1, <1>2, <1>3, <1>4, <1>5, <1>6, <1>7, <1>8, <1>9 DEF Agent

\* Steps of the handlers, and the transactions outside every lane.
LEMMA TypeLooks ==
  ASSUME TypeOK, NEW r \in Requests, ResolveLooks(r) \/ ResolveRejected(r)
  PROVE  TypeOK'
<1>1. UNCHANGED <<agentVars, w, lastAttach, ready, online, notify, obs, rowVars, pc, snap,
                 answer, lane, landed>>
  BY DEF ResolveLooks, ResolveRejected
<1>2. faults' \in Nat /\ cleared' \subseteq Requests
  BY DisturbType DEF ResolveLooks, ResolveRejected, TypeOK
<1> QED
  BY <1>1, <1>2 DEF TypeOK, agentVars, rowVars

LEMMA TypeRows ==
  ASSUME TypeOK,
         \/ \E r \in Requests : Accept(r) \/ Handler(r) \/ Fail(r)
         \/ \E r \in Requests, o \in {"done", "failed"} : Done(r, o)
         \/ \E r \in Requests, v \in {"completed", "failed"} : Resolve(r, v)
  PROVE  TypeOK'
<1>a. agent \in AgentRec /\ w \in WorkerRec
  BY DEF TypeOK
<1>b. agent.seq \in Nat /\ agent.comp \in Nat /\ w.attach \in Nat
  BY <1>a, AgentTypes, WorkerTypes
<1>c. \A rs : run' = settleRunTx(rs) => run' \in [Requests -> {"none", "active", "completed"}]
  BY DEF TypeOK, settleRunTx
<1>d. \A d \in DispatchRec : \A s \in {"settled", "failed"} :
        \A o \in Outcome : Finish(d, s, o) \in DispatchRec
  BY DispatchUpdate DEF Finish, Status
<1>e. \A rs : FailOpen(rs) => /\ disp' \in [Requests -> DispatchRec]
                             /\ run' \in [Requests -> {"none", "active", "completed"}]
  BY <1>c, <1>d DEF TypeOK, FailOpen, Outcome
<1>1. ASSUME NEW r \in Requests, Accept(r) PROVE TypeOK'
  BY <1>1 DEF Accept, TypeOK, agentVars
<1>2. ASSUME NEW r \in Requests, TakeLane(r) PROVE TypeOK'
  <2>1. snap' \in [Requests -> SnapRec]
    BY <1>2, <1>b DEF TakeLane, TypeOK, SnapRec
  <2> QED
    BY <1>2, <2>1 DEF TakeLane, TypeOK, agentVars, rowVars
<1>3. ASSUME NEW r \in Requests, Probe(r) PROVE TypeOK'
  <2>1. snap \in [Requests -> SnapRec] /\ snap[r] \in SnapRec
    BY DEF TypeOK
  <2>2. [snap[r] EXCEPT !.seq = agent.seq, !.comp = agent.comp] \in SnapRec
    BY <2>1, <1>b DEF SnapRec
  <2>3. snap' = [snap EXCEPT ![r] = [snap[r] EXCEPT !.seq = agent.seq, !.comp = agent.comp]]
    BY <1>3, Zenon DEF Probe
  <2>4. snap' \in [Requests -> SnapRec]
    BY <2>1, <2>2, <2>3, Zenon
  <2> QED
    BY <1>3, <2>4 DEF Probe, TypeOK, agentVars, rowVars
<1>4. ASSUME NEW r \in Requests, Refuse(r) PROVE TypeOK'
  BY <1>4, InitialRecords DEF Refuse, End, TypeOK, agentVars
<1>5. ASSUME NEW r \in Requests, Intent(r) PROVE TypeOK'
  <2>1. snap[r].attach \in Nat /\ snap[r].seq \in Nat /\ snap[r].comp \in Nat
    BY DEF TypeOK, SnapRec
  <2>2. [NoDispatch EXCEPT !.status = "sending", !.attach = snap[r].attach,
           !.base = snap[r].seq, !.baseComp = snap[r].comp] \in DispatchRec
    BY <2>1 DEF NoDispatch, DispatchRec, Status, Outcome
  <2>3. disp' \in [Requests -> DispatchRec]
    BY <1>5, <2>2 DEF Intent, TypeOK
  <2> QED
    BY <1>5, <2>3, InitialRecords DEF Intent, TypeOK, agentVars
<1>6. ASSUME NEW r \in Requests, Prompt(r) PROVE TypeOK'
  BY <1>6 DEF Prompt, TypeOK, rowVars
<1>7. ASSUME NEW r \in Requests, Result(r) PROVE TypeOK'
  <2>1. disp[r] \in DispatchRec
    BY DEF TypeOK
  <2>2. [disp[r] EXCEPT !.status = "active"] \in DispatchRec
        /\ [disp[r] EXCEPT !.status = "uncertain"] \in DispatchRec
        /\ Finish(disp[r], "failed", "prompt_refused") \in DispatchRec
    BY <2>1, <1>d DEF DispatchRec, Status, Outcome
  <2>3. Delivered(disp[r], answer[r]) \in DispatchRec
    BY <2>1, <2>2 DEF Delivered
  <2>4. disp' \in [Requests -> DispatchRec]
    BY <1>7, <2>3 DEF Result, TypeOK
  <2>5. run' \in [Requests -> {"none", "active", "completed"}]
    BY <1>7, <1>c DEF Result, TypeOK
  <2>6. /\ op' \in [Requests -> {"none", "accepted", "completed", "failed", "uncertain"}]
        /\ pc' \in [Requests -> {"new", "wait", "probe", "intent", "prompt", "result",
                                 "end", "dead"}]
        /\ snap' \in [Requests -> SnapRec]
        /\ answer' \in [Requests -> {"none", "ok", "refused", "lost"}]
    BY <1>7, InitialRecords DEF Result, End, TypeOK
  <2> QED
    BY <1>7, <2>4, <2>5, <2>6 DEF Result, TypeOK, agentVars
<1>8. ASSUME NEW r \in Requests, Fail(r) PROVE TypeOK'
  BY <1>8, <1>e DEF Fail, TypeOK, agentVars, procVars
<1>9. ASSUME NEW r \in Requests, NEW o \in {"done", "failed"}, Done(r, o) PROVE TypeOK'
  <2> DEFINE d == [disp[r] EXCEPT !.report = o]
  <2>1. d \in DispatchRec
    BY DEF TypeOK, DispatchRec
  <2>2. Finish(d, "settled", o) \in DispatchRec
    BY <2>1, <1>d DEF Outcome
  <2> HIDE DEF d
  <2>3. /\ disp' \in [Requests -> DispatchRec]
        /\ run' \in [Requests -> {"none", "active", "completed"}]
    BY <1>9, <2>1, <2>2, <1>c DEF Done, TypeOK, d
  <2> QED
    BY <1>9, <2>3 DEF Done, TypeOK, agentVars, procVars
<1>10. ASSUME NEW r \in Requests, NEW v \in {"completed", "failed"}, Resolve(r, v)
       PROVE  TypeOK'
  <2>1. /\ disp' \in [Requests -> DispatchRec]
        /\ run' \in [Requests -> {"none", "active", "completed"}]
    BY <1>10, <1>e DEF Resolve, TypeOK
  <2> QED
    BY <1>10, <2>1 DEF Resolve, TypeOK, agentVars, procVars
<1> QED
  BY <1>1, <1>2, <1>3, <1>4, <1>5, <1>6, <1>7, <1>8, <1>9, <1>10 DEF Handler

\* What a sample makes of an active dispatch: it stays active or settles with
\* its report and its turn end, and keeps the report.
LEMMA ObservedType ==
  ASSUME NEW d \in DispatchRec, activeDispatch(d), NEW p \in AgentRec
  PROVE  /\ Observed(d, p) \in DispatchRec
         /\ Observed(d, p).report = d.report
         /\ d.ended => Observed(d, p).ended
         /\ \/ /\ Observed(d, p).status = d.status
               /\ Observed(d, p).outcome = d.outcome
            \/ /\ Observed(d, p).status = "settled"
               /\ Observed(d, p).outcome = d.report
               /\ d.report # "none" /\ Observed(d, p).ended
<1> DEFINE working == ~d.ended /\ p.seq > d.base /\ p.status \in {"working", "blocked"}
           ended   == d.ended \/ TurnEnds(d, p)
           work    == IF working THEN p.seq ELSE d.work
           endSeq  == IF ended /\ ~d.ended THEN p.seq ELSE d.endSeq
           seen    == [d EXCEPT !.work = work, !.ended = ended, !.endSeq = endSeq]
<1>1. ended \in BOOLEAN /\ work \in Nat /\ endSeq \in Nat
  BY AgentTypes, DispatchTypes DEF TurnEnds, idle
<1>2. Observed(d, p) = IF ended /\ d.report # "none" /\ idle(p.status)
                       THEN Finish(seen, "settled", d.report) ELSE seen
  BY Zenon DEF Observed
<1>3. d.ended => ended
  OBVIOUS
<1> HIDE DEF ended, work, endSeq
<1>4. /\ seen \in DispatchRec /\ seen.report = d.report /\ seen.ended = ended
      /\ seen.status = d.status /\ seen.outcome = d.outcome
  BY <1>1 DEF DispatchRec
<1> HIDE DEF seen
<1>5. /\ Finish(seen, "settled", d.report).report = seen.report
      /\ Finish(seen, "settled", d.report).ended = seen.ended
      /\ Finish(seen, "settled", d.report).status = "settled"
      /\ Finish(seen, "settled", d.report).outcome = d.report
      /\ Finish(seen, "settled", d.report) \in DispatchRec
  BY <1>4, DispatchTypes DEF Finish, DispatchRec, Status, Outcome
<1> QED
  BY <1>2, <1>3, <1>4, <1>5

\* Steps of the session lane.
LEMMA TypeSession ==
  ASSUME TypeOK,
         \/ SampleEvent \/ Reconnect \/ SampleRefresh \/ SampleHeld \/ EventForgotten
         \/ Apply \/ Disconnected \/ SessionDown
  PROVE  TypeOK'
<1>a. agent \in AgentRec /\ w \in WorkerRec /\ obs \in SampleRec
  BY DEF TypeOK, SampleRec
<1>b. w.attach \in Nat /\ obs.p \in AgentRec /\ NoSample \in SampleRec
  BY <1>a, WorkerTypes, SampleAndLane
<1>c. [w EXCEPT !.state = "offline"] \in WorkerRec
      /\ [w EXCEPT !.state = "offline", !.held = TRUE] \in WorkerRec
      /\ [w EXCEPT !.state = "lost", !.held = FALSE] \in WorkerRec
  BY <1>a, WorkerUpdate DEF WorkerState
<1>d. \A kind \in {"event", "refresh", "held"} : Sample(kind) => obs' \in SampleRec
  BY <1>a, <1>b DEF Sample, SampleRec
<1>1. CASE SampleEvent
  BY <1>1, <1>d DEF SampleEvent, Sample, TypeOK, SampleRec, agentVars, rowVars, procVars
<1>2. CASE Reconnect
  BY <1>2, <1>d DEF Reconnect, Refresh, Sample, TypeOK, SampleRec, agentVars, rowVars, procVars
<1>3. CASE SampleRefresh
  BY <1>3, <1>d, DisturbType DEF SampleRefresh, Refresh, Sample, TypeOK, SampleRec, agentVars,
     rowVars, procVars
<1>4. CASE SampleHeld
  BY <1>4, <1>d DEF SampleHeld, Sample, TypeOK, SampleRec, agentVars, rowVars, procVars
<1>5. CASE EventForgotten
  BY <1>5, DisturbType DEF EventForgotten, TypeOK, agentVars, rowVars, procVars
<1>6. CASE Disconnected \/ SessionDown
  <2>1. Offline /\ faults' \in Nat
    BY <1>6, DisturbType DEF Disconnected, SessionDown, TypeOK
  <2>2. w' \in WorkerRec
    BY <2>1, <1>a, <1>c DEF Offline
  <2> QED
    BY <2>1, <2>2 DEF Offline, TypeOK, agentVars, rowVars, procVars
<1>7. CASE DropSample
  BY <1>7, <1>b DEF DropSample, TypeOK, SampleRec, agentVars, rowVars, procVars
<1>8. CASE Lose
  BY <1>8, <1>b, <1>c DEF Lose, TypeOK, SampleRec, agentVars, rowVars, procVars
<1>9. CASE Unverified
  BY <1>9, <1>b, <1>c, DisturbType DEF Unverified, TypeOK, SampleRec, agentVars, rowVars, procVars
<1>10. CASE Observe
  <2> DEFINE p     == obs.p
             fresh == ~continuous \/ p.seq < w.seq
             hit   == {r \in Requests : /\ activeDispatch(disp[r]) /\ ~fresh
                                       /\ disp[r].attach = w.attach}
             done  == {r \in hit : Observed(disp[r], p).status = "settled"}
  <2>1. w' \in WorkerRec
    <3>1. \A a \in Nat, i \in Nat :
            [attach |-> a, inc |-> i, conv |-> w.conv, epoch |-> p.epoch, state |-> p.status,
             raw |-> p.status, seq |-> p.seq, comp |-> p.comp, held |-> FALSE] \in WorkerRec
      BY <1>a, <1>b, AgentTypes, WorkerTypes DEF WorkerRec, WorkerState
    <3>2. lastAttach + 1 \in Nat /\ w.inc \in Nat /\ agent.inc \in Nat
      BY <1>a, AgentTypes, WorkerTypes DEF TypeOK
    <3> QED
      BY <1>10, <1>b, <3>1, <3>2 DEF Observe
  <2>2. lastAttach' \in Nat /\ ready' \in Nat
    BY <1>10, <1>b DEF Observe, TypeOK
  <2>3. \A d \in DispatchRec : activeDispatch(d) => Observed(d, p) \in DispatchRec
    BY <1>b, ObservedType
  <2>4. disp' \in [Requests -> DispatchRec]
    BY <1>10, <2>3 DEF Observe, TypeOK
  <2>5. run' \in [Requests -> {"none", "active", "completed"}]
    BY <1>10 DEF Observe, settleRunTx, TypeOK
  <2>6. obs' = NoSample /\ UNCHANGED <<agentVars, online, notify, op, procVars, lane, faults, landed>>
    BY <1>10 DEF Observe
  <2> QED
    BY <1>b, <2>1, <2>2, <2>4, <2>5, <2>6 DEF TypeOK, SampleRec, agentVars, procVars
<1> QED
  BY <1>1, <1>2, <1>3, <1>4, <1>5, <1>6, <1>7, <1>8, <1>9, <1>10 DEF Apply

\* Steps of the lifecycle operations and the crash.
LEMMA TypeLane ==
  ASSUME TypeOK, RetainRead \/ ReleaseRead \/ AdoptRead \/ Finishing \/ Crash
  PROVE  TypeOK'
<1>a. agent \in AgentRec /\ w \in WorkerRec /\ lane \in LaneRec /\ lane.row \in WorkerRec
  BY SampleAndLane DEF TypeOK, LaneRec
<1>b. \A s \in LaneStep, row \in WorkerRec : Hold(s, row) => lane' \in LaneRec
  BY SampleAndLane DEF Hold
<1>c. [w EXCEPT !.state = "released", !.held = FALSE] \in WorkerRec
      /\ [lane.row EXCEPT !.state = "released", !.held = FALSE] \in WorkerRec
      /\ [lane.row EXCEPT !.state = "offline"] \in WorkerRec
  BY <1>a, WorkerUpdate DEF WorkerState
<1>d. \A d \in DispatchRec : Finish(d, "failed", "reason") \in DispatchRec
  BY DispatchUpdate DEF Finish, Status, Outcome
<1>e. FailOpen(Requests) => /\ disp' \in [Requests -> DispatchRec]
                            /\ run' \in [Requests -> {"none", "active", "completed"}]
  BY <1>d DEF TypeOK, FailOpen, settleRunTx
<1>f. FreeLane \in LaneRec /\ {"retain", "release", "closed", "unclosed", "adopt"} \subseteq LaneStep
  BY SampleAndLane DEF LaneStep
<1>1. CASE RetainRead
  BY <1>1, <1>a, <1>b, <1>f, DisturbType DEF RetainRead, Lifecycle, TypeOK, LaneRec, agentVars,
     procVars
<1>2. CASE RetainWrite
  BY <1>2, <1>a, <1>f DEF RetainWrite, Lifecycle, TypeOK, LaneRec, agentVars, procVars
<1>3. CASE ReleaseRead
  BY <1>3, <1>a, <1>b, <1>f, DisturbType DEF ReleaseRead, Lifecycle, TypeOK, LaneRec, agentVars,
     procVars
<1>4. CASE ReleaseClose
  <2>1. [agent EXCEPT !.alive = FALSE, !.inc = agent.inc + 1] \in AgentRec
    BY <1>a, AgentTypes, AgentGone, Zenon
  <2>2. agent' \in AgentRec /\ lane' \in LaneRec /\ notify' \in BOOLEAN
        /\ turn' \in Requests \cup {Human, None} /\ queue' \subseteq Requests
    BY <1>4, <2>1, <1>a, <1>b, <1>f DEF ReleaseClose, TypeOK
  <2> QED
    BY <1>4, <2>2 DEF ReleaseClose, TypeOK, LaneRec, rowVars, procVars
<1>5. CASE Released
  BY <1>5, <1>c, <1>e, <1>f DEF Released, Lifecycle, TypeOK, LaneRec, agentVars, procVars
<1>6. CASE CleanupUncertain
  BY <1>6, <1>c, <1>f DEF CleanupUncertain, Lifecycle, TypeOK, LaneRec, agentVars, procVars
<1>7. CASE RetireAbsent
  BY <1>7, <1>c, <1>e, <1>f DEF RetireAbsent, Lifecycle, TypeOK, LaneRec, agentVars, procVars
<1>8. CASE AdoptRead
  <2>1. [attach |-> lastAttach + 1, inc |-> agent.inc, conv |-> agent.conv,
         epoch |-> agent.epoch, state |-> agent.status, raw |-> agent.status,
         seq |-> agent.seq, comp |-> agent.comp, held |-> FALSE] \in WorkerRec
    BY <1>a, AgentTypes DEF TypeOK, WorkerRec, WorkerState
  <2>2. lane' \in LaneRec /\ lastAttach' \in Nat
    BY <1>8, <2>1, <1>b, <1>f DEF AdoptRead, TypeOK
  <2> QED
    BY <1>8, <2>2, DisturbType DEF AdoptRead, Lifecycle, TypeOK, LaneRec, agentVars, procVars
<1>9. CASE AdoptWrite
  BY <1>9, <1>a, <1>e, <1>f DEF AdoptWrite, Lifecycle, TypeOK, LaneRec, agentVars, procVars
<1>10. CASE LifecycleRefused
  BY <1>10, <1>f DEF LifecycleRefused, Lifecycle, TypeOK, LaneRec, agentVars, procVars
<1>11. CASE Crash
  <2>1. obs' \in SampleRec /\ lane' \in LaneRec /\ snap' \in [Requests -> SnapRec]
        /\ faults' \in Nat
    BY <1>11, <1>f, SampleAndLane, InitialRecords, DisturbType DEF Crash
  <2> QED
    BY <1>11, <2>1 DEF Crash, TypeOK, SampleRec, LaneRec, agentVars, rowVars
<1> QED
  BY <1>1, <1>2, <1>3, <1>4, <1>5, <1>6, <1>7, <1>8, <1>9, <1>10, <1>11 DEF Finishing

LEMMA TypeStep == TypeOK /\ [Next]_vars => TypeOK'
<1> SUFFICES ASSUME TypeOK, [Next]_vars PROVE TypeOK'
  OBVIOUS
<1>1. CASE UNCHANGED vars
  BY <1>1 DEF TypeOK, vars
<1>2. CASE Next
  BY <1>2, TypeAgent, TypeLooks, TypeRows, TypeSession, TypeLane DEF Next
<1> QED
  BY <1>1, <1>2

\* Every variable keeps its type, whatever the sets and the bounds are.
THEOREM TypeCorrect == Spec => []TypeOK
  BY TypeInit, TypeStep, PTL DEF Spec

-----------------------------------------------------------------------------
(* The inductive invariant. The safety properties are not inductive: that  *)
(* a handler in flight is the only one to touch its receipt, and what its  *)
(* dispatch row and the pane can look like at each of its steps, has to be *)
(* carried along.                                                          *)

\* No resolution overtakes its request.
Undisturbed == "overtake" \notin Kinds

HandlerInv(r) ==
  /\ op[r] = "none" => pc[r] = "new"
  /\ pc[r] = "new" => disp[r].status = "none" /\ landed[r] = 0
  /\ pc[r] \in {"wait", "probe", "intent"} =>
       disp[r].status = "none" /\ landed[r] = 0
  /\ pc[r] \in {"prompt", "result"} =>
       /\ disp[r].status \in {"sending", "settled", "failed"}
       /\ disp[r].outcome # "prompt_refused"
  /\ pc[r] = "prompt" => landed[r] = 0
  /\ pc[r] = "result" => answer[r] \in {"ok", "lost", "refused"}
  /\ pc[r] = "result" /\ answer[r] = "refused" => landed[r] = 0
  /\ landed[r] <= 1
  /\ disp[r].status = "none" => disp[r] = NoDispatch
  /\ landed[r] > 0 => disp[r].status # "none" /\ disp[r].outcome # "prompt_refused"
  /\ Undisturbed => /\ inFlight(r) => op[r] = "accepted"
                    /\ op[r] = "failed" => ~activeDispatch(disp[r])
  /\ r \in Implicit => run[r] = CASE disp[r].status = "none" -> "none"
                                   [] activeDispatch(disp[r]) -> "active"
                                   [] OTHER -> "completed"

IInv == /\ TypeOK /\ OneActiveDispatch /\ \A r \in Requests : HandlerInv(r)
        /\ Undisturbed => cleared = {}

\* How a step outside the handlers may change a row that is active: more
\* evidence and perhaps settlement, or failure.
Advance(d, e) ==
  /\ d.report # "none" => e.report # "none"
  /\ d.ended => e.ended
  /\ \/ e.status = d.status /\ e.outcome = d.outcome
     \/ /\ e.status = "settled" /\ e.outcome \in {"done", "failed"}
        /\ e.report # "none" /\ e.ended
GivenUp(d, e) == /\ e.status = "failed" /\ e.outcome = "reason"
                 /\ e.report = d.report /\ e.ended = d.ended
RowMove(r) ==
  \/ disp'[r] = disp[r] /\ run'[r] = run[r]
  \/ /\ activeDispatch(disp[r])
     /\ Advance(disp[r], disp'[r]) \/ GivenUp(disp[r], disp'[r])
     /\ run'[r] = IF r \in Implicit /\ ~activeDispatch(disp'[r]) THEN "completed" ELSE run[r]

\* A receipt may change by resolution, which without an overtaking one finds no
\* handler in flight and leaves no active dispatch behind a failure.
ReceiptMove(r) ==
  \/ op'[r] = op[r]
  \/ /\ op[r] # "none" /\ op'[r] # "none"
     /\ Undisturbed => /\ ~inFlight(r)
                       /\ op'[r] = "failed" => ~activeDispatch(disp'[r])

\* Only an overtaking resolution is remembered before its request came.
Calm == Undisturbed => cleared' \subseteq cleared

LEMMA MoveFailOpen ==
  ASSUME TypeOK, NEW rs, FailOpen(rs), NEW r \in Requests
  PROVE  RowMove(r) /\ (r \in rs => ~activeDispatch(disp'[r]))
<1>1. disp[r] \in DispatchRec
  BY DEF TypeOK
<1>2. /\ Finish(disp[r], "failed", "reason").status = "failed"
      /\ Finish(disp[r], "failed", "reason").outcome = "reason"
      /\ Finish(disp[r], "failed", "reason").report = disp[r].report
      /\ Finish(disp[r], "failed", "reason").ended = disp[r].ended
  BY <1>1 DEF Finish, DispatchRec
<1>3. disp'[r] = IF r \in rs /\ activeDispatch(disp[r])
                 THEN Finish(disp[r], "failed", "reason") ELSE disp[r]
  BY DEF FailOpen
<1>4. run'[r] = IF r \in rs /\ activeDispatch(disp[r]) /\ r \in Implicit
                THEN "completed" ELSE run[r]
  BY DEF FailOpen, settleRunTx
<1> QED
  BY <1>2, <1>3, <1>4 DEF RowMove, GivenUp, activeDispatch

LEMMA MoveDone ==
  ASSUME TypeOK, NEW x \in Requests, NEW o \in {"done", "failed"}, Done(x, o),
         NEW r \in Requests
  PROVE  RowMove(r)
<1> DEFINE d == [disp[x] EXCEPT !.report = o]
<1>1. disp[x] \in DispatchRec /\ disp \in [Requests -> DispatchRec]
      /\ run \in [Requests -> {"none", "active", "completed"}]
  BY DEF TypeOK
<1>2. /\ d.report = o /\ d.ended = disp[x].ended /\ d.status = disp[x].status
      /\ d.outcome = disp[x].outcome /\ d \in DispatchRec
  BY <1>1 DEF DispatchRec
<1> HIDE DEF d
<1>3. /\ Finish(d, "settled", o).report = o /\ Finish(d, "settled", o).ended = d.ended
      /\ Finish(d, "settled", o).status = "settled" /\ Finish(d, "settled", o).outcome = o
  BY <1>2 DEF Finish, DispatchRec
<1>4. activeDispatch(disp[x])
  BY DEF Done
<1>5. CASE TurnEndStands(d)
  <2>1. disp' = [disp EXCEPT ![x] = Finish(d, "settled", o)] /\ run' = settleRunTx({x})
    BY <1>5 DEF Done, d
  <2>2. d.ended
    BY <1>5 DEF TurnEndStands
  <2> QED
    BY <1>1, <1>2, <1>3, <1>4, <2>1, <2>2 DEF RowMove, Advance, settleRunTx, activeDispatch
<1>6. CASE ~TurnEndStands(d)
  <2>1. disp' = [disp EXCEPT ![x] = d] /\ run' = run
    BY <1>6 DEF Done, d
  <2> QED
    BY <1>1, <1>2, <1>4, <2>1 DEF RowMove, Advance, activeDispatch
<1> QED
  BY <1>5, <1>6

LEMMA MoveObserve ==
  ASSUME TypeOK, Observe, NEW r \in Requests
  PROVE  RowMove(r)
<1> DEFINE fresh == ~continuous \/ obs.p.seq < w.seq
           hit   == {x \in Requests : /\ activeDispatch(disp[x]) /\ ~fresh
                                     /\ disp[x].attach = w.attach}
           done  == {x \in hit : Observed(disp[x], obs.p).status = "settled"}
<1>1. disp[r] \in DispatchRec /\ obs.p \in AgentRec
      /\ run \in [Requests -> {"none", "active", "completed"}]
  BY SampleAndLane DEF TypeOK, SampleRec
<1>2. disp'[r] = IF r \in hit THEN Observed(disp[r], obs.p) ELSE disp[r]
  BY DEF Observe
<1>3. run'[r] = IF r \in done /\ r \in Implicit THEN "completed" ELSE run[r]
  BY DEF Observe, settleRunTx
<1>4. r \in hit => activeDispatch(disp[r])
  OBVIOUS
<1>5. r \in done <=> r \in hit /\ Observed(disp[r], obs.p).status = "settled"
  OBVIOUS
<1> HIDE DEF hit, done
<1>6. CASE r \notin hit
  BY <1>2, <1>3, <1>5, <1>6 DEF RowMove
<1>7. CASE r \in hit
  <2>1. /\ Observed(disp[r], obs.p).report = disp[r].report
        /\ disp[r].ended => Observed(disp[r], obs.p).ended
        /\ \/ /\ Observed(disp[r], obs.p).status = disp[r].status
              /\ Observed(disp[r], obs.p).outcome = disp[r].outcome
           \/ /\ Observed(disp[r], obs.p).status = "settled"
              /\ Observed(disp[r], obs.p).outcome = disp[r].report
              /\ disp[r].report # "none" /\ Observed(disp[r], obs.p).ended
    BY <1>1, <1>4, <1>7, ObservedType
  <2> QED
    BY <1>1, <1>2, <1>3, <1>4, <1>5, <1>7, <2>1, DispatchTypes
    DEF RowMove, Advance, activeDispatch
<1> QED
  BY <1>6, <1>7

\* Such moves keep the invariant.
LEMMA MoveKeepsInv ==
  ASSUME IInv, TypeOK', Calm, UNCHANGED <<pc, answer, landed>>,
         \A r \in Requests : RowMove(r) /\ ReceiptMove(r)
  PROVE  IInv'
<1>1. \A r \in Requests : activeDispatch(disp'[r]) => activeDispatch(disp[r])
  BY DEF RowMove, Advance, GivenUp, activeDispatch
<1>2. OneActiveDispatch'
  BY <1>1 DEF IInv, OneActiveDispatch
<1>3. ASSUME NEW r \in Requests PROVE HandlerInv(r)'
  <2>1. HandlerInv(r) /\ RowMove(r) /\ ReceiptMove(r)
    BY DEF IInv
  <2>2. CASE disp'[r] = disp[r] /\ run'[r] = run[r]
    BY <2>1, <2>2 DEF HandlerInv, ReceiptMove, inFlight
  <2>3. CASE /\ activeDispatch(disp[r])
             /\ Advance(disp[r], disp'[r]) \/ GivenUp(disp[r], disp'[r])
             /\ run'[r] = IF r \in Implicit /\ ~activeDispatch(disp'[r])
                          THEN "completed" ELSE run[r]
    BY <2>1, <2>3 DEF HandlerInv, ReceiptMove, inFlight, Advance, GivenUp, activeDispatch
  <2> QED
    BY <2>1, <2>2, <2>3 DEF RowMove
<1> QED
  BY <1>2, <1>3 DEF IInv, Calm

\* Steps that touch no row and no handler keep it.
LEMMA QuietKeepsInv ==
  ASSUME IInv, TypeOK', Calm, UNCHANGED <<disp, run, op, pc, answer, landed>>
  PROVE  IInv'
<1>1. OneActiveDispatch'
  BY DEF IInv, OneActiveDispatch
<1>2. \A r \in Requests : HandlerInv(r)'
  BY DEF IInv, HandlerInv, inFlight
<1> QED
  BY <1>1, <1>2 DEF IInv, Calm

\* A step of the handler of x leaves the rows of every other request alone.
LEMMA HandlerKeepsInv ==
  ASSUME IInv, TypeOK', NEW x \in Requests, Accept(x) \/ Handler(x)
  PROVE  IInv'
<1> USE DEF IInv
<1>a. /\ disp \in [Requests -> DispatchRec] /\ disp[x] \in DispatchRec
      /\ run \in [Requests -> {"none", "active", "completed"}]
      /\ op \in [Requests -> {"none", "accepted", "completed", "failed", "uncertain"}]
      /\ pc \in [Requests -> {"new", "wait", "probe", "intent", "prompt", "result",
                              "end", "dead"}]
      /\ answer \in [Requests -> {"none", "ok", "refused", "lost"}]
      /\ landed \in [Requests -> Nat]
  BY DEF TypeOK
<1>b. HandlerInv(x) /\ OneActiveDispatch
  OBVIOUS
<1>o. ASSUME NEW r \in Requests, r # x, disp'[r] = disp[r], run'[r] = run[r], op'[r] = op[r],
             pc'[r] = pc[r], answer'[r] = answer[r], landed'[r] = landed[r]
      PROVE  HandlerInv(r)'
  BY <1>o DEF HandlerInv, inFlight
<1>s. ASSUME \A r \in Requests : activeDispatch(disp'[r]) => activeDispatch(disp[r])
      PROVE  OneActiveDispatch'
  BY <1>s DEF OneActiveDispatch
<1>q. ASSUME HandlerInv(x)', OneActiveDispatch', UNCHANGED cleared,
             \A r \in Requests : r # x =>
               /\ disp'[r] = disp[r] /\ run'[r] = run[r] /\ op'[r] = op[r]
               /\ pc'[r] = pc[r] /\ answer'[r] = answer[r] /\ landed'[r] = landed[r]
      PROVE  IInv'
  BY <1>q, <1>o
<1>1. CASE Accept(x)
  <2>1. HandlerInv(x)'
    BY <1>1, <1>a, <1>b DEF Accept, unclaimed, HandlerInv, activeDispatch, inFlight
  <2>2. OneActiveDispatch'
    BY <1>1, <1>s DEF Accept
  <2> QED
    BY <1>1, <1>a, <1>q, <2>1, <2>2 DEF Accept
<1>2. CASE TakeLane(x)
  <2>1. HandlerInv(x)'
    BY <1>2, <1>a, <1>b DEF TakeLane, rowVars, HandlerInv, inFlight
  <2>2. OneActiveDispatch'
    BY <1>2, <1>s DEF TakeLane, rowVars
  <2> QED
    BY <1>2, <1>a, <1>q, <2>1, <2>2 DEF TakeLane, rowVars
<1>3. CASE Probe(x)
  <2>1. HandlerInv(x)'
    BY <1>3, <1>a, <1>b DEF Probe, rowVars, HandlerInv, inFlight
  <2>2. OneActiveDispatch'
    BY <1>3, <1>s DEF Probe, rowVars
  <2> QED
    BY <1>3, <1>a, <1>q, <2>1, <2>2 DEF Probe, rowVars
<1>4. CASE Refuse(x)
  <2>1. HandlerInv(x)'
    BY <1>4, <1>a, <1>b DEF Refuse, End, HandlerInv, activeDispatch, inFlight
  <2>2. OneActiveDispatch'
    BY <1>4, <1>s DEF Refuse
  <2> QED
    BY <1>4, <1>a, <1>q, <2>1, <2>2 DEF Refuse, End
<1>5. CASE Intent(x)
  <2> DEFINE d == [NoDispatch EXCEPT !.status = "sending", !.attach = snap[x].attach,
                                     !.base = snap[x].seq, !.baseComp = snap[x].comp]
  <2>1. d.status = "sending" /\ d.outcome = "none"
    BY DEF NoDispatch
  <2>2. disp' = [disp EXCEPT ![x] = d] /\ run' = [run EXCEPT ![x] = "active"]
        /\ pc' = [pc EXCEPT ![x] = "prompt"] /\ pc[x] = "intent"
        /\ UNCHANGED <<op, answer, cleared, landed>>
    BY <1>5 DEF Intent
  <2> HIDE DEF d
  <2>3. \A r \in Requests : ~activeDispatch(disp[r])
    BY <1>5 DEF Intent, IntentHolds
  <2>4. HandlerInv(x)'
    BY <1>a, <1>b, <2>1, <2>2 DEF HandlerInv, activeDispatch, inFlight
  <2>5. OneActiveDispatch'
    BY <1>a, <2>2, <2>3 DEF OneActiveDispatch
  <2> QED
    BY <1>a, <1>q, <2>2, <2>4, <2>5
<1>6. CASE Prompt(x)
  <2>1. /\ pc[x] = "prompt" /\ pc' = [pc EXCEPT ![x] = "result"]
        /\ UNCHANGED <<disp, run, op, cleared>>
    BY <1>6 DEF Prompt, rowVars
  <2>2. PICK a \in {"ok", "refused", "lost"}, reaches \in BOOLEAN :
          /\ a = "refused" => ~reaches
          /\ answer' = [answer EXCEPT ![x] = a]
          /\ landed' = IF reaches THEN [landed EXCEPT ![x] = landed[x] + 1] ELSE landed
    BY <1>6 DEF Prompt
  <2>3. HandlerInv(x)'
    BY <1>a, <1>b, <2>1, <2>2 DEF HandlerInv, activeDispatch, inFlight
  <2>4. OneActiveDispatch'
    BY <2>1, <1>s
  <2> QED
    BY <1>a, <1>q, <2>1, <2>2, <2>3, <2>4
<1>7. CASE Result(x)
  <2> DEFINE d == Delivered(disp[x], answer[x])
  <2>1. /\ pc[x] = "result" /\ pc' = [pc EXCEPT ![x] = "end"]
        /\ disp' = [disp EXCEPT ![x] = d]
        /\ answer' = [answer EXCEPT ![x] = "none"] /\ UNCHANGED landed
        /\ op' = IF op[x] \in {"completed", "failed"} THEN op
                 ELSE [op EXCEPT ![x] = CASE answer[x] = "ok"   -> "completed"
                                          [] answer[x] = "lost" -> "uncertain"
                                          [] OTHER              -> "failed"]
        /\ UNCHANGED cleared
    BY <1>7 DEF Result, End
  <2>2. run' = IF disp[x].status = "sending" /\ answer[x] = "refused"
               THEN settleRunTx({x}) ELSE run
    BY <1>7 DEF Result
  <2>3. /\ run'[x] = IF disp[x].status = "sending" /\ answer[x] = "refused" /\ x \in Implicit
                     THEN "completed" ELSE run[x]
        /\ \A r \in Requests : r # x => run'[r] = run[r]
    BY <1>a, <2>2 DEF settleRunTx
  <2>4. /\ disp[x].status # "sending" => d = disp[x]
        /\ disp[x].status = "sending" /\ answer[x] = "ok" =>
             d.status = "active" /\ d.outcome = disp[x].outcome
        /\ disp[x].status = "sending" /\ answer[x] = "lost" =>
             d.status = "uncertain" /\ d.outcome = disp[x].outcome
        /\ disp[x].status = "sending" /\ answer[x] = "refused" => d.status = "failed"
    <3>1. /\ [disp[x] EXCEPT !.status = "active"].status = "active"
          /\ [disp[x] EXCEPT !.status = "active"].outcome = disp[x].outcome
          /\ [disp[x] EXCEPT !.status = "uncertain"].status = "uncertain"
          /\ [disp[x] EXCEPT !.status = "uncertain"].outcome = disp[x].outcome
          /\ Finish(disp[x], "failed", "prompt_refused").status = "failed"
      BY <1>a DEF Finish, DispatchRec
    <3>2. CASE disp[x].status # "sending"
      BY <3>2 DEF Delivered
    <3>3. CASE disp[x].status = "sending" /\ answer[x] = "ok"
      <4>1. d = [disp[x] EXCEPT !.status = "active"]
        BY <3>3, Zenon DEF Delivered
      <4> QED
        BY <3>1, <3>3, <4>1
    <3>4. CASE disp[x].status = "sending" /\ answer[x] = "lost"
      <4>1. d = [disp[x] EXCEPT !.status = "uncertain"]
        BY <3>4, Zenon DEF Delivered
      <4> QED
        BY <3>1, <3>4, <4>1
    <3>5. CASE disp[x].status = "sending" /\ answer[x] \notin {"ok", "lost"}
      <4>1. d = Finish(disp[x], "failed", "prompt_refused")
        BY <3>5, Zenon DEF Delivered
      <4> QED
        BY <3>1, <3>5, <4>1
    <3> QED
      BY <3>2, <3>3, <3>4, <3>5
  <2> HIDE DEF d
  <2>5. HandlerInv(x)'
    BY <1>a, <1>b, <2>1, <2>3, <2>4 DEF HandlerInv, activeDispatch, inFlight
  <2>6. activeDispatch(d) => activeDispatch(disp[x])
    BY <1>b, <2>1, <2>4 DEF HandlerInv, activeDispatch, inFlight
  <2>7. OneActiveDispatch'
    BY <1>a, <1>s, <2>1, <2>6
  <2> QED
    BY <1>a, <1>q, <2>1, <2>3, <2>5, <2>7
<1> QED
  BY <1>1, <1>2, <1>3, <1>4, <1>5, <1>6, <1>7 DEF Handler

LEMMA InvInit == Init => IInv
<1> SUFFICES ASSUME Init PROVE IInv
  OBVIOUS
<1>1. TypeOK
  BY TypeInit
<1>2. \A r \in Requests : disp[r] = NoDispatch /\ NoDispatch.status = "none"
                           /\ NoDispatch.outcome = "none"
  BY DEF Init, NoDispatch
<1>3. OneActiveDispatch
  BY <1>2 DEF OneActiveDispatch, activeDispatch
<1>4. \A r \in Requests : HandlerInv(r)
  BY <1>2 DEF Init, HandlerInv, activeDispatch, inFlight
<1>5. cleared = {}
  BY DEF Init
<1> QED
  BY <1>1, <1>3, <1>4, <1>5 DEF IInv

\* Steps of the world, of the session lane and of the lifecycle operations that
\* touch neither a row nor a handler.
LEMMA QuietSteps ==
  ASSUME \/ Agent \/ SampleEvent \/ Reconnect \/ SampleRefresh \/ SampleHeld
         \/ EventForgotten \/ DropSample \/ Lose \/ Unverified \/ Disconnected
         \/ SessionDown \/ RetainRead \/ RetainWrite \/ ReleaseRead \/ ReleaseClose
         \/ CleanupUncertain \/ AdoptRead \/ LifecycleRefused
  PROVE  UNCHANGED <<disp, run, op, pc, answer, cleared, landed>>
<1>1. CASE Agent
  BY <1>1 DEF Agent, BeginTurn, BeginHumanTurn, Begin, Block, Obscure, Resume, EndTurn, Change,
     ReplaceAgent, ClosePane, ResetSequence, rowVars, procVars
<1>2. CASE SampleEvent \/ Reconnect \/ SampleRefresh \/ SampleHeld \/ EventForgotten
  BY <1>2 DEF SampleEvent, Reconnect, SampleRefresh, Refresh, SampleHeld, Sample,
     EventForgotten, rowVars, procVars
<1>3. CASE DropSample \/ Lose \/ Unverified \/ Disconnected \/ SessionDown
  BY <1>3 DEF DropSample, Lose, Unverified, Disconnected, SessionDown, Offline, rowVars, procVars
<1>4. CASE \/ RetainRead \/ RetainWrite \/ ReleaseRead \/ ReleaseClose
           \/ CleanupUncertain \/ AdoptRead \/ LifecycleRefused
  BY <1>4 DEF RetainRead, RetainWrite, ReleaseRead, ReleaseClose, CleanupUncertain, AdoptRead,
     LifecycleRefused, Lifecycle, rowVars, procVars
<1> QED
  BY <1>1, <1>2, <1>3, <1>4

\* The steps that move rows without being the handler's.
Movers == \/ \E r \in Requests : Fail(r)
          \/ \E r \in Requests, o \in {"done", "failed"} : Done(r, o)
          \/ \E r \in Requests, v \in {"completed", "failed"} : Resolve(r, v)
          \/ Observe \/ Released \/ RetireAbsent \/ AdoptWrite

LEMMA MoverSteps ==
  ASSUME IInv, Movers
  PROVE  /\ \A r \in Requests : RowMove(r) /\ ReceiptMove(r)
         /\ UNCHANGED <<pc, answer, landed>> /\ Calm
<1> USE DEF IInv
<1>1. ASSUME NEW x \in Requests, Fail(x)
      PROVE  (\A r \in Requests : RowMove(r)) /\ UNCHANGED <<op, pc, answer, cleared, landed>>
  BY <1>1, MoveFailOpen DEF Fail, procVars
<1>2. ASSUME NEW x \in Requests, NEW o \in {"done", "failed"}, Done(x, o)
      PROVE  (\A r \in Requests : RowMove(r)) /\ UNCHANGED <<op, pc, answer, cleared, landed>>
  <2>1. \A r \in Requests : RowMove(r)
    BY <1>2, MoveDone
  <2> QED
    BY <1>2, <2>1 DEF Done, procVars
<1>3. ASSUME NEW x \in Requests, NEW v \in {"completed", "failed"}, Resolve(x, v)
      PROVE  /\ \A r \in Requests : RowMove(r) /\ ReceiptMove(r)
             /\ UNCHANGED <<pc, answer, landed>> /\ Calm
  <2>1. /\ UNCHANGED <<pc, answer, landed>> /\ op' = [op EXCEPT ![x] = v]
        /\ op[x] \in {"accepted", "uncertain"} /\ cleared' \subseteq cleared
        /\ op \in [Requests -> {"none", "accepted", "completed", "failed", "uncertain"}]
    BY <1>3 DEF Resolve, TypeOK
  <2>2. Undisturbed => ~inFlight(x)
    BY <1>3 DEF Resolve, IInv
  <2>3. CASE v = "failed"
    <3>1. FailOpen({x})
      BY <1>3, <2>3 DEF Resolve
    <3>2. \A r \in Requests : RowMove(r) /\ (r \in {x} => ~activeDispatch(disp'[r]))
      BY <3>1, MoveFailOpen
    <3> QED
      BY <2>1, <2>2, <2>3, <3>2 DEF ReceiptMove, Calm
  <2>4. CASE v = "completed"
    <3>1. UNCHANGED <<disp, run>>
      BY <1>3, <2>4 DEF Resolve
    <3> QED
      BY <2>1, <2>2, <2>4, <3>1 DEF RowMove, ReceiptMove, Calm
  <2> QED
    BY <2>3, <2>4
<1>4. CASE Observe
  <2>1. \A r \in Requests : RowMove(r)
    BY <1>4, MoveObserve
  <2> QED
    BY <1>4, <2>1 DEF Observe, procVars, ReceiptMove, Calm
<1>5. CASE Released \/ RetireAbsent \/ AdoptWrite
  <2>1. FailOpen(Requests) /\ Lifecycle
    BY <1>5 DEF Released, RetireAbsent, AdoptWrite
  <2> QED
    BY <2>1, MoveFailOpen DEF Lifecycle, procVars, ReceiptMove, Calm
<1> QED
  BY <1>1, <1>2, <1>3, <1>4, <1>5 DEF Movers, ReceiptMove, Calm

\* The two steps of a resolution that does not come to write.
LEMMA LookSteps ==
  ASSUME NEW r \in Requests, ResolveLooks(r) \/ ResolveRejected(r)
  PROVE  UNCHANGED <<disp, run, op, pc, answer, landed>> /\ Calm
BY DEF ResolveLooks, ResolveRejected, rowVars, Disturb, Calm, Undisturbed

LEMMA CrashKeepsInv == ASSUME IInv, TypeOK', Crash PROVE IInv'
<1>1. /\ UNCHANGED <<disp, run, op, landed>> /\ cleared' = {}
      /\ \A r \in Requests : pc'[r] = IF inFlight(r) THEN "dead" ELSE pc[r]
  BY DEF Crash, rowVars
<1>2. OneActiveDispatch'
  BY <1>1 DEF IInv, OneActiveDispatch
<1>3. ASSUME NEW r \in Requests PROVE HandlerInv(r)'
  BY <1>1 DEF IInv, HandlerInv, inFlight
<1> QED
  BY <1>1, <1>2, <1>3 DEF IInv

LEMMA NextSteps ==
  Next => \/ UNCHANGED <<disp, run, op, pc, answer, landed>> /\ Calm
          \/ \E x \in Requests : Accept(x) \/ Handler(x)
          \/ Movers
          \/ Crash
<1>1. UNCHANGED cleared => Calm
  BY DEF Calm
<1> QED
  BY <1>1, QuietSteps, LookSteps DEF Next, Apply, Finishing, Movers

LEMMA InvStep == IInv /\ [Next]_vars => IInv'
<1> SUFFICES ASSUME IInv, [Next]_vars PROVE IInv'
  OBVIOUS
<1>1. TypeOK /\ TypeOK'
  BY TypeStep DEF IInv
<1>2. CASE UNCHANGED vars
  BY <1>1, <1>2, QuietKeepsInv DEF vars, Calm
<1>3. CASE Next
  BY <1>1, <1>3, NextSteps, QuietKeepsInv, HandlerKeepsInv, MoverSteps, MoveKeepsInv,
     CrashKeepsInv
<1> QED
  BY <1>2, <1>3

THEOREM Invariance == Spec => []IInv
  BY InvInit, InvStep, PTL DEF Spec

\* One active dispatch per worker, however handlers, lifecycle operations,
\* observations and crashes interleave.
THEOREM OneActive == Spec => []OneActiveDispatch
<1>1. IInv => OneActiveDispatch
  BY DEF IInv
<1> QED
  BY <1>1, Invariance, PTL

\* No crash, lost answer, repeated request or resolution puts a prompt into the
\* agent twice.
THEOREM PromptOnce == Spec => []PromptAtMostOnce
<1>1. IInv => PromptAtMostOnce
  BY DEF IInv, HandlerInv, PromptAtMostOnce
<1> QED
  BY <1>1, Invariance, PTL

\* A prompt that reached the agent has its row, which does not deny it.
THEOREM PromptOnRecord == Spec => []PromptAccounted
<1>1. IInv => PromptAccounted
  BY DEF IInv, HandlerInv, PromptAccounted
<1> QED
  BY <1>1, Invariance, PTL

\* The implicit run is open exactly as long as its dispatch.
THEOREM RunClosesWithDispatch == Spec => []RunFollowsDispatch
<1>1. IInv => RunFollowsDispatch
  BY RequestsAssumption DEF IInv, HandlerInv, RunFollowsDispatch
<1> QED
  BY <1>1, Invariance, PTL

\* A failed receipt never hides an active dispatch, as long as no resolution
\* looks for the handler of a request before that request arrives.
THEOREM FailureFreesWorker ==
  Spec => []("overtake" \notin Kinds => FailedReceiptFreesWorker)
<1>1. IInv => ("overtake" \notin Kinds => FailedReceiptFreesWorker)
  BY DEF IInv, HandlerInv, Undisturbed, FailedReceiptFreesWorker
<1> QED
  BY <1>1, Invariance, PTL
-----------------------------------------------------------------------------
(* Refinement: the dispatch protocol implements the abstract one of        *)
(* Settlement, and a dispatch which has ended never changes. Both follow   *)
(* from the inductive invariant and from a classification of the steps by  *)
(* what they do to the dispatch rows.                                      *)

\* What a handler may do to its own row: write the intent, record the answer.
Started(d, e)  == /\ d.status = "none" /\ e.status = "sending"
                  /\ e.report = d.report /\ e.ended = d.ended
Answered(d, e) == /\ d.status = "sending" /\ e.status \in {"active", "uncertain", "failed"}
                  /\ e.report = d.report /\ e.ended = d.ended
HandlerMove(x) ==
  /\ \A r \in Requests : r # x => disp'[r] = disp[r]
  /\ \/ disp'[x] = disp[x]
     \/ Started(disp[x], disp'[x]) /\ \A r \in Requests : ~activeDispatch(disp[r])
     \/ Answered(disp[x], disp'[x])

LEMMA HandlerMoves ==
  ASSUME IInv, NEW x \in Requests, Accept(x) \/ Handler(x)
  PROVE  HandlerMove(x)
<1>1. /\ disp \in [Requests -> DispatchRec] /\ disp[x] \in DispatchRec /\ HandlerInv(x)
      /\ answer[x] \in {"none", "ok", "refused", "lost"}
  BY DEF IInv, TypeOK
<1>2. CASE Accept(x) \/ TakeLane(x) \/ Probe(x) \/ Refuse(x) \/ Prompt(x)
  BY <1>2 DEF Accept, TakeLane, Probe, Refuse, Prompt, rowVars, HandlerMove
<1>3. CASE Intent(x)
  <2> DEFINE d == [NoDispatch EXCEPT !.status = "sending", !.attach = snap[x].attach,
                                     !.base = snap[x].seq, !.baseComp = snap[x].comp]
  <2>1. d.status = "sending" /\ d.report = NoDispatch.report /\ d.ended = NoDispatch.ended
        /\ NoDispatch.status = "none"
    BY DEF NoDispatch
  <2>2. disp' = [disp EXCEPT ![x] = d] /\ pc[x] = "intent"
        /\ \A r \in Requests : ~activeDispatch(disp[r])
    BY <1>3 DEF Intent, IntentHolds
  <2> HIDE DEF d
  <2>3. disp[x] = NoDispatch
    BY <1>1, <2>2 DEF HandlerInv
  <2> QED
    BY <1>1, <2>1, <2>2, <2>3 DEF HandlerMove, Started
<1>4. CASE Result(x)
  <2>1. disp' = [disp EXCEPT ![x] = Delivered(disp[x], answer[x])]
    BY <1>4 DEF Result
  <2>2. CASE disp[x].status # "sending"
    BY <1>1, <2>1, <2>2 DEF Delivered, HandlerMove
  <2>3. CASE disp[x].status = "sending"
    <3>1. \/ Delivered(disp[x], answer[x]) = [disp[x] EXCEPT !.status = "active"]
          \/ Delivered(disp[x], answer[x]) = [disp[x] EXCEPT !.status = "uncertain"]
          \/ Delivered(disp[x], answer[x]) = Finish(disp[x], "failed", "prompt_refused")
      BY <1>1, <2>3, Zenon DEF Delivered
    <3>2. \A s \in {"active", "uncertain"} :
            /\ [disp[x] EXCEPT !.status = s].status = s
            /\ [disp[x] EXCEPT !.status = s].report = disp[x].report
            /\ [disp[x] EXCEPT !.status = s].ended = disp[x].ended
      BY <1>1 DEF DispatchRec
    <3>3. /\ Finish(disp[x], "failed", "prompt_refused").status = "failed"
          /\ Finish(disp[x], "failed", "prompt_refused").report = disp[x].report
          /\ Finish(disp[x], "failed", "prompt_refused").ended = disp[x].ended
      BY <1>1 DEF DispatchRec, Finish
    <3>4. Answered(disp[x], Delivered(disp[x], answer[x]))
      BY <2>3, <3>1, <3>2, <3>3 DEF Answered
    <3> QED
      BY <1>1, <2>1, <3>4 DEF HandlerMove
  <2> QED
    BY <2>2, <2>3
<1> QED
  BY <1>2, <1>3, <1>4 DEF Handler

\* Every step, by what it does to the dispatch rows.
LEMMA RowSteps ==
  ASSUME IInv, [Next]_vars
  PROVE  \/ disp' = disp
         \/ \E x \in Requests : HandlerMove(x)
         \/ \A r \in Requests : RowMove(r)
<1>1. CASE UNCHANGED vars
  BY <1>1 DEF vars
<1>2. CASE Next
  BY <1>2, NextSteps, HandlerMoves, MoverSteps DEF Crash, rowVars
<1> QED
  BY <1>1, <1>2

\* A dispatch that has settled or failed never changes again, whatever arrives late.
THEOREM TerminalFinal == Spec => TerminalIsFinal
<1>1. ASSUME IInv, [Next]_vars, NEW r \in Requests, disp[r].status \in {"settled", "failed"}
      PROVE  disp'[r] = disp[r]
  BY <1>1, RowSteps DEF HandlerMove, Started, Answered, RowMove, activeDispatch
<1>2. IInv /\ [Next]_vars =>
        [\A r \in Requests : disp[r].status \in {"settled", "failed"} => disp'[r] = disp[r]]_vars
  BY <1>1
<1> QED
  BY <1>2, Invariance, PTL DEF Spec, TerminalIsFinal

-----------------------------------------------------------------------------
(* The refinement.                                                         *)

Job(d) == [phase |-> phase(d), reported |-> d.report # "none", turnOver |-> d.ended]

LEMMA JobOf == /\ job = [r \in Requests |-> Job(disp[r])]
               /\ job' = [r \in Requests |-> Job(disp'[r])]
BY DEF job, Job, phase, activeDispatch

LEMMA JobMove ==
  ASSUME NEW j \in Requests, \A r \in Requests : r # j => disp'[r] = disp[r]
  PROVE  job' = [job EXCEPT ![j] = Job(disp'[j])]
<1> HIDE DEF Job
<1> QED
  BY JobOf

LEMMA JobFields ==
  ASSUME NEW d
  PROVE  /\ Job(d).phase = phase(d) /\ Job(d).reported = (d.report # "none")
         /\ Job(d).turnOver = d.ended
BY DEF Job

\* A row whose evidence stays changes its job in the phase alone.
LEMMA JobRephased ==
  ASSUME NEW d, NEW e, e.report = d.report, e.ended = d.ended
  PROVE  Job(e) = [Job(d) EXCEPT !.phase = phase(e)]
<1> HIDE DEF phase
<1> QED
  BY DEF Job

LEMMA JobPhase ==
  ASSUME NEW r \in Requests
  PROVE  /\ job[r] = Job(disp[r]) /\ job[r].phase = phase(disp[r])
         /\ job[r].reported = (disp[r].report # "none") /\ job[r].turnOver = disp[r].ended
BY JobOf, JobFields

LEMMA RefinesInit == Init => Abstract!Init
<1> SUFFICES ASSUME Init PROVE Abstract!Init
  OBVIOUS
<1>1. \A r \in Requests : disp[r] = NoDispatch
  BY DEF Init
<1>2. Job(NoDispatch) = Abstract!NoJob
  BY DEF Job, NoDispatch, phase, activeDispatch, Abstract!NoJob
<1> QED
  BY <1>1, <1>2, JobOf DEF Abstract!Init

LEMMA RefinesHandler ==
  ASSUME IInv, IInv', NEW x \in Requests, HandlerMove(x)
  PROVE  Abstract!Next \/ UNCHANGED job
<1> DEFINE d == disp[x]
           e == disp'[x]
<1>1. job' = [job EXCEPT ![x] = Job(e)]
  BY JobMove DEF HandlerMove
<1>2. d \in DispatchRec /\ e \in DispatchRec
  BY DEF IInv, TypeOK
<1>3. CASE e = d
  BY <1>1, <1>3, JobOf
<1>4. CASE Started(d, e) /\ \A r \in Requests : ~activeDispatch(disp[r])
  <2>1. job[x].phase = "none"
    BY <1>4, JobPhase DEF phase, activeDispatch, Started
  <2>2. \A k \in Requests : job[k].phase # "open"
    BY <1>4, JobPhase, <1>2 DEF phase, IInv, TypeOK, DispatchRec, Status, activeDispatch
  <2>3. phase(e) = "open" /\ Job(e) = [job[x] EXCEPT !.phase = phase(e)]
    <3>1. Job(e) = [Job(d) EXCEPT !.phase = phase(e)]
      BY <1>4, JobRephased DEF Started
    <3> QED
      BY <1>4, <3>1, JobPhase DEF phase, activeDispatch, Started
  <2> QED
    BY <1>1, <2>1, <2>2, <2>3 DEF Abstract!Next, Abstract!Open
<1>5. CASE Answered(d, e)
  <2>1. job[x].phase = "open"
    BY <1>5, JobPhase DEF phase, activeDispatch, Answered
  <2>2. CASE e.status = "failed"
    <3>1. Job(e) = [Job(d) EXCEPT !.phase = phase(e)]
      BY <1>5, JobRephased DEF Answered
    <3>2. phase(e) = "failed" /\ Job(e) = [job[x] EXCEPT !.phase = phase(e)]
      BY <2>2, <3>1, JobPhase DEF phase, activeDispatch
    <3> QED
      BY <1>1, <2>1, <3>2 DEF Abstract!Next, Abstract!Fail
  <2>3. CASE e.status # "failed"
    <3>1. Job(e) = Job(d)
      BY <1>5, <2>3 DEF Job, phase, activeDispatch, Answered
    <3> QED
      BY <1>1, <3>1, JobOf
  <2> QED
    BY <2>2, <2>3
<1> QED
  BY <1>3, <1>4, <1>5 DEF HandlerMove

LEMMA RefinesMove ==
  ASSUME IInv, IInv', \A r \in Requests : RowMove(r)
  PROVE  Abstract!Next \/ UNCHANGED job
<1>1. CASE \A r \in Requests : ~activeDispatch(disp[r])
  BY <1>1, JobOf DEF RowMove
<1>2. CASE \E r \in Requests : activeDispatch(disp[r])
  <2>1. PICK j \in Requests : activeDispatch(disp[j])
    BY <1>2
  <2>2. \A r \in Requests : r # j => disp'[r] = disp[r]
    BY <2>1 DEF RowMove, IInv, OneActiveDispatch
  <2>3. job' = [job EXCEPT ![j] = Job(disp'[j])] /\ job[j].phase = "open"
    BY <2>1, <2>2, JobMove, JobPhase DEF phase
  <2>4. disp[j] \in DispatchRec /\ disp'[j] \in DispatchRec
    BY DEF IInv, TypeOK
  <2>5. CASE disp'[j] = disp[j]
    BY <2>3, <2>5, JobOf
  <2>6. CASE Advance(disp[j], disp'[j])
    <3> DEFINE e == disp'[j]
    <3>1. phase(e) \in {"open", "settled"} /\ (phase(e) = "settled" => e.report # "none" /\ e.ended)
      BY <2>1, <2>6 DEF Advance, phase, activeDispatch
    <3>2. (e.report # "none") \in BOOLEAN /\ e.ended \in BOOLEAN
      BY <2>4, DispatchTypes
    <3>3. /\ job[j].reported => e.report # "none"
          /\ job[j].turnOver => e.ended
      BY <2>6, JobPhase DEF Advance
    <3> QED
      BY <2>3, <3>1, <3>2, <3>3 DEF Abstract!Next, Abstract!Record, Job
  <2>7. CASE GivenUp(disp[j], disp'[j])
    <3>1. Job(disp'[j]) = [Job(disp[j]) EXCEPT !.phase = phase(disp'[j])]
      BY <2>7, JobRephased DEF GivenUp
    <3>2. phase(disp'[j]) = "failed" /\ Job(disp'[j]) = [job[j] EXCEPT !.phase = phase(disp'[j])]
      BY <2>7, <3>1, JobPhase DEF phase, activeDispatch, GivenUp
    <3> QED
      BY <2>3, <3>2 DEF Abstract!Next, Abstract!Fail
  <2> QED
    BY <2>5, <2>6, <2>7 DEF RowMove
<1> QED
  BY <1>1, <1>2

\* The rows of the dispatch protocol move as the abstract protocol allows: one open
\* job at a time, settled on both halves of the evidence, closed for good.
THEOREM Refinement == Spec => ImplementsSettlement
<1>1. ASSUME IInv, IInv', [Next]_vars PROVE Abstract!Next \/ UNCHANGED job
  <2>1. CASE disp' = disp
    BY <2>1, JobOf
  <2> QED
    BY <1>1, <2>1, RowSteps, RefinesHandler, RefinesMove
<1>2. IInv /\ IInv' /\ [Next]_vars => [Abstract!Next]_job
  BY <1>1
<1> QED
  BY RefinesInit, <1>2, Invariance, PTL DEF Spec, ImplementsSettlement, Abstract!Spec

-----------------------------------------------------------------------------
(* The rows that are, or may yet be written back as, the worker's.         *)

Rows == {w} \cup {row \in {lane.row} : lane.step # "free"}

LEMMA RowsAre ==
  /\ w \in Rows /\ (lane.step # "free" => lane.row \in Rows)
  /\ \A row \in Rows : row = w \/ (lane.step # "free" /\ row = lane.row)
  /\ w' \in Rows' /\ (lane'.step # "free" => lane'.row \in Rows')
  /\ \A row \in Rows' : row = w' \/ (lane'.step # "free" /\ row = lane'.row)
BY DEF Rows

LEMMA RowTypes == TypeOK => \A row \in Rows : row \in WorkerRec
BY RowsAre, SampleAndLane DEF TypeOK, LaneRec

-----------------------------------------------------------------------------
(* What most steps leave of a dispatch: the attachment, the baselines and  *)
(* the evidence, and no activity it did not have.                          *)

KeepsEvidence(d, e) ==
  /\ activeDispatch(e) => activeDispatch(d)
  /\ e.attach = d.attach /\ e.base = d.base /\ e.baseComp = d.baseComp
  /\ e.work = d.work /\ e.ended = d.ended /\ e.endSeq = d.endSeq

LEMMA StatusKeeps ==
  ASSUME NEW d \in DispatchRec, activeDispatch(d), NEW s \in Status
  PROVE  [d EXCEPT !.status = s].status = s /\ KeepsEvidence(d, [d EXCEPT !.status = s])
BY DEF DispatchRec, KeepsEvidence

LEMMA FinishKeeps ==
  ASSUME NEW d \in DispatchRec, activeDispatch(d), NEW s \in Status, NEW o \in Outcome
  PROVE  /\ Finish(d, s, o).status = s /\ Finish(d, s, o).outcome = o
         /\ Finish(d, s, o).report = d.report
         /\ KeepsEvidence(d, Finish(d, s, o))
BY DEF DispatchRec, KeepsEvidence, Finish

LEMMA ReportKeeps ==
  ASSUME NEW d \in DispatchRec, NEW q \in {"none", "done", "failed"}
  PROVE  /\ [d EXCEPT !.report = q] \in DispatchRec /\ [d EXCEPT !.report = q].report = q
         /\ [d EXCEPT !.report = q].status = d.status
         /\ KeepsEvidence(d, [d EXCEPT !.report = q])
BY DEF DispatchRec, KeepsEvidence, activeDispatch

LEMMA DeliveredKeeps ==
  ASSUME NEW d \in DispatchRec, NEW a
  PROVE  /\ KeepsEvidence(d, Delivered(d, a))
         /\ Delivered(d, a).status = "settled" => Delivered(d, a) = d
<1>1. CASE d.status # "sending"
  BY <1>1 DEF Delivered, KeepsEvidence
<1>2. CASE d.status = "sending"
  <2>1. activeDispatch(d) /\ "active" \in Status /\ "uncertain" \in Status
        /\ "failed" \in Status /\ "prompt_refused" \in Outcome
    BY <1>2 DEF activeDispatch, Status, Outcome
  <2>2. \/ Delivered(d, a) = [d EXCEPT !.status = "active"]
        \/ Delivered(d, a) = [d EXCEPT !.status = "uncertain"]
        \/ Delivered(d, a) = Finish(d, "failed", "prompt_refused")
    BY <1>2, Zenon DEF Delivered
  <2>3. /\ KeepsEvidence(d, [d EXCEPT !.status = "active"])
        /\ [d EXCEPT !.status = "active"].status = "active"
        /\ KeepsEvidence(d, [d EXCEPT !.status = "uncertain"])
        /\ [d EXCEPT !.status = "uncertain"].status = "uncertain"
    BY <2>1, StatusKeeps, Zenon
  <2>4. /\ KeepsEvidence(d, Finish(d, "failed", "prompt_refused"))
        /\ Finish(d, "failed", "prompt_refused").status = "failed"
    BY <2>1, FinishKeeps
  <2> QED
    BY <2>2, <2>3, <2>4
<1> QED
  BY <1>1, <1>2

LEMMA FailOpenKeeps ==
  ASSUME TypeOK, NEW rs, FailOpen(rs), NEW r \in Requests
  PROVE  /\ KeepsEvidence(disp[r], disp'[r])
         /\ disp'[r].status = "settled" => disp'[r] = disp[r]
         /\ r \in rs => ~activeDispatch(disp'[r])
<1>1. disp[r] \in DispatchRec /\ "failed" \in Status /\ "reason" \in Outcome
  BY DEF TypeOK, Status, Outcome
<1>2. disp'[r] = IF r \in rs /\ activeDispatch(disp[r])
                 THEN Finish(disp[r], "failed", "reason") ELSE disp[r]
  BY DEF FailOpen
<1>3. CASE r \in rs /\ activeDispatch(disp[r])
  <2>1. disp'[r] = Finish(disp[r], "failed", "reason")
    BY <1>2, <1>3
  <2>2. disp'[r].status = "failed" /\ KeepsEvidence(disp[r], disp'[r])
    BY <1>1, <1>3, <2>1, FinishKeeps
  <2> QED
    BY <2>2 DEF activeDispatch
<1>4. CASE ~(r \in rs /\ activeDispatch(disp[r]))
  BY <1>2, <1>4 DEF KeepsEvidence
<1> QED
  BY <1>3, <1>4

LEMMA DoneKeeps ==
  ASSUME TypeOK, NEW x \in Requests, NEW o \in {"done", "failed"}, Done(x, o),
         NEW r \in Requests
  PROVE  /\ KeepsEvidence(disp[r], disp'[r])
         /\ disp'[r].status = "settled" => disp'[r] = disp[r] \/ (r = x /\ disp'[r].ended)
<1> DEFINE d == [disp[x] EXCEPT !.report = o]
<1>1. disp[x] \in DispatchRec /\ disp \in [Requests -> DispatchRec]
      /\ "settled" \in Status /\ o \in Outcome /\ activeDispatch(disp[x])
  BY DEF TypeOK, Done, Status, Outcome
<1>2. /\ d.status = disp[x].status /\ d \in DispatchRec /\ KeepsEvidence(disp[x], d)
  BY <1>1, ReportKeeps
<1> HIDE DEF d
<1>3. activeDispatch(d)
  BY <1>1, <1>2 DEF activeDispatch
<1>4. KeepsEvidence(d, Finish(d, "settled", o))
  BY <1>1, <1>2, <1>3, FinishKeeps
<1>5. CASE TurnEndStands(d)
  <2>1. disp' = [disp EXCEPT ![x] = Finish(d, "settled", o)]
    BY <1>5 DEF Done, d
  <2>2. d.ended
    BY <1>5 DEF TurnEndStands
  <2> QED
    BY <1>1, <1>2, <1>4, <2>1, <2>2 DEF KeepsEvidence
<1>6. CASE ~TurnEndStands(d)
  <2>1. disp' = [disp EXCEPT ![x] = d]
    BY <1>6 DEF Done, d
  <2> QED
    BY <1>1, <1>2, <1>3, <2>1 DEF KeepsEvidence, activeDispatch
<1> QED
  BY <1>5, <1>6

-----------------------------------------------------------------------------
(* The state of a row. A worker says what its agent says, or that it is    *)
(* away, and one that was released carries no dispatch.                    *)

Holding(r) == pc[r] \in {"probe", "intent", "prompt", "result"}
Says(row) == row.state \in {row.raw, "offline", "lost", "released"}

RowInv ==
  /\ \A row \in Rows : Says(row)
  /\ w.state = "released" => \A r \in Requests : ~activeDispatch(disp[r])
  /\ lane.step = "retain" /\ lane.row.state = "released" => w.state = "released"
  /\ \A r \in Requests : Holding(r) => lane.step = "free"
  /\ \A r \in Requests : disp[r].status = "settled" => disp[r].ended

LEMMA WorkerFields ==
  ASSUME NEW a \in WorkerRec, NEW s \in WorkerState, NEW b \in BOOLEAN
  PROVE  /\ [a EXCEPT !.state = s, !.held = b].state = s
         /\ [a EXCEPT !.state = s, !.held = b].raw = a.raw
         /\ [a EXCEPT !.state = s, !.held = b].attach = a.attach
         /\ [a EXCEPT !.state = s, !.held = b].inc = a.inc
         /\ [a EXCEPT !.state = s, !.held = b].seq = a.seq
         /\ [a EXCEPT !.state = s].state = s
         /\ [a EXCEPT !.state = s].raw = a.raw
         /\ [a EXCEPT !.state = s].attach = a.attach
         /\ [a EXCEPT !.state = s].inc = a.inc
         /\ [a EXCEPT !.state = s].seq = a.seq
BY DEF WorkerRec

LEMMA RowInvInit == Init => RowInv
<1> SUFFICES ASSUME Init PROVE RowInv
  OBVIOUS
<1>1. PICK conv \in Sessions : w = [FirstWorker EXCEPT !.conv = conv]
  BY DEF Init
<1>2. w.state = "idle" /\ w.raw = "idle" /\ lane.step = "free"
  BY <1>1 DEF FirstWorker, Init, FreeLane
<1>3. \A r \in Requests : disp[r].status = "none" /\ pc[r] = "new"
  BY DEF Init, NoDispatch
<1> QED
  BY <1>2, <1>3, RowsAre DEF RowInv, Says, Holding

\* A step that opens no row and takes the lane for nobody.
LEMMA RowInvKept ==
  ASSUME RowInv,
         \A row \in Rows' : Says(row),
         \A r \in Requests : activeDispatch(disp'[r]) => activeDispatch(disp[r]),
         \A r \in Requests : disp'[r].status = "settled" => disp'[r].ended,
         w'.state = "released" =>
           w.state = "released" \/ \A r \in Requests : ~activeDispatch(disp'[r]),
         lane'.step = "retain" /\ lane'.row.state = "released" => w'.state = "released",
         \A r \in Requests : Holding(r)' => lane'.step = "free"
  PROVE  RowInv'
BY DEF RowInv

\* The rows that move without their handler settle with their turn ended.
LEMMA MovedRow ==
  ASSUME NEW r \in Requests, RowMove(r), disp[r].status = "settled" => disp[r].ended
  PROVE  /\ activeDispatch(disp'[r]) => activeDispatch(disp[r])
         /\ disp'[r].status = "settled" => disp'[r].ended
BY DEF RowMove, Advance, GivenUp, activeDispatch

\* Steps that touch neither a row, nor the worker, nor the lane, nor a handler.
LEMMA RowInvAside ==
  ASSUME RowInv, TypeOK,
         \/ Agent \/ SampleEvent \/ Reconnect \/ SampleRefresh \/ SampleHeld
         \/ EventForgotten \/ DropSample
         \/ \E r \in Requests : ResolveLooks(r) \/ ResolveRejected(r)
  PROVE  RowInv'
<1>1. UNCHANGED <<w, lane, disp, pc>>
  <2>1. CASE Agent
    BY <2>1 DEF Agent, BeginTurn, BeginHumanTurn, Begin, Block, Obscure, Resume, EndTurn, Change,
       ReplaceAgent, ClosePane, ResetSequence, rowVars, procVars
  <2>2. CASE SampleEvent \/ Reconnect \/ SampleRefresh \/ SampleHeld \/ EventForgotten \/ DropSample
    BY <2>2 DEF SampleEvent, Reconnect, SampleRefresh, Refresh, SampleHeld, Sample,
       EventForgotten, DropSample, rowVars, procVars
  <2>3. ASSUME NEW r \in Requests, ResolveLooks(r) \/ ResolveRejected(r)
        PROVE  UNCHANGED <<w, lane, disp, pc>>
    BY <2>3 DEF ResolveLooks, ResolveRejected, rowVars
  <2> QED
    BY <2>1, <2>2, <2>3
<1>2. Rows' = Rows
  BY <1>1 DEF Rows
<1> QED
  BY <1>1, <1>2 DEF RowInv, Holding, Says

\* The handler's own steps.
LEMMA RowInvHandler ==
  ASSUME RowInv, IInv, TypeOK', NEW x \in Requests, Accept(x) \/ Handler(x)
  PROVE  RowInv'
<1> USE DEF IInv
<1>a. /\ disp \in [Requests -> DispatchRec] /\ disp[x] \in DispatchRec
      /\ pc \in [Requests -> {"new", "wait", "probe", "intent", "prompt", "result",
                              "end", "dead"}]
  BY DEF TypeOK
<1>b. UNCHANGED <<w, lane>>
  BY DEF Handler, Accept, TakeLane, Probe, Refuse, Intent, Prompt, Result
<1>c. Rows' = Rows
  BY <1>b DEF Rows
<1>d. \A row \in Rows' : Says(row)
  BY <1>c DEF RowInv
<1>1. CASE Accept(x)
  <2>1. /\ disp' = disp /\ \A r \in Requests : Holding(r)' => Holding(r)
    BY <1>1, <1>a DEF Accept, Holding
  <2> QED
    BY <1>b, <1>d, <2>1 DEF RowInv
<1>2. CASE TakeLane(x)
  <2>1. disp' = disp /\ lane.step = "free"
    BY <1>2 DEF TakeLane, rowVars, LaneFree
  <2> QED
    BY <1>b, <1>d, <2>1 DEF RowInv
<1>3. CASE Probe(x) \/ Refuse(x) \/ Prompt(x)
  <2>1. /\ disp' = disp /\ \A r \in Requests : Holding(r)' => Holding(r)
    BY <1>3, <1>a DEF Probe, Refuse, Prompt, End, Holding, rowVars
  <2> QED
    BY <1>b, <1>d, <2>1 DEF RowInv
<1>4. CASE Intent(x)
  <2>1. \A r \in Requests : Holding(r)' => Holding(r)
    BY <1>4, <1>a DEF Intent, Holding
  <2>2. w.state # "released"
    BY <1>4 DEF Intent, IntentHolds, sessionActive
  <2>3. \A r \in Requests : disp'[r].status = "settled" => disp[r].status = "settled" /\ disp'[r] = disp[r]
    BY <1>4, <1>a DEF Intent, NoDispatch
  <2> QED
    BY <1>b, <1>d, <2>1, <2>2, <2>3 DEF RowInv
<1>5. CASE Result(x)
  <2>1. \A r \in Requests : Holding(r)' => Holding(r)
    BY <1>5, <1>a DEF Result, End, Holding
  <2>2. disp' = [disp EXCEPT ![x] = Delivered(disp[x], answer[x])]
    BY <1>5 DEF Result
  <2>3. /\ activeDispatch(Delivered(disp[x], answer[x])) => activeDispatch(disp[x])
        /\ Delivered(disp[x], answer[x]).status = "settled" => Delivered(disp[x], answer[x]) = disp[x]
    BY <1>a, DeliveredKeeps DEF KeepsEvidence
  <2>4. \A r \in Requests : /\ activeDispatch(disp'[r]) => activeDispatch(disp[r])
                            /\ disp'[r].status = "settled" => disp'[r] = disp[r]
    BY <1>a, <2>2, <2>3
  <2> QED
    BY <1>b, <1>d, <2>1, <2>4 DEF RowInv
<1> QED
  BY <1>1, <1>2, <1>3, <1>4, <1>5 DEF Handler

\* Reports, failures and resolutions.
LEMMA RowInvReports ==
  ASSUME RowInv, TypeOK,
         \/ \E r \in Requests : Fail(r)
         \/ \E r \in Requests, o \in {"done", "failed"} : Done(r, o)
         \/ \E r \in Requests, v \in {"completed", "failed"} : Resolve(r, v)
  PROVE  RowInv'
<1>1. UNCHANGED <<w, lane, pc>>
  BY DEF Fail, Done, Resolve, procVars
<1>2. Rows' = Rows
  BY <1>1 DEF Rows
<1>3. ASSUME NEW r \in Requests
      PROVE  /\ activeDispatch(disp'[r]) => activeDispatch(disp[r])
             /\ disp'[r].status = "settled" => disp'[r] = disp[r] \/ disp'[r].ended
  <2>1. ASSUME NEW x \in Requests, Fail(x)
        PROVE  KeepsEvidence(disp[r], disp'[r])
               /\ (disp'[r].status = "settled" => disp'[r] = disp[r])
    BY <2>1, FailOpenKeeps DEF Fail
  <2>2. ASSUME NEW x \in Requests, NEW o \in {"done", "failed"}, Done(x, o)
        PROVE  KeepsEvidence(disp[r], disp'[r])
               /\ (disp'[r].status = "settled" => disp'[r] = disp[r] \/ disp'[r].ended)
    BY <2>2, DoneKeeps
  <2>3. ASSUME NEW x \in Requests, NEW v \in {"completed", "failed"}, Resolve(x, v)
        PROVE  KeepsEvidence(disp[r], disp'[r])
               /\ (disp'[r].status = "settled" => disp'[r] = disp[r])
    <3>1. CASE v = "failed"
      BY <2>3, <3>1, FailOpenKeeps DEF Resolve
    <3>2. CASE v # "failed"
      BY <2>3, <3>2 DEF Resolve, KeepsEvidence
    <3> QED
      BY <3>1, <3>2
  <2> QED
    BY <2>1, <2>2, <2>3 DEF KeepsEvidence
<1> QED
  BY <1>1, <1>2, <1>3 DEF RowInv, Holding, Says

\* Steps of the session lane that write the worker's row.
LEMMA RowInvSession ==
  ASSUME RowInv, IInv, TypeOK',
         Lose \/ Unverified \/ Disconnected \/ SessionDown \/ Observe
  PROVE  RowInv'
<1> USE DEF IInv
<1>a. w \in WorkerRec /\ UNCHANGED <<lane, pc>>
  BY DEF TypeOK, Lose, Unverified, Disconnected, SessionDown, Offline, Observe, procVars
<1>b. \A row \in Rows' : row = w' \/ row \in Rows
  BY <1>a, RowsAre
<1>c. Says(w)
  BY RowsAre DEF RowInv
<1>1. CASE Lose \/ Unverified \/ Disconnected \/ SessionDown
  <2>1. /\ w' = w \/ (sessionActive(w) /\ w'.state \in {"offline", "lost"})
        /\ disp' = disp
    <3>1. Lose => w'.state = "lost" /\ sessionActive(w) /\ disp' = disp
      BY <1>a, WorkerFields DEF Lose, Bound, WorkerState, rowVars
    <3>2. Unverified => disp' = disp /\ (w' = w \/ (sessionActive(w) /\ w'.state = "offline"))
      BY <1>a, WorkerFields DEF Unverified, Bound, WorkerState, rowVars
    <3>3. Offline => disp' = disp /\ (w' = w \/ (sessionActive(w) /\ w'.state = "offline"))
      BY <1>a, WorkerFields DEF Offline, WorkerState, rowVars
    <3> QED
      BY <1>1, <3>1, <3>2, <3>3 DEF Disconnected, SessionDown
  <2>2. Says(w')
    BY <1>c, <2>1 DEF Says
  <2> QED
    BY <1>a, <1>b, <2>1, <2>2 DEF RowInv, Holding, sessionActive
<1>2. CASE Observe
  <2>1. /\ w'.state = w'.raw /\ w'.state = obs.p.status /\ sessionActive(w)
    BY <1>2 DEF Observe, Bound
  <2>2. obs.p.status \in AgentStatus
    BY AgentTypes, SampleAndLane DEF TypeOK, SampleRec
  <2>3. Says(w') /\ w'.state # "released"
    BY <2>1, <2>2 DEF Says, AgentStatus
  <2>4. \A r \in Requests : /\ activeDispatch(disp'[r]) => activeDispatch(disp[r])
                            /\ disp'[r].status = "settled" => disp'[r].ended
    BY <1>2, MoveObserve, MovedRow DEF RowInv
  <2> QED
    BY <1>a, <1>b, <2>1, <2>3, <2>4 DEF RowInv, Holding, sessionActive
<1> QED
  BY <1>1, <1>2

\* Lifecycle operations, and the crash.
LEMMA RowInvLane ==
  ASSUME RowInv, IInv, TypeOK', RetainRead \/ ReleaseRead \/ AdoptRead \/ Finishing \/ Crash
  PROVE  RowInv'
<1> USE DEF IInv
<1>a. w \in WorkerRec /\ lane.row \in WorkerRec /\ {"released", "offline"} \subseteq WorkerState
  BY SampleAndLane DEF TypeOK, LaneRec, WorkerState
<1>b. Says(w) /\ (lane.step # "free" => Says(lane.row))
  BY RowsAre DEF RowInv
<1>c. LaneFree => \A r \in Requests : ~Holding(r)
  BY DEF LaneFree, Holding
<1>d. \A step, row : Hold(step, row) => lane'.step = step /\ lane'.row = row
  BY DEF Hold
<1>f. FreeLane.step = "free"
  BY DEF FreeLane
<1>1. CASE RetainRead \/ ReleaseRead \/ AdoptRead
  <2>1. UNCHANGED <<w, disp, pc>> /\ LaneFree
    BY <1>1 DEF RetainRead, ReleaseRead, AdoptRead, Lifecycle, procVars
  <2>2. Says(lane'.row) /\ (lane'.step = "retain" => lane'.row = w)
    BY <1>1, <1>b, <1>d DEF RetainRead, ReleaseRead, AdoptRead, Says
  <2> QED
    BY <1>b, <1>c, <2>1, <2>2, RowsAre DEF RowInv, Holding
<1>2. CASE RetainWrite
  <2>1. w' = lane.row /\ lane'.step = "free" /\ UNCHANGED <<disp, pc>> /\ lane.step = "retain"
    BY <1>2, <1>f DEF RetainWrite, Lifecycle, procVars
  <2> QED
    BY <1>b, <2>1, RowsAre DEF RowInv, Holding
<1>3. CASE ReleaseClose
  <2>1. /\ UNCHANGED <<w, disp, pc>> /\ lane.step # "free"
        /\ lane'.row = lane.row /\ lane'.step \in {"closed", "unclosed"}
    BY <1>3, <1>d DEF ReleaseClose, rowVars, procVars
  <2> QED
    BY <1>b, <2>1, RowsAre DEF RowInv, Holding
<1>4. CASE Released \/ RetireAbsent \/ AdoptWrite
  <2>1. FailOpen(Requests) /\ lane'.step = "free" /\ UNCHANGED pc /\ lane.step # "free"
    BY <1>4, <1>f DEF Released, RetireAbsent, AdoptWrite, Lifecycle, procVars
  <2>2. Says(w')
    <3>1. \A a \in WorkerRec : [a EXCEPT !.state = "released", !.held = FALSE].state = "released"
      BY WorkerFields, <1>a
    <3>2. Released \/ RetireAbsent => w'.state = "released"
      BY <1>a, <3>1 DEF Released, RetireAbsent
    <3>3. AdoptWrite => w' = lane.row /\ lane.step # "free"
      BY DEF AdoptWrite
    <3> QED
      BY <1>4, <1>b, <3>2, <3>3 DEF Says
  <2>3. \A r \in Requests : /\ ~activeDispatch(disp'[r])
                            /\ disp'[r].status = "settled" => disp'[r] = disp[r]
    BY <2>1, FailOpenKeeps
  <2> QED
    BY <2>1, <2>2, <2>3, RowsAre DEF RowInv, Holding
<1>5. CASE CleanupUncertain
  <2>1. /\ lane'.step = "free" /\ UNCHANGED <<disp, pc>>
        /\ w' = [lane.row EXCEPT !.state = "offline"]
    BY <1>5, <1>f DEF CleanupUncertain, Lifecycle, procVars
  <2>2. w'.state = "offline"
    BY <1>a, <2>1, WorkerFields
  <2> QED
    BY <2>1, <2>2, RowsAre DEF RowInv, Holding, Says
<1>6. CASE LifecycleRefused
  <2>1. lane'.step = "free" /\ UNCHANGED <<w, disp, pc>>
    BY <1>6, <1>f DEF LifecycleRefused, Lifecycle, procVars
  <2> QED
    BY <1>b, <2>1, RowsAre DEF RowInv, Holding
<1>7. CASE Crash
  <2>1. lane'.step = "free" /\ UNCHANGED <<w, disp>>
    BY <1>7, <1>f DEF Crash, rowVars
  <2> QED
    BY <1>b, <2>1, RowsAre DEF RowInv
<1> QED
  BY <1>1, <1>2, <1>3, <1>4, <1>5, <1>6, <1>7 DEF Finishing

LEMMA RowInvStep == RowInv /\ IInv /\ [Next]_vars => RowInv'
<1> SUFFICES ASSUME RowInv, IInv, [Next]_vars PROVE RowInv'
  OBVIOUS
<1>1. TypeOK /\ TypeOK'
  BY TypeStep DEF IInv
<1>2. CASE UNCHANGED vars
  <2>1. UNCHANGED <<w, lane, disp, pc>>
    BY <1>2 DEF vars
  <2> QED
    BY <2>1 DEF RowInv, Rows, Holding, Says
<1>3. CASE Next
  BY <1>1, <1>3, RowInvAside, RowInvHandler, RowInvReports, RowInvSession, RowInvLane
  DEF Next, Apply
<1> QED
  BY <1>2, <1>3

-----------------------------------------------------------------------------
(* The evidence of a dispatch. Its argument rests on Herdr's counters: they *)
(* never start again, so that a sample and a baseline can be told apart by  *)
(* their sequence.                                                          *)

CountersRun == "reset" \notin Kinds
Busy == {"working", "blocked"}
Sampled == obs.kind # "off"
SeqBase(r) == IF pc[r] = "intent" THEN snap[r].seq ELSE disp[r].base
CompBase(r) == IF pc[r] = "intent" THEN snap[r].comp ELSE disp[r].baseComp

\* The agent, the sample in hand and the rows. An agent that works is in a turn and
\* one in a turn is not idle; samples are of the past; a binding is no newer than the
\* sample taken for it.
AgentInv ==
  /\ agent.comp <= agent.seq
  /\ agent.alive /\ agent.status \in Busy => turn # None
  /\ agent.alive /\ turn # None => agent.status # "idle"
  /\ Sampled => /\ obs.p.seq <= agent.seq /\ obs.p.comp <= agent.comp
                /\ obs.p.inc <= agent.inc /\ obs.attach <= lastAttach
  /\ \A row \in Rows : /\ row.inc <= agent.inc /\ row.attach <= lastAttach
                       /\ Sampled /\ obs.attach = row.attach => row.inc <= obs.p.inc

\* A dispatch that saw its agent work, and for which no turn has ended yet.
Working(r) == activeDispatch(disp[r]) /\ ~turnOver[r] /\ disp[r].work > disp[r].base

\* While no turn has ended since the baselines: the completion counter stands; a busy
\* sample, or a dispatch that saw one, means that its process is still in that
\* turn, and an idle sample is of another process. What was recorded as the end of a
\* turn was one, and no later than any sample in hand.
EvidenceInv(r) ==
  /\ disp[r].attach <= lastAttach /\ snap[r].attach <= lastAttach
  /\ Baselined(r) /\ ~turnOver[r] => agent.comp <= CompBase(r)
  /\ (/\ Baselined(r) /\ ~turnOver[r] /\ Sampled /\ obs.p.alive
      /\ obs.p.status \in Busy /\ obs.p.seq > SeqBase(r) /\ obs.p.inc = agent.inc)
     => turn # None
  /\ Working(r) => \A row \in Rows : row.attach = disp[r].attach /\ row.inc = agent.inc
                                     => turn # None
  /\ Working(r) /\ Sampled /\ obs.p.alive /\ obs.p.status = "idle" =>
       \A row \in Rows : row.attach = disp[r].attach /\ obs.attach = row.attach
                         => row.inc # obs.p.inc
  /\ disp[r].ended => /\ turnOver[r] /\ disp[r].endSeq <= agent.seq
                      /\ Sampled => disp[r].endSeq <= obs.p.seq

\* Between the baselines and the end of its own turn, the agent is in no other turn
\* unless one intruded.
TurnInv(r) ==
  /\ Baselined(r) /\ ~ownEnded[r] /\ ~intruded[r] => turn \in {None, r}
  /\ turnOver[r] => ownEnded[r] \/ intruded[r]

EInv == AgentInv /\ \A r \in Requests : EvidenceInv(r) /\ TurnInv(r)

LEMMA EInvInit == Init => EInv
<1> SUFFICES ASSUME Init PROVE EInv
  OBVIOUS
<1>1. PICK conv \in Sessions : /\ agent = [FirstAgent EXCEPT !.conv = conv]
                               /\ w = [FirstWorker EXCEPT !.conv = conv]
  BY DEF Init
<1>2. /\ agent.comp = 0 /\ agent.seq = 1 /\ agent.status = "idle" /\ agent.inc = 1
      /\ w.inc = 1 /\ w.attach = 1 /\ lastAttach = 1 /\ turn = None
      /\ lane.step = "free" /\ ~Sampled
  BY <1>1 DEF FirstAgent, FirstWorker, Init, FreeLane, NoSample, Sampled
<1>3. \A r \in Requests : /\ disp[r].status = "none" /\ disp[r].attach = 0 /\ ~disp[r].ended
                          /\ pc[r] = "new" /\ snap[r].attach = 0
                          /\ ~turnOver[r] /\ ~ownEnded[r] /\ ~intruded[r]
  BY DEF Init, NoDispatch, NoSnap
<1>4. \A r \in Requests : ~Baselined(r) /\ ~activeDispatch(disp[r])
  BY <1>3 DEF Baselined, activeDispatch
<1>5. AgentInv
  BY <1>2, RowsAre DEF AgentInv, Busy
<1>6. \A r \in Requests : EvidenceInv(r) /\ TurnInv(r)
  BY <1>2, <1>3, <1>4 DEF EvidenceInv, TurnInv, Working
<1> QED
  BY <1>5, <1>6 DEF EInv

\* Steps of the agent, and the close of its pane: its counters and its process do not
\* go back; for a dispatch that waits, either a turn ended or the counter of
\* completions stands and the same process is still in its turn.
AwaitsTurn(r) ==
  /\ turnOver[r] => turnOver'[r]
  /\ Baselined(r) /\ ~turnOver'[r] =>
       /\ agent'.comp = agent.comp
       /\ agent'.inc = agent.inc /\ turn # None => turn' # None
  /\ ownEnded[r] => ownEnded'[r]
  /\ intruded[r] => intruded'[r]
  /\ Baselined(r) /\ ~ownEnded'[r] /\ ~intruded'[r] => turn' \in {None, r} \/ turn' = turn
  /\ turnOver'[r] => turnOver[r] \/ ownEnded'[r] \/ intruded'[r]

AgentMoves ==
  /\ agent'.seq >= agent.seq /\ agent'.comp >= agent.comp /\ agent'.comp <= agent'.seq
  /\ agent'.inc >= agent.inc
  /\ agent'.alive /\ agent'.status \in Busy => turn' # None
  /\ agent'.alive /\ turn' # None => agent'.status # "idle"
  /\ \A r \in Requests : AwaitsTurn(r)

LEMMA AgentMovesKeep ==
  ASSUME EInv, TypeOK, TypeOK', AgentMoves, Rows' = Rows,
         UNCHANGED <<w, lastAttach, obs, disp, pc, snap>>
  PROVE  EInv'
<1>a. /\ agent \in AgentRec /\ agent' \in AgentRec /\ obs.p \in AgentRec /\ lastAttach \in Nat
      /\ \A row \in Rows : row \in WorkerRec
  BY RowTypes, SampleAndLane DEF TypeOK, SampleRec
<1>b. /\ agent.seq \in Nat /\ agent.comp \in Nat /\ agent.inc \in Nat
      /\ agent'.seq \in Nat /\ agent'.comp \in Nat /\ agent'.inc \in Nat
      /\ obs.p.seq \in Nat /\ obs.p.comp \in Nat /\ obs.p.inc \in Nat
      /\ \A row \in Rows : row.inc \in Nat /\ row.attach \in Nat
  BY <1>a, AgentTypes, WorkerTypes
<1>1. AgentInv'
  BY <1>b DEF EInv, AgentInv, AgentMoves, Sampled
<1>2. ASSUME NEW r \in Requests PROVE EvidenceInv(r)' /\ TurnInv(r)'
  <2>1. EvidenceInv(r) /\ TurnInv(r) /\ AgentInv
    BY DEF EInv
  <2>2. /\ Baselined(r)' = Baselined(r) /\ Sampled' = Sampled
        /\ SeqBase(r)' = SeqBase(r) /\ CompBase(r)' = CompBase(r)
        /\ Working(r)' => Working(r) /\ Baselined(r) /\ ~turnOver'[r]
        /\ turnOver[r] => turnOver'[r]
    BY DEF Baselined, Sampled, SeqBase, CompBase, Working, AgentMoves, AwaitsTurn
  <2>3. disp[r] \in DispatchRec /\ disp[r].endSeq \in Nat
    BY DispatchTypes DEF TypeOK
  <2>4. Baselined(r) /\ ~turnOver'[r] =>
            /\ agent'.comp = agent.comp
            /\ agent'.inc = agent.inc /\ turn # None => turn' # None
    BY DEF AgentMoves, AwaitsTurn
  <2>5. /\ Sampled /\ obs.p.inc = agent'.inc => agent'.inc = agent.inc
        /\ \A row \in Rows : row.inc = agent'.inc => agent'.inc = agent.inc
        /\ agent'.seq >= agent.seq
    BY <1>b, <2>1 DEF AgentInv, AgentMoves
  <2>6. EvidenceInv(r)'
    <3>1. (Baselined(r) /\ ~turnOver[r] => agent.comp <= CompBase(r))'
      BY <2>1, <2>2, <2>4 DEF EvidenceInv
    <3>2. (/\ Baselined(r) /\ ~turnOver[r] /\ Sampled /\ obs.p.alive
           /\ obs.p.status \in Busy /\ obs.p.seq > SeqBase(r) /\ obs.p.inc = agent.inc
           => turn # None)'
      BY <2>1, <2>2, <2>4, <2>5 DEF EvidenceInv
    <3>3. (Working(r) => \A row \in Rows : row.attach = disp[r].attach /\ row.inc = agent.inc
                                     => turn # None)'
      BY <2>1, <2>2, <2>4, <2>5 DEF EvidenceInv
    <3>4. (Working(r) /\ Sampled /\ obs.p.alive /\ obs.p.status = "idle" =>
            \A row \in Rows : row.attach = disp[r].attach /\ obs.attach = row.attach
                         => row.inc # obs.p.inc)'
      BY <2>1, <2>2 DEF EvidenceInv
    <3>5. (disp[r].ended => /\ turnOver[r] /\ disp[r].endSeq <= agent.seq
                            /\ Sampled => disp[r].endSeq <= obs.p.seq)'
      BY <1>b, <2>1, <2>2, <2>3, <2>5 DEF EvidenceInv
    <3>6. (disp[r].attach <= lastAttach /\ snap[r].attach <= lastAttach)'
      BY <2>1 DEF EvidenceInv
    <3> QED
      BY <3>1, <3>2, <3>3, <3>4, <3>5, <3>6 DEF EvidenceInv
  <2>7. TurnInv(r)'
    BY <2>1, <2>2 DEF TurnInv, AgentMoves, AwaitsTurn
  <2> QED
    BY <2>6, <2>7
<1> QED
  BY <1>1, <1>2 DEF EInv

LEMMA AgentSteps ==
  ASSUME EInv, IInv, TypeOK', CountersRun, Agent \/ ReleaseClose
  PROVE  AgentMoves /\ Rows' = Rows /\ UNCHANGED <<w, lastAttach, obs, disp, pc, snap>>
<1> USE DEF IInv
<1>a. /\ agent \in AgentRec /\ agent.seq \in Nat /\ agent.comp \in Nat /\ agent.inc \in Nat
      /\ agent.seq + 1 \in Nat /\ agent.inc + 1 \in Nat /\ agent.status \in AgentStatus
  BY AgentTypes DEF TypeOK
<1>b. /\ agent.comp <= agent.seq
      /\ agent.alive /\ agent.status \in Busy => turn # None
      /\ agent.alive /\ turn # None => agent.status # "idle"
      /\ \A r \in Requests : TurnInv(r)
  BY DEF EInv, AgentInv
<1>c. /\ turn \in Requests \cup {Human, None} /\ None \notin Requests /\ Human # None
      /\ Human \notin Requests
      /\ turnOver \in [Requests -> BOOLEAN] /\ ownEnded \in [Requests -> BOOLEAN]
      /\ intruded \in [Requests -> BOOLEAN]
  BY RequestsAssumption DEF TypeOK
<1>d. ASSUME NEW s \in AgentStatus, NEW c \in Nat, Change(s, c)
      PROVE  /\ agent.alive /\ agent'.alive = agent.alive /\ agent'.inc = agent.inc
             /\ agent'.status = s /\ agent'.seq = agent.seq + 1 /\ agent'.comp = c
             /\ UNCHANGED <<w, lane, lastAttach, obs, disp, pc, snap>>
  BY <1>d, <1>a DEF Change, AgentRec, rowVars, procVars
<1>e. UNCHANGED <<w, lane>> => Rows' = Rows
  BY DEF Rows
<1>1. ASSUME NEW owner \in Requests \cup {Human}, Begin(owner)
      PROVE  AgentMoves /\ UNCHANGED <<w, lane, lastAttach, obs, disp, pc, snap>>
  <2>1. Change("working", agent.comp) /\ "working" \in AgentStatus
    BY <1>1 DEF Begin, AgentStatus
  <2>2. /\ agent'.status = "working" /\ agent'.seq = agent.seq + 1 /\ agent'.comp = agent.comp
        /\ agent'.inc = agent.inc /\ UNCHANGED <<w, lane, lastAttach, obs, disp, pc, snap>>
    BY <2>1, <1>a, <1>d
  <2>3. /\ turn' = owner /\ owner # None /\ UNCHANGED <<ownEnded, turnOver>>
        /\ \A r \in Requests : intruded'[r] = (intruded[r] \/ (r # owner /\ Awaits(r)))
    BY <1>1, <1>c DEF Begin
  <2>4. ASSUME NEW r \in Requests PROVE AwaitsTurn(r)
    <3>1. Baselined(r) /\ ~ownEnded'[r] /\ ~intruded'[r] => turn' = r
      BY <2>3 DEF Awaits
    <3>2. /\ turnOver'[r] <=> turnOver[r]
          /\ ownEnded'[r] <=> ownEnded[r]
          /\ intruded[r] => intruded'[r]
      BY <2>3
    <3> QED
      BY <2>2, <2>3, <3>1, <3>2 DEF AwaitsTurn
  <2> QED
    BY <1>a, <1>b, <2>2, <2>3, <2>4 DEF AgentMoves
<1>2. ASSUME NEW s \in AgentStatus, Change(s, agent.comp),
             UNCHANGED <<turn, ownEnded, intruded, turnOver>>,
             s \in Busy => turn # None, turn # None => s # "idle"
      PROVE  AgentMoves /\ UNCHANGED <<w, lane, lastAttach, obs, disp, pc, snap>>
  <2>1. /\ agent'.status = s /\ agent'.seq = agent.seq + 1 /\ agent'.comp = agent.comp
        /\ agent'.inc = agent.inc /\ UNCHANGED <<w, lane, lastAttach, obs, disp, pc, snap>>
    BY <1>2, <1>a, <1>d
  <2>2. \A r \in Requests : AwaitsTurn(r)
    BY <1>2, <2>1 DEF AwaitsTurn
  <2> QED
    BY <1>2, <1>a, <1>b, <2>1, <2>2 DEF AgentMoves
<1>3. CASE \E r \in Requests : BeginTurn(r)
  BY <1>1, <1>3, <1>e DEF BeginTurn
<1>4. CASE BeginHumanTurn
  BY <1>1, <1>4, <1>e DEF BeginHumanTurn
<1>5. CASE Block
  <2>1. agent.alive /\ agent.status = "working" /\ turn # None
    BY <1>5, <1>b DEF Block, Change, Busy
  <2> QED
    BY <1>2, <1>5, <1>e, <2>1 DEF Block, AgentStatus
<1>6. CASE Obscure
  BY <1>2, <1>6, <1>e DEF Obscure, AgentStatus, Busy
<1>7. CASE Resume
  BY <1>2, <1>7, <1>e DEF Resume, AgentStatus, Busy
<1>8. CASE EndTurn
  <2>1. PICK comp \in {agent.comp, agent.seq + 1} : Change("idle", comp)
    BY <1>8 DEF EndTurn
  <2>2. /\ agent'.status = "idle" /\ agent'.seq = agent.seq + 1 /\ agent'.comp = comp
        /\ agent'.inc = agent.inc /\ UNCHANGED <<w, lane, lastAttach, obs, disp, pc, snap>>
    BY <2>1, <1>a, <1>d DEF AgentStatus
  <2>3. /\ turn # None /\ turn' = None /\ UNCHANGED intruded
        /\ \A r \in Requests : /\ ownEnded'[r] = (ownEnded[r] \/ r = turn)
                               /\ turnOver'[r] = (turnOver[r] \/ Baselined(r))
    BY <1>8 DEF EndTurn
  <2>4. ASSUME NEW r \in Requests PROVE AwaitsTurn(r)
    <3>1. /\ turnOver'[r] <=> turnOver[r] \/ Baselined(r)
          /\ ownEnded'[r] <=> ownEnded[r] \/ r = turn
          /\ intruded'[r] <=> intruded[r]
      BY <2>3
    <3>2. Baselined(r) /\ ~ownEnded[r] /\ ~intruded[r] => turn = r
      BY <1>b, <2>3 DEF TurnInv
    <3> QED
      BY <2>3, <3>1, <3>2 DEF AwaitsTurn
  <2>5. comp >= agent.comp /\ comp <= agent.seq + 1
    BY <1>a, <1>b
  <2>6. agent'.status \notin Busy
    BY <2>2 DEF Busy
  <2> QED
    BY <1>a, <1>e, <2>2, <2>3, <2>4, <2>5, <2>6 DEF AgentMoves
<1>9. CASE ReplaceAgent \/ ClosePane \/ ReleaseClose
  <2>1. /\ agent'.seq >= agent.seq /\ agent'.comp = agent.comp
        /\ \/ agent'.inc > agent.inc /\ (agent'.alive => agent'.status = "idle") /\ turn' = None
           \/ agent' = agent /\ turn' = turn
    <3>1. CASE ReplaceAgent
      BY <3>1, <1>a DEF ReplaceAgent, AgentRec
    <3>2. CASE ClosePane
      BY <3>2, <1>a DEF ClosePane, AgentRec
    <3>3. CASE ReleaseClose
      <4>1. \/ turn' = None /\ agent' = [agent EXCEPT !.alive = FALSE, !.inc = agent.inc + 1]
            \/ agent' = agent /\ turn' = turn
        BY <3>3 DEF ReleaseClose
      <4>2. CASE turn' = None /\ agent' = [agent EXCEPT !.alive = FALSE, !.inc = agent.inc + 1]
        BY <4>2, <1>a DEF AgentRec
      <4>3. CASE agent' = agent /\ turn' = turn
        BY <4>3, <1>a
      <4> QED
        BY <4>1, <4>2, <4>3
    <3> QED
      BY <1>9, <3>1, <3>2, <3>3
  <2>2. /\ UNCHANGED <<w, lastAttach, obs, disp, pc, snap, ownEnded, intruded, turnOver>>
        /\ Rows' = Rows
    <3>1. ReleaseClose => lane.step # "free" /\ lane'.step # "free" /\ lane'.row = lane.row
      BY DEF ReleaseClose, Hold
    <3>2. CASE ReleaseClose
      BY <3>1, <3>2 DEF ReleaseClose, rowVars, procVars, Rows
    <3>3. CASE ReplaceAgent \/ ClosePane
      BY <1>e, <3>3 DEF ReplaceAgent, ClosePane, rowVars, procVars
    <3> QED
      BY <1>9, <3>2, <3>3
  <2>3. agent'.inc \in Nat /\ agent'.seq \in Nat
    BY AgentTypes DEF TypeOK
  <2>4. ASSUME NEW r \in Requests PROVE AwaitsTurn(r)
    <3>1. /\ turnOver'[r] <=> turnOver[r]
          /\ ownEnded'[r] <=> ownEnded[r]
          /\ intruded'[r] <=> intruded[r]
      BY <2>2
    <3>2. agent'.inc = agent.inc => turn' = turn
      BY <1>a, <2>1, <2>3
    <3> QED
      BY <2>1, <3>1, <3>2 DEF AwaitsTurn
  <2> QED
    BY <1>a, <1>b, <2>1, <2>2, <2>3, <2>4 DEF AgentMoves, Busy
<1>10. ~ResetSequence
  BY DEF ResetSequence, Disturb, CountersRun
<1> QED
  BY <1>3, <1>4, <1>5, <1>6, <1>7, <1>8, <1>9, <1>10 DEF Agent

\* A sample is what the agent is now.
LEMMA SampleKeeps ==
  ASSUME EInv, TypeOK, TypeOK', NEW kind \in {"event", "refresh", "held"}, Sample(kind)
  PROVE  EInv'
<1>a. /\ obs' = [kind |-> kind, attach |-> w.attach, p |-> agent] /\ ~Sampled
      /\ UNCHANGED <<agentVars, w, lastAttach, disp, pc, snap, lane>>
  BY DEF Sample, Sampled, rowVars, procVars
<1>b. obs'.p = agent /\ obs'.attach = w.attach
  BY <1>a
<1>c. Rows' = Rows /\ w \in Rows
  BY <1>a DEF Rows
<1>d. agent.seq \in Nat /\ agent.comp \in Nat /\ agent.inc \in Nat
  BY AgentTypes DEF TypeOK
<1>1. AgentInv'
  BY <1>a, <1>b, <1>c, <1>d DEF EInv, AgentInv, agentVars
<1>2. ASSUME NEW r \in Requests PROVE EvidenceInv(r)' /\ TurnInv(r)'
  <2>1. EvidenceInv(r) /\ TurnInv(r) /\ AgentInv
    BY DEF EInv
  <2>2. /\ Baselined(r)' = Baselined(r) /\ SeqBase(r)' = SeqBase(r)
        /\ CompBase(r)' = CompBase(r) /\ Working(r)' = Working(r)
    BY <1>a DEF Baselined, SeqBase, CompBase, Working, agentVars
  <2>3. EvidenceInv(r)'
    BY <1>a, <1>b, <1>c, <1>d, <2>1, <2>2 DEF EvidenceInv, AgentInv, agentVars
  <2>4. TurnInv(r)'
    BY <1>a, <2>1, <2>2 DEF TurnInv, agentVars
  <2> QED
    BY <2>3, <2>4
<1> QED
  BY <1>1, <1>2 DEF EInv

\* Every row is a copy of an earlier one, or a new binding to the present agent.
Rebinds ==
  /\ lastAttach' \in {lastAttach, lastAttach + 1}
  /\ \A row \in Rows' :
       \/ \E old \in Rows : row.attach = old.attach /\ row.inc = old.inc
       \/ /\ row.attach = lastAttach' /\ lastAttach' = lastAttach + 1
          /\ row.inc <= agent.inc
  /\ obs' = obs \/ ~Sampled'
  /\ UNCHANGED <<agent, turn, ownEnded, intruded, turnOver>>

LEMMA RebindsKeep ==
  ASSUME EInv, TypeOK, TypeOK', Rebinds
  PROVE  AgentInv'
<1>a. /\ agent \in AgentRec /\ obs.p \in AgentRec /\ lastAttach \in Nat /\ obs.attach \in Nat
      /\ \A row \in Rows : row \in WorkerRec
      /\ \A row \in Rows' : row.inc \in Nat /\ row.attach \in Nat
  <2>1. \A row \in Rows' : row \in WorkerRec
    BY RowsAre, SampleAndLane DEF TypeOK, LaneRec
  <2> QED
    BY <2>1, RowTypes, SampleAndLane, WorkerTypes DEF TypeOK, SampleRec
<1>b. /\ agent.inc \in Nat /\ obs.p.inc \in Nat
      /\ \A row \in Rows : row.inc \in Nat /\ row.attach \in Nat
  BY <1>a, AgentTypes, WorkerTypes
<1>1. UNCHANGED <<agent, turn>> /\ AgentInv /\ lastAttach <= lastAttach' /\ lastAttach' \in Nat
      /\ (Sampled' => Sampled /\ obs' = obs)
  BY <1>a DEF Rebinds, EInv, Sampled
<1>2. ASSUME NEW row \in Rows'
      PROVE  /\ row.inc <= agent.inc /\ row.attach <= lastAttach'
             /\ Sampled /\ obs.attach = row.attach => row.inc <= obs.p.inc
  <2>1. CASE \E old \in Rows : row.attach = old.attach /\ row.inc = old.inc
    BY <1>a, <1>b, <1>1, <2>1 DEF AgentInv
  <2>2. CASE /\ row.attach = lastAttach' /\ lastAttach' = lastAttach + 1
             /\ row.inc <= agent.inc
    BY <1>a, <1>b, <1>1, <2>2 DEF AgentInv
  <2> QED
    BY <2>1, <2>2 DEF Rebinds
<1>3. Sampled' => obs'.attach <= lastAttach'
  BY <1>a, <1>1 DEF AgentInv
<1> QED
  BY <1>1, <1>2, <1>3 DEF AgentInv

\* What such a step must leave of one dispatch for its evidence to stand.
RowStands(r) ==
  /\ KeepsEvidence(disp[r], disp'[r])
  /\ pc'[r] = "intent" => pc[r] = "intent" /\ snap'[r] = snap[r]
  /\ snap'[r].attach <= lastAttach'
  /\ pc[r] = "intent" => ~activeDispatch(disp[r])

LEMMA StandingKeeps ==
  ASSUME EInv, TypeOK, TypeOK', Rebinds, NEW r \in Requests, RowStands(r)
  PROVE  EvidenceInv(r)' /\ TurnInv(r)'
<1>a. /\ lastAttach \in Nat /\ lastAttach' \in Nat /\ disp[r].attach \in Nat
  BY DispatchTypes DEF TypeOK
<1>1. EvidenceInv(r) /\ TurnInv(r) /\ UNCHANGED <<agent, turn, ownEnded, intruded, turnOver>>
      /\ (Sampled' => Sampled /\ obs' = obs)
  BY DEF EInv, Rebinds, Sampled
<1>2. /\ Baselined(r)' => Baselined(r) /\ SeqBase(r)' = SeqBase(r) /\ CompBase(r)' = CompBase(r)
      /\ Working(r)' => Working(r)
  BY <1>1 DEF RowStands, KeepsEvidence, Baselined, SeqBase, CompBase, Working
<1>3. /\ disp'[r].attach = disp[r].attach /\ disp'[r].ended = disp[r].ended
      /\ disp'[r].endSeq = disp[r].endSeq /\ snap'[r].attach <= lastAttach'
  BY DEF RowStands, KeepsEvidence
<1>4. ASSUME NEW row \in Rows', row.attach = disp[r].attach
      PROVE  \E old \in Rows : row.attach = old.attach /\ row.inc = old.inc
  BY <1>a, <1>1, <1>4 DEF Rebinds, EvidenceInv
<1>5. disp'[r].attach <= lastAttach'
  BY <1>a, <1>1, <1>3 DEF EvidenceInv, Rebinds
<1>6. (Working(r) => \A row \in Rows : row.attach = disp[r].attach /\ row.inc = agent.inc
                                       => turn # None)'
  BY <1>1, <1>2, <1>3, <1>4 DEF EvidenceInv
<1>7. (Working(r) /\ Sampled /\ obs.p.alive /\ obs.p.status = "idle" =>
         \A row \in Rows : row.attach = disp[r].attach /\ obs.attach = row.attach
                           => row.inc # obs.p.inc)'
  BY <1>1, <1>2, <1>3, <1>4 DEF EvidenceInv
<1>8. EvidenceInv(r)'
  BY <1>1, <1>2, <1>3, <1>5, <1>6, <1>7 DEF EvidenceInv
<1>9. TurnInv(r)'
  BY <1>1, <1>2 DEF TurnInv
<1> QED
  BY <1>8, <1>9

LEMMA StandingAll ==
  ASSUME EInv, IInv, TypeOK', Rebinds,
         \A r \in Requests :
           /\ KeepsEvidence(disp[r], disp'[r])
           /\ pc'[r] = "intent" => pc[r] = "intent"
           /\ snap'[r] = snap[r] \/ (snap'[r].attach <= lastAttach' /\ pc'[r] # "intent")
  PROVE  EInv'
<1>1. TypeOK /\ lastAttach \in Nat
  BY DEF IInv, TypeOK
<1>2. ASSUME NEW r \in Requests PROVE RowStands(r)
  <2>1. pc[r] = "intent" => ~activeDispatch(disp[r])
    BY DEF IInv, HandlerInv, activeDispatch
  <2>2. snap[r].attach <= lastAttach /\ snap[r].attach \in Nat
    BY <1>1 DEF EInv, EvidenceInv, TypeOK, SnapRec
  <2>3. snap'[r].attach <= lastAttach'
    BY <1>1, <2>2 DEF Rebinds
  <2> QED
    BY <2>1, <2>3 DEF RowStands
<1> QED
  BY <1>1, <1>2, RebindsKeep, StandingKeeps DEF EInv

\* Steps that leave the rows where they are, or copy one.
LEMMA CopiesRebind ==
  ASSUME TypeOK, UNCHANGED <<agent, turn, ownEnded, intruded, turnOver, lastAttach>>, obs' = obs \/ ~Sampled',
         \A row \in Rows' : \E old \in Rows : row.attach = old.attach /\ row.inc = old.inc
  PROVE  Rebinds
BY DEF Rebinds, TypeOK

LEMMA EInvHandler ==
  ASSUME EInv, IInv, TypeOK', NEW x \in Requests,
         Accept(x) \/ TakeLane(x) \/ Refuse(x) \/ Prompt(x) \/ Result(x)
  PROVE  EInv'
<1>a. /\ TypeOK /\ disp \in [Requests -> DispatchRec]
      /\ pc \in [Requests -> {"new", "wait", "probe", "intent", "prompt", "result",
                              "end", "dead"}]
      /\ snap \in [Requests -> SnapRec] /\ w.attach <= lastAttach /\ lastAttach \in Nat
  BY RowsAre DEF IInv, TypeOK, EInv, AgentInv
<1>1. /\ UNCHANGED <<agent, turn, ownEnded, intruded, turnOver, w, lane, lastAttach, obs>>
  BY DEF Accept, TakeLane, Refuse, Prompt, Result, agentVars
<1>2. Rows' = Rows /\ \A row \in Rows' : \E old \in Rows : row.attach = old.attach /\ row.inc = old.inc
  BY <1>1 DEF Rows
<1>3. ASSUME NEW r \in Requests
      PROVE  /\ KeepsEvidence(disp[r], disp'[r])
             /\ pc'[r] = "intent" => pc[r] = "intent"
             /\ snap'[r] = snap[r] \/ (snap'[r].attach <= lastAttach' /\ pc'[r] # "intent")
  <2>1. KeepsEvidence(disp[r], disp[r])
    BY DEF KeepsEvidence
  <2>2. CASE Accept(x)
    BY <1>a, <2>1, <2>2 DEF Accept
  <2>3. CASE TakeLane(x)
    <3>1. snap'[x].attach = w.attach /\ (r # x => snap'[r] = snap[r])
      BY <1>a, <2>3 DEF TakeLane, SnapRec
    <3> QED
      BY <1>a, <1>1, <2>1, <2>3, <3>1 DEF TakeLane, rowVars
  <2>4. CASE Refuse(x)
    <3>1. snap'[x].attach = 0 /\ (r # x => snap'[r] = snap[r])
      BY <1>a, <2>4 DEF Refuse, End, NoSnap
    <3> QED
      BY <1>a, <1>1, <2>1, <2>4, <3>1 DEF Refuse, End
  <2>5. CASE Prompt(x)
    BY <1>a, <2>1, <2>5 DEF Prompt, rowVars
  <2>6. CASE Result(x)
    <3>1. snap'[x].attach = 0 /\ (r # x => snap'[r] = snap[r] /\ disp'[r] = disp[r])
          /\ disp'[x] = Delivered(disp[x], answer[x])
      BY <1>a, <2>6 DEF Result, End, NoSnap
    <3>2. KeepsEvidence(disp[x], disp'[x])
      BY <1>a, <3>1, DeliveredKeeps
    <3> QED
      BY <1>a, <1>1, <2>1, <2>6, <3>1, <3>2 DEF Result, End
  <2> QED
    BY <2>2, <2>3, <2>4, <2>5, <2>6
<1> QED
  BY <1>a, <1>1, <1>2, <1>3, CopiesRebind, StandingAll

\* The two steps that take the baselines and put them on record.
LEMMA EInvBaselines ==
  ASSUME EInv, IInv, TypeOK', NEW x \in Requests, Probe(x) \/ Intent(x)
  PROVE  EInv'
<1>a. /\ TypeOK /\ disp \in [Requests -> DispatchRec] /\ snap \in [Requests -> SnapRec]
      /\ pc \in [Requests -> {"new", "wait", "probe", "intent", "prompt", "result",
                              "end", "dead"}]
      /\ agent.seq \in Nat /\ agent.comp \in Nat /\ obs.p \in AgentRec
  BY AgentTypes, SampleAndLane DEF IInv, TypeOK, SampleRec
<1>b. /\ obs.p.seq \in Nat /\ snap[x].attach \in Nat /\ snap[x].seq \in Nat
      /\ snap[x].comp \in Nat
  BY <1>a, AgentTypes DEF SnapRec
<1>1. UNCHANGED <<agent, turn, ownEnded, intruded, turnOver, w, lane, lastAttach, obs>>
  BY DEF Probe, Intent, agentVars
<1>2. Rows' = Rows
  BY <1>1 DEF Rows
<1>3. AgentInv'
  BY <1>1, <1>2 DEF EInv, AgentInv, Sampled
<1>4. ASSUME NEW r \in Requests, disp'[r] = disp[r], pc'[r] = pc[r], snap'[r] = snap[r]
      PROVE  EvidenceInv(r)' /\ TurnInv(r)'
  <2>1. /\ Baselined(r)' = Baselined(r) /\ SeqBase(r)' = SeqBase(r)
        /\ CompBase(r)' = CompBase(r) /\ Working(r)' = Working(r) /\ Sampled' = Sampled
    BY <1>1, <1>4 DEF Baselined, SeqBase, CompBase, Working, Sampled
  <2>2. EvidenceInv(r) /\ TurnInv(r)
    BY DEF EInv
  <2>3. EvidenceInv(r)'
    BY <1>1, <1>2, <1>4, <2>1, <2>2 DEF EvidenceInv
  <2>4. TurnInv(r)'
    BY <1>1, <2>1, <2>2 DEF TurnInv
  <2> QED
    BY <2>3, <2>4
<1>5. EvidenceInv(x) /\ TurnInv(x) /\ AgentInv
  BY DEF EInv
<1>6. CASE Probe(x)
  <2>1. /\ pc[x] = "probe" /\ pc'[x] = "intent" /\ disp' = disp
        /\ snap'[x].seq = agent.seq /\ snap'[x].comp = agent.comp
        /\ snap'[x].attach = snap[x].attach
        /\ agent.alive /\ agent.status = "idle"
        /\ \A r \in Requests : r # x => pc'[r] = pc[r] /\ snap'[r] = snap[r]
    BY <1>6, <1>a DEF Probe, rowVars, verifyAttachment, idle, SnapRec
  <2>2. ~activeDispatch(disp[x]) /\ turn = None
    BY <1>5, <2>1 DEF IInv, HandlerInv, activeDispatch, AgentInv
  <2>3. SeqBase(x)' = agent.seq /\ CompBase(x)' = agent.comp /\ ~Working(x)'
    BY <2>1, <2>2 DEF SeqBase, CompBase, Working
  <2>4. Sampled' = Sampled /\ (Sampled => ~(obs.p.seq > agent.seq))
    BY <1>1, <1>5, <1>a, <1>b DEF AgentInv, Sampled
  <2>5. EvidenceInv(x)'
    BY <1>1, <1>5, <1>a, <2>1, <2>3, <2>4 DEF EvidenceInv
  <2>6. TurnInv(x)'
    BY <1>1, <1>5, <2>2 DEF TurnInv
  <2> QED
    BY <1>3, <1>4, <2>1, <2>5, <2>6 DEF EInv
<1>7. CASE Intent(x)
  <2> DEFINE d == [NoDispatch EXCEPT !.status = "sending", !.attach = snap[x].attach,
                                     !.base = snap[x].seq, !.baseComp = snap[x].comp]
  <2>1. /\ d.status = "sending" /\ d.attach = snap[x].attach /\ d.base = snap[x].seq
        /\ d.baseComp = snap[x].comp /\ d.work = 0 /\ d.ended = FALSE
    BY DEF NoDispatch
  <2>2. disp' = [disp EXCEPT ![x] = d] /\ pc' = [pc EXCEPT ![x] = "prompt"]
        /\ snap' = [snap EXCEPT ![x] = NoSnap] /\ pc[x] = "intent"
    BY <1>7 DEF Intent
  <2> HIDE DEF d
  <2>3. /\ disp'[x] = d /\ pc'[x] = "prompt" /\ snap'[x] = NoSnap
        /\ \A r \in Requests : r # x => /\ disp'[r] = disp[r] /\ pc'[r] = pc[r]
                                        /\ snap'[r] = snap[r]
    BY <1>a, <2>2
  <2>4. /\ Baselined(x) /\ SeqBase(x)' = SeqBase(x) /\ CompBase(x)' = CompBase(x)
        /\ ~Working(x)' /\ Sampled' = Sampled
    BY <1>1, <1>b, <2>1, <2>2, <2>3 DEF Baselined, SeqBase, CompBase, Working, Sampled
  <2>5. disp'[x].attach <= lastAttach /\ snap'[x].attach <= lastAttach
    BY <1>5, <1>a, <2>1, <2>3 DEF EvidenceInv, NoSnap, TypeOK
  <2>6. EvidenceInv(x)'
    BY <1>1, <1>5, <2>1, <2>3, <2>4, <2>5 DEF EvidenceInv
  <2>7. TurnInv(x)'
    BY <1>1, <1>5, <2>4 DEF TurnInv
  <2> QED
    BY <1>3, <1>4, <2>3, <2>6, <2>7 DEF EInv
<1> QED
  BY <1>6, <1>7

\* Reports, failures, resolutions and looks.
LEMMA EInvReports ==
  ASSUME EInv, IInv, TypeOK',
         \/ \E r \in Requests : Fail(r) \/ ResolveLooks(r) \/ ResolveRejected(r)
         \/ \E r \in Requests, o \in {"done", "failed"} : Done(r, o)
         \/ \E r \in Requests, v \in {"completed", "failed"} : Resolve(r, v)
  PROVE  EInv'
<1>1. UNCHANGED <<agentVars, w, lane, lastAttach, obs, pc, snap>> /\ TypeOK
  BY DEF IInv, Fail, ResolveLooks, ResolveRejected, Done, Resolve, procVars
<1>2. Rows' = Rows
  BY <1>1 DEF Rows
<1>3. ASSUME NEW r \in Requests PROVE KeepsEvidence(disp[r], disp'[r])
  <2>1. KeepsEvidence(disp[r], disp[r])
    BY DEF KeepsEvidence
  <2>2. ASSUME NEW x \in Requests, Fail(x) \/ ResolveLooks(x) \/ ResolveRejected(x)
        PROVE  KeepsEvidence(disp[r], disp'[r])
    BY <1>1, <2>1, <2>2, FailOpenKeeps DEF Fail, ResolveLooks, ResolveRejected, rowVars
  <2>3. ASSUME NEW x \in Requests, NEW o \in {"done", "failed"}, Done(x, o)
        PROVE  KeepsEvidence(disp[r], disp'[r])
    BY <1>1, <2>3, DoneKeeps
  <2>4. ASSUME NEW x \in Requests, NEW v \in {"completed", "failed"}, Resolve(x, v)
        PROVE  KeepsEvidence(disp[r], disp'[r])
    BY <1>1, <2>1, <2>4, FailOpenKeeps DEF Resolve
  <2> QED
    BY <2>2, <2>3, <2>4
<1> QED
  BY <1>1, <1>2, <1>3, CopiesRebind, StandingAll DEF agentVars

\* Steps of the session lane but for the observation, and the crash.
LEMMA EInvSession ==
  ASSUME EInv, IInv, TypeOK',
         \/ EventForgotten \/ DropSample \/ Lose \/ Unverified \/ Disconnected \/ SessionDown
         \/ Crash
  PROVE  EInv'
<1>a. TypeOK /\ w \in WorkerRec /\ {"lost", "offline"} \subseteq WorkerState
  BY DEF IInv, TypeOK, WorkerState
<1>b. NoSample.kind = "off" /\ FreeLane.step = "free" /\ NoSnap.attach = 0
  BY DEF NoSample, FreeLane, NoSnap
<1>1. /\ UNCHANGED <<agentVars, lastAttach, disp>>
      /\ obs' = obs \/ ~Sampled'
      /\ lane' = lane \/ lane'.step = "free"
      /\ UNCHANGED <<pc, snap>> \/ Crash
  BY <1>b DEF EventForgotten, DropSample, Lose, Unverified, Disconnected, SessionDown, Offline,
     Crash, rowVars, procVars, Sampled
<1>2. w'.attach = w.attach /\ w'.inc = w.inc
  <2>1. CASE EventForgotten \/ DropSample \/ Crash
    BY <2>1 DEF EventForgotten, DropSample, Crash
  <2>2. CASE Lose
    BY <1>a, <2>2, WorkerFields DEF Lose
  <2>3. CASE Unverified
    BY <1>a, <2>3, WorkerFields DEF Unverified
  <2>4. CASE Disconnected \/ SessionDown
    <3>1. w' = w \/ w' = [w EXCEPT !.state = "offline"]
      BY <2>4 DEF Disconnected, SessionDown, Offline
    <3> QED
      BY <1>a, <3>1 DEF WorkerRec
  <2> QED
    BY <2>1, <2>2, <2>3, <2>4
<1>3. \A row \in Rows' : \E old \in Rows : row.attach = old.attach /\ row.inc = old.inc
  BY <1>1, <1>2, RowsAre
<1>4. Rebinds
  BY <1>a, <1>1, <1>3, CopiesRebind DEF agentVars
<1>5. ASSUME NEW r \in Requests
      PROVE  /\ KeepsEvidence(disp[r], disp'[r])
             /\ pc'[r] = "intent" => pc[r] = "intent"
             /\ snap'[r] = snap[r] \/ (snap'[r].attach <= lastAttach' /\ pc'[r] # "intent")
  <2>1. KeepsEvidence(disp[r], disp'[r])
    BY <1>1 DEF KeepsEvidence
  <2>2. CASE Crash
    <3>1. snap'[r] = NoSnap /\ pc'[r] # "intent"
      BY <2>2 DEF Crash, inFlight
    <3>2. snap'[r].attach <= lastAttach'
      BY <1>a, <1>1, <1>b, <3>1 DEF TypeOK
    <3> QED
      BY <2>1, <3>1, <3>2
  <2> QED
    BY <1>1, <2>1, <2>2
<1> QED
  BY <1>4, <1>5, StandingAll

\* Lifecycle operations: they copy rows, or bind the worker anew.
LEMMA EInvLane ==
  ASSUME EInv, IInv, TypeOK',
         \/ RetainRead \/ RetainWrite \/ ReleaseRead \/ Released \/ CleanupUncertain
         \/ RetireAbsent \/ AdoptRead \/ AdoptWrite \/ LifecycleRefused
  PROVE  EInv'
<1>a. /\ TypeOK /\ w \in WorkerRec /\ lane.row \in WorkerRec /\ agent.inc \in Nat
      /\ {"released", "offline"} \subseteq WorkerState
  BY AgentTypes, SampleAndLane DEF IInv, TypeOK, LaneRec, WorkerState
<1>b. \A step, row : Hold(step, row) => lane'.step = step /\ lane'.row = row
  BY DEF Hold
<1>c. FreeLane.step = "free"
  BY DEF FreeLane
<1>1. UNCHANGED <<agentVars, obs, pc, snap>>
  BY DEF RetainRead, RetainWrite, ReleaseRead, Released, CleanupUncertain, RetireAbsent,
     AdoptRead, AdoptWrite, LifecycleRefused, Lifecycle, procVars
<1>2. ASSUME NEW r \in Requests PROVE KeepsEvidence(disp[r], disp'[r])
  <2>1. disp' = disp \/ FailOpen(Requests)
    BY DEF RetainRead, RetainWrite, ReleaseRead, Released, CleanupUncertain, RetireAbsent,
       AdoptRead, AdoptWrite, LifecycleRefused
  <2> QED
    BY <1>a, <2>1, FailOpenKeeps DEF KeepsEvidence
<1>3. CASE AdoptRead
  <2>1. /\ lastAttach' = lastAttach + 1 /\ w' = w
        /\ lane'.row.attach = lastAttach + 1 /\ lane'.row.inc = agent.inc
    BY <1>3, <1>b DEF AdoptRead
  <2>2. Rebinds
    BY <1>a, <1>1, <2>1, RowsAre DEF Rebinds, agentVars
  <2> QED
    BY <1>1, <1>2, <2>2, StandingAll
<1>4. CASE ~AdoptRead
  <2>1. UNCHANGED lastAttach
    BY <1>4 DEF RetainRead, RetainWrite, ReleaseRead, Released, CleanupUncertain, RetireAbsent,
       AdoptWrite, LifecycleRefused
  <2>2. \A row \in Rows' : \E old \in Rows : row.attach = old.attach /\ row.inc = old.inc
    <3>1. CASE RetainRead \/ ReleaseRead
      <4>1. w' = w /\ lane'.row = w
        BY <3>1, <1>b DEF RetainRead, ReleaseRead
      <4> QED
        BY <4>1, RowsAre
    <3>2. CASE RetainWrite \/ AdoptWrite
      <4>1. w' = lane.row /\ lane.step # "free" /\ lane'.step = "free"
        BY <3>2, <1>c DEF RetainWrite, AdoptWrite
      <4> QED
        BY <4>1, RowsAre
    <3>3. CASE Released \/ CleanupUncertain
      <4>1. w'.attach = lane.row.attach /\ w'.inc = lane.row.inc
        <5>1. CASE Released
          BY <1>a, <5>1, WorkerFields DEF Released
        <5>2. CASE CleanupUncertain
          BY <1>a, <5>2, WorkerFields DEF CleanupUncertain
        <5> QED
          BY <3>3, <5>1, <5>2
      <4>2. lane.step # "free" /\ lane'.step = "free"
        BY <3>3, <1>c DEF Released, CleanupUncertain
      <4> QED
        BY <4>1, <4>2, RowsAre
    <3>4. CASE RetireAbsent
      <4>1. w'.attach = w.attach /\ w'.inc = w.inc
        BY <1>a, <3>4, WorkerFields DEF RetireAbsent
      <4>2. lane'.step = "free"
        BY <3>4, <1>c DEF RetireAbsent
      <4> QED
        BY <4>1, <4>2, RowsAre
    <3>5. CASE LifecycleRefused
      BY <3>5, <1>c, RowsAre DEF LifecycleRefused
    <3> QED
      BY <1>4, <3>1, <3>2, <3>3, <3>4, <3>5
  <2>3. Rebinds
    BY <1>a, <1>1, <2>1, <2>2, CopiesRebind DEF agentVars
  <2> QED
    BY <1>1, <1>2, <2>3, StandingAll
<1> QED
  BY <1>3, <1>4

\* What a sample adds to a dispatch.
LEMMA ObservedEvidence ==
  ASSUME NEW d \in DispatchRec, activeDispatch(d), NEW p \in AgentRec
  PROVE  /\ Observed(d, p).attach = d.attach /\ Observed(d, p).base = d.base
         /\ Observed(d, p).baseComp = d.baseComp
         /\ Observed(d, p).work = d.work
            \/ (Observed(d, p).work = p.seq /\ p.seq > d.base /\ p.status \in Busy)
         /\ Observed(d, p).ended <=> d.ended \/ TurnEnds(d, p)
         /\ Observed(d, p).endSeq = IF ~d.ended /\ TurnEnds(d, p) THEN p.seq ELSE d.endSeq
         /\ Observed(d, p).status = "settled" => idle(p.status)
<1> DEFINE working == ~d.ended /\ p.seq > d.base /\ p.status \in {"working", "blocked"}
           ended   == d.ended \/ TurnEnds(d, p)
           work    == IF working THEN p.seq ELSE d.work
           endSeq  == IF ended /\ ~d.ended THEN p.seq ELSE d.endSeq
           seen    == [d EXCEPT !.work = work, !.ended = ended, !.endSeq = endSeq]
<1>1. /\ ended \in BOOLEAN /\ work \in Nat /\ endSeq \in Nat
      /\ work = d.work \/ (work = p.seq /\ p.seq > d.base /\ p.status \in Busy)
      /\ endSeq = IF ~d.ended /\ TurnEnds(d, p) THEN p.seq ELSE d.endSeq
  BY AgentTypes, DispatchTypes DEF TurnEnds, idle, Busy
<1>2. Observed(d, p) = IF ended /\ d.report # "none" /\ idle(p.status)
                       THEN Finish(seen, "settled", d.report) ELSE seen
  BY Zenon DEF Observed
<1>3. ended <=> d.ended \/ TurnEnds(d, p)
  OBVIOUS
<1> HIDE DEF ended, work, endSeq
<1>4. /\ seen.attach = d.attach /\ seen.base = d.base /\ seen.baseComp = d.baseComp
      /\ seen.work = work /\ seen.ended = ended /\ seen.endSeq = endSeq
      /\ seen.status = d.status /\ seen \in DispatchRec /\ seen.report = d.report
  BY <1>1 DEF DispatchRec
<1> HIDE DEF seen
<1>5. /\ activeDispatch(seen) /\ "settled" \in Status /\ d.report \in Outcome
      /\ d.status # "settled"
  BY <1>4, DispatchTypes DEF activeDispatch, Status, Outcome
<1>6. KeepsEvidence(seen, Finish(seen, "settled", d.report))
  BY <1>4, <1>5, FinishKeeps
<1>7. CASE ended /\ d.report # "none" /\ idle(p.status)
  <2>1. Observed(d, p) = Finish(seen, "settled", d.report)
    BY <1>2, <1>7
  <2> QED
    BY <1>1, <1>3, <1>4, <1>6, <1>7, <2>1 DEF KeepsEvidence
<1>8. CASE ~(ended /\ d.report # "none" /\ idle(p.status))
  <2>1. Observed(d, p) = seen
    BY <1>2, <1>8
  <2> QED
    BY <1>1, <1>3, <1>4, <1>5, <2>1
<1> QED
  BY <1>7, <1>8

\* The observation: a turn end it records is one, because a completion counter or
\* the worker's own process, busy before and idle now, shows it.
LEMMA EInvObserve == ASSUME EInv, IInv, TypeOK', Observe PROVE EInv'
<1> DEFINE p     == obs.p
           fresh == ~continuous \/ p.seq < w.seq
           hit   == {r \in Requests : /\ activeDispatch(disp[r]) /\ ~fresh
                                     /\ disp[r].attach = w.attach}
<1>a. /\ TypeOK /\ w \in WorkerRec /\ p \in AgentRec /\ agent \in AgentRec /\ lastAttach \in Nat
  BY SampleAndLane DEF IInv, TypeOK, SampleRec
<1>b. /\ w.inc \in Nat /\ w.attach \in Nat /\ agent.inc \in Nat /\ p.inc \in Nat
      /\ p.seq \in Nat /\ p.comp \in Nat /\ agent.seq \in Nat /\ agent.comp \in Nat
  BY <1>a, AgentTypes, WorkerTypes
<1>c. /\ Sampled /\ obs.attach = w.attach /\ p.alive /\ w \in Rows
      /\ AgentInv /\ \A r \in Requests : EvidenceInv(r) /\ TurnInv(r)
  BY RowsAre DEF Observe, Bound, Sampled, EInv
<1>1. /\ w'.attach = IF fresh THEN lastAttach + 1 ELSE w.attach
      /\ w'.inc = IF continuous THEN w.inc ELSE agent.inc
      /\ lastAttach' = IF fresh THEN lastAttach + 1 ELSE lastAttach
      /\ UNCHANGED <<agentVars, lane, pc, snap>> /\ ~Sampled'
  BY DEF Observe, procVars, NoSample, Sampled
<1>2. \A r \in Requests : disp'[r] = IF r \in hit THEN Observed(disp[r], p) ELSE disp[r]
  BY DEF Observe
<1>3. Rebinds
  <2>1. w.inc <= agent.inc
    BY <1>c DEF AgentInv
  <2>2. ~fresh => continuous
    OBVIOUS
  <2> HIDE DEF fresh
  <2>3. \/ w'.attach = w.attach /\ w'.inc = w.inc
        \/ /\ w'.attach = lastAttach' /\ lastAttach' = lastAttach + 1 /\ w'.inc <= agent.inc
    BY <1>b, <1>1, <2>1, <2>2
  <2> QED
    BY <1>1, <2>3, RowsAre DEF Rebinds, agentVars
<1>4. AgentInv'
  BY <1>a, <1>3, RebindsKeep
<1>5. ASSUME NEW r \in Requests, r \notin hit
      PROVE  EvidenceInv(r)' /\ TurnInv(r)'
  <2>1. disp'[r] = disp[r]
    BY <1>2, <1>5
  <2>2. pc[r] = "intent" => ~activeDispatch(disp[r])
    BY DEF IInv, HandlerInv, activeDispatch
  <2>3. snap[r].attach \in Nat /\ snap[r].attach <= lastAttach
    BY <1>a, <1>c DEF EvidenceInv, TypeOK, SnapRec
  <2>4. snap'[r].attach <= lastAttach'
    BY <1>a, <1>1, <2>3
  <2>5. RowStands(r)
    BY <1>1, <2>1, <2>2, <2>4 DEF RowStands, KeepsEvidence
  <2> QED
    BY <1>a, <1>3, <2>5, StandingKeeps
<1>6. ASSUME NEW r \in Requests, r \in hit
      PROVE  EvidenceInv(r)' /\ TurnInv(r)'
  <2> DEFINE d == disp[r]
             e == Observed(disp[r], p)
  <2>a. /\ d \in DispatchRec /\ activeDispatch(d) /\ continuous /\ d.attach = w.attach
        /\ pc[r] # "intent" /\ disp'[r] = e /\ lastAttach' = lastAttach
        /\ w'.attach = w.attach /\ w'.inc = w.inc
    BY <1>a, <1>1, <1>2, <1>6 DEF TypeOK, IInv, HandlerInv, activeDispatch
  <2>b. /\ d.attach \in Nat /\ d.base \in Nat /\ d.baseComp \in Nat /\ d.work \in Nat
        /\ d.endSeq \in Nat
    BY <2>a, DispatchTypes
  <2>1. /\ e.attach = d.attach /\ e.base = d.base /\ e.baseComp = d.baseComp
        /\ e.work = d.work \/ (e.work = p.seq /\ p.seq > d.base /\ p.status \in Busy)
        /\ e.ended <=> d.ended \/ TurnEnds(d, p)
        /\ e.endSeq = IF ~d.ended /\ TurnEnds(d, p) THEN p.seq ELSE d.endSeq
    BY <1>a, <2>a, ObservedEvidence
  <2> HIDE DEF e
  <2>2. Baselined(r) /\ SeqBase(r) = d.base /\ CompBase(r) = d.baseComp
    BY <2>a DEF Baselined, SeqBase, CompBase
  <2>3. p.inc = agent.inc /\ w.inc = agent.inc
    <3>1. agent.inc = w.inc
      BY <2>a DEF continuous, verifyAttachment
    <3>2. w.inc <= p.inc /\ p.inc <= agent.inc
      BY <1>c DEF AgentInv
    <3> QED
      BY <1>b, <3>1, <3>2
  <2>4. TurnEnds(d, p) => turnOver[r]
    <3> SUFFICES ASSUME TurnEnds(d, p), ~turnOver[r] PROVE FALSE
      OBVIOUS
    <3>1. CASE d.work > d.base /\ p.seq > d.work
      <4>1. Working(r) /\ p.status = "idle"
        BY <2>a, <3>1 DEF Working, TurnEnds, idle
      <4>2. w.inc # p.inc
        BY <1>c, <2>a, <4>1 DEF EvidenceInv
      <4> QED
        BY <2>3, <4>2
    <3>2. CASE p.comp > d.baseComp
      <4>1. p.comp <= agent.comp /\ agent.comp <= d.baseComp
        BY <1>c, <2>2 DEF AgentInv, EvidenceInv
      <4> QED
        BY <1>b, <2>b, <3>2, <4>1
    <3> QED
      BY <3>1, <3>2 DEF TurnEnds
  <2>5. UNCHANGED <<agent, turn, ownEnded, intruded, turnOver, pc, snap>>
    BY <1>1 DEF agentVars
  <2>6. (Baselined(r) /\ ~turnOver[r] => agent.comp <= CompBase(r))'
    BY <1>c, <2>1, <2>2, <2>a, <2>5 DEF EvidenceInv, CompBase
  <2>7. (Working(r) => \A row \in Rows : row.attach = disp[r].attach /\ row.inc = agent.inc
                                         => turn # None)'
    <3> SUFFICES ASSUME Working(r)', NEW row \in Rows',
                        row.attach = d.attach, row.inc = agent.inc
                 PROVE  turn # None
      BY <2>1, <2>5, <2>a
    <3>1. ~turnOver[r] /\ e.work > e.base
      BY <2>5, <2>a DEF Working
    <3>2. CASE e.work = d.work
      <4>1. Working(r)
        BY <2>1, <2>a, <3>1, <3>2 DEF Working
      <4>2. \E old \in Rows : old.attach = row.attach /\ old.inc = row.inc
        BY <1>1, <1>c, <2>a, RowsAre
      <4> QED
        BY <1>c, <4>1, <4>2 DEF EvidenceInv
    <3>3. CASE p.seq > d.base /\ p.status \in Busy
      BY <1>c, <2>2, <2>3, <3>1, <3>3 DEF EvidenceInv
    <3> QED
      BY <2>1, <3>2, <3>3
  <2>8. (disp[r].ended => /\ turnOver[r] /\ disp[r].endSeq <= agent.seq
                          /\ Sampled => disp[r].endSeq <= obs.p.seq)'
    <3>1. p.seq <= agent.seq
      BY <1>c DEF AgentInv
    <3> QED
      BY <1>1, <1>c, <2>1, <2>4, <2>5, <2>a, <3>1 DEF EvidenceInv
  <2>9. EvidenceInv(r)'
    BY <1>1, <1>c, <2>1, <2>5, <2>6, <2>7, <2>8, <2>a DEF EvidenceInv
  <2>10. TurnInv(r)'
    BY <1>c, <2>2, <2>5 DEF TurnInv
  <2> QED
    BY <2>9, <2>10
<1> QED
  BY <1>4, <1>5, <1>6 DEF EInv

LEMMA EInvStep == CountersRun /\ EInv /\ IInv /\ [Next]_vars => EInv'
<1> SUFFICES ASSUME CountersRun, EInv, IInv, [Next]_vars PROVE EInv'
  OBVIOUS
<1>1. TypeOK /\ TypeOK'
  BY TypeStep DEF IInv
<1>2. CASE UNCHANGED vars
  <2>1. UNCHANGED <<agentVars, w, lastAttach, obs, disp, pc, snap, lane>>
    BY <1>2 DEF vars, agentVars
  <2>2. Rows' = Rows
    BY <2>1 DEF Rows
  <2> QED
    BY <1>1, <2>1, <2>2, CopiesRebind, StandingAll DEF agentVars, KeepsEvidence
<1>3. CASE Agent \/ ReleaseClose
  BY <1>1, <1>3, AgentSteps, AgentMovesKeep
<1>4. CASE SampleEvent \/ Reconnect \/ SampleRefresh \/ SampleHeld
  BY <1>1, <1>4, SampleKeeps DEF SampleEvent, Reconnect, SampleRefresh, Refresh, SampleHeld
<1>5. ASSUME NEW r \in Requests, Accept(r) \/ Handler(r) PROVE EInv'
  BY <1>1, <1>5, EInvHandler, EInvBaselines DEF Handler
<1>6. CASE Next
  BY <1>1, <1>3, <1>4, <1>5, <1>6, EInvReports, EInvSession, EInvLane, EInvObserve
  DEF Next, Apply, Finishing
<1> QED
  BY <1>2, <1>6

\* Both halves along every behaviour.
THEOREM EvidenceInvariance == Spec => [](IInv /\ RowInv /\ (CountersRun => EInv))
<1>1. Init => IInv /\ RowInv /\ (CountersRun => EInv)
  BY InvInit, RowInvInit, EInvInit
<1>2. IInv /\ RowInv /\ (CountersRun => EInv) /\ [Next]_vars
        => (IInv /\ RowInv /\ (CountersRun => EInv))'
  BY InvStep, RowInvStep, EInvStep DEF CountersRun
<1> QED
  BY <1>1, <1>2, PTL DEF Spec

-----------------------------------------------------------------------------
(* What follows.                                                           *)

\* A turn end on record was one: as long as Herdr does not restart, no idle sample,
\* unreadable status, replaced process or late sample passes for the end of a turn.
THEOREM TurnEndsAreReal == Spec => [](CountersRun => TurnEvidenceIsReal)
<1>1. EInv => TurnEvidenceIsReal
  BY DEF EInv, EvidenceInv, TurnEvidenceIsReal
<1> QED
  BY <1>1, EvidenceInvariance, PTL

\* A dispatch that settled saw its own turn end, unless another turn came between.
THEOREM SettlesOnItsTurn == Spec => [](CountersRun => SettledOnOwnTurn)
<1>1. RowInv /\ EInv => SettledOnOwnTurn
  BY DEF RowInv, EInv, EvidenceInv, TurnInv, SettledOnOwnTurn
<1> QED
  BY <1>1, EvidenceInvariance, PTL

\* The step in which r settles finds the report and the turn end on record, and the
\* worker idle under the attachment of the dispatch.
Settles(r) == disp'[r].status = "settled" /\ disp[r].status # "settled"
SettlesIdle(r) ==
  Settles(r) => /\ disp'[r].report = disp'[r].outcome /\ disp'[r].ended
                /\ w'.attach = disp'[r].attach
                /\ w'.state = "idle" /\ w'.raw = "idle"

\* Only a report and an observation settle.
LEMMA SettlingSteps ==
  ASSUME IInv, Next, NEW r \in Requests, Settles(r)
  PROVE  (\E o \in {"done", "failed"} : Done(r, o)) \/ Observe
<1> SUFFICES ASSUME ~Observe, \A o \in {"done", "failed"} : ~Done(r, o) PROVE FALSE
  OBVIOUS
<1>a. TypeOK /\ disp \in [Requests -> DispatchRec] /\ disp'[r] # disp[r]
  BY DEF IInv, TypeOK, Settles
<1>1. ASSUME NEW x \in Requests, Accept(x) \/ Handler(x) PROVE FALSE
  <2>1. CASE Intent(x)
    BY <1>a, <2>1 DEF Intent, NoDispatch, Settles
  <2>2. CASE Result(x)
    BY <1>a, <2>2, DeliveredKeeps DEF Result, Settles
  <2>3. CASE Accept(x) \/ TakeLane(x) \/ Probe(x) \/ Refuse(x) \/ Prompt(x)
    BY <1>a, <2>3 DEF Accept, TakeLane, Probe, Refuse, Prompt, rowVars
  <2> QED
    BY <1>1, <2>1, <2>2, <2>3 DEF Handler
<1>2. ASSUME NEW rs, FailOpen(rs) PROVE FALSE
  BY <1>a, <1>2, FailOpenKeeps DEF Settles
<1>3. ASSUME NEW x \in Requests, Fail(x) \/ ResolveLooks(x) \/ ResolveRejected(x) PROVE FALSE
  BY <1>a, <1>2, <1>3 DEF Fail, ResolveLooks, ResolveRejected, rowVars
<1>4. ASSUME NEW x \in Requests, NEW o \in {"done", "failed"}, Done(x, o) PROVE FALSE
  <2>1. x # r
    BY <1>4
  <2>2. disp'[r] = disp[r]
    BY <1>a, <1>4, <2>1 DEF Done
  <2> QED
    BY <1>a, <2>2
<1>5. ASSUME NEW x \in Requests, NEW v \in {"completed", "failed"}, Resolve(x, v) PROVE FALSE
  BY <1>a, <1>2, <1>5 DEF Resolve
<1>6. CASE \/ Agent \/ SampleEvent \/ Reconnect \/ SampleRefresh \/ SampleHeld
           \/ EventForgotten \/ DropSample \/ Lose \/ Unverified \/ Disconnected
           \/ SessionDown \/ RetainRead \/ RetainWrite \/ ReleaseRead \/ ReleaseClose
           \/ CleanupUncertain \/ AdoptRead \/ LifecycleRefused
  BY <1>a, <1>6, QuietSteps
<1>7. CASE Released \/ RetireAbsent \/ AdoptWrite \/ Crash
  BY <1>a, <1>2, <1>7 DEF Released, RetireAbsent, AdoptWrite, Crash, rowVars
<1> QED
  BY <1>1, <1>3, <1>4, <1>5, <1>6, <1>7 DEF Next, Apply, Finishing

LEMMA SettlingStep ==
  ASSUME IInv, RowInv, Next, NEW r \in Requests, Settles(r)
  PROVE  SettlesIdle(r) /\ (CountersRun /\ EInv => w'.seq >= disp'[r].endSeq)
<1>a. /\ TypeOK /\ disp \in [Requests -> DispatchRec] /\ w \in WorkerRec /\ Says(w)
      /\ disp[r] \in DispatchRec
  BY RowsAre DEF IInv, TypeOK, RowInv
<1>1. ASSUME NEW o \in {"done", "failed"}, Done(r, o)
      PROVE  SettlesIdle(r) /\ w'.seq >= disp'[r].endSeq
  <2> DEFINE d == [disp[r] EXCEPT !.report = o]
  <2>1. /\ d \in DispatchRec /\ d.report = o /\ d.status = disp[r].status
        /\ KeepsEvidence(disp[r], d)
    BY <1>a, ReportKeeps
  <2>2. activeDispatch(disp[r]) /\ disp[r].attach = w.attach /\ w' = w
    BY <1>1 DEF Done
  <2>3. TurnEndStands(d)
    <3> SUFFICES ASSUME ~TurnEndStands(d) PROVE FALSE
      OBVIOUS
    <3>1. disp' = [disp EXCEPT ![r] = d]
      BY <1>1 DEF Done
    <3> QED
      BY <1>a, <2>1, <3>1 DEF Settles
  <2>4. disp'[r] = Finish(d, "settled", o)
    BY <1>1, <1>a, <2>3 DEF Done
  <2> HIDE DEF d
  <2>5. activeDispatch(d) /\ "settled" \in Status /\ o \in Outcome
    BY <2>1, <2>2 DEF activeDispatch, Status, Outcome
  <2>6. /\ disp'[r].outcome = o /\ disp'[r].report = o /\ KeepsEvidence(d, disp'[r])
    BY <2>1, <2>4, <2>5, FinishKeeps
  <2>7. /\ disp'[r].ended = d.ended /\ disp'[r].endSeq = d.endSeq
        /\ disp'[r].attach = disp[r].attach
    BY <2>1, <2>6 DEF KeepsEvidence
  <2>8. /\ d.ended /\ w.raw = "idle" /\ w.seq >= d.endSeq /\ w.state \notin {"offline", "lost"}
    BY <2>3 DEF TurnEndStands, idle
  <2>9. w.state # "released"
    BY <2>2 DEF RowInv
  <2>10. w.state = "idle"
    BY <1>a, <2>8, <2>9 DEF Says
  <2> QED
    BY <2>2, <2>6, <2>7, <2>8, <2>10 DEF SettlesIdle
<1>2. CASE Observe
  <2> DEFINE p == obs.p
             e == Observed(disp[r], p)
  <2>1. p \in AgentRec /\ p.seq \in Nat
    BY <1>a, AgentTypes, SampleAndLane DEF TypeOK, SampleRec
  <2>2. /\ activeDispatch(disp[r]) /\ continuous /\ ~(p.seq < w.seq)
        /\ disp[r].attach = w.attach /\ disp'[r] = e
    BY <1>2 DEF Observe, Settles
  <2>3. w'.attach = w.attach /\ w'.state = p.status /\ w'.raw = p.status /\ w'.seq = p.seq
    BY <1>2, <2>2 DEF Observe
  <2>4. /\ e.attach = disp[r].attach /\ idle(p.status)
        /\ e.endSeq = IF ~disp[r].ended /\ TurnEnds(disp[r], p) THEN p.seq ELSE disp[r].endSeq
        /\ e.ended <=> disp[r].ended \/ TurnEnds(disp[r], p)
    BY <1>a, <2>1, <2>2, ObservedEvidence DEF Settles
  <2>5. e.report = disp[r].report /\ e.outcome = disp[r].report /\ e.ended
    BY <1>a, <2>1, <2>2, ObservedType DEF Settles
  <2>6. EInv /\ disp[r].ended => disp[r].endSeq <= p.seq
    BY <1>2 DEF EInv, EvidenceInv, Sampled, Observe, Bound
  <2> HIDE DEF e
  <2> QED
    BY <2>1, <2>2, <2>3, <2>4, <2>5, <2>6 DEF SettlesIdle, idle
<1> QED
  BY <1>1, <1>2, SettlingSteps

\* Whatever interleaves, a dispatch settles on its report and its turn end, on the
\* worker's current attachment, and on no worker that is lost, away or released.
THEOREM SettlesOnIdleWorker == Spec => [][\A r \in Requests : SettlesIdle(r)]_vars
<1>1. IInv /\ RowInv /\ [Next]_vars => [\A r \in Requests : SettlesIdle(r)]_vars
  <2> SUFFICES ASSUME IInv, RowInv, Next, NEW r \in Requests PROVE SettlesIdle(r)
    BY DEF vars
  <2> QED
    BY SettlingStep DEF SettlesIdle, Settles
<1> QED
  BY <1>1, EvidenceInvariance, PTL DEF Spec

\* As long as Herdr does not restart, it settles on no older state of the agent than
\* the one that ended the turn.
THEOREM SettlementIsCurrent ==
  ASSUME CountersRun
  PROVE  Spec => SettlesOnCurrentEvidence
<1>1. IInv /\ RowInv /\ (CountersRun => EInv) /\ [Next]_vars =>
        [\A r \in Requests :
           disp'[r].status = "settled" /\ disp[r].status # "settled" =>
             /\ disp'[r].report = disp'[r].outcome /\ disp'[r].ended
             /\ w'.attach = disp'[r].attach
             /\ w'.state = "idle" /\ w'.raw = "idle" /\ w'.seq >= disp'[r].endSeq]_vars
  <2> SUFFICES ASSUME IInv, RowInv, EInv, Next, NEW r \in Requests, Settles(r)
               PROVE  /\ disp'[r].report = disp'[r].outcome /\ disp'[r].ended
                      /\ w'.attach = disp'[r].attach
                      /\ w'.state = "idle" /\ w'.raw = "idle" /\ w'.seq >= disp'[r].endSeq
    BY DEF Settles
  <2> QED
    BY SettlingStep DEF SettlesIdle
<1> QED
  BY <1>1, EvidenceInvariance, PTL DEF Spec, SettlesOnCurrentEvidence
=============================================================================
