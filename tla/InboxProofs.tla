---------------------------- MODULE InboxProofs ----------------------------
(***************************************************************************)
(* Proofs about the mailbox, for any number of deliveries and any          *)
(* disturbances: types, notices typed at most once, receipts that agree    *)
(* with their wakes, one unresolved prompt in the agent, and wakes that    *)
(* are ended by their own turns.                                           *)
(***************************************************************************)
EXTENDS Inbox, FiniteSetTheorems, TLAPS

Statuses == {"none", "pending", "delivered", "acknowledged", "consumed"}
Verdicts == {"none", "accepted", "uncertain", "completed", "failed"}

\* The statuses of a delivery are the ones ranked by processInbox and ack.
LEMMA RankDomain == DOMAIN Rank = Statuses
  BY DEF Rank, Statuses

\* Ranks are numbers, in the order in which a delivery is seen.
LEMMA RankValues ==
  /\ Rank["none"] = 0 /\ Rank["pending"] = 1 /\ Rank["delivered"] = 2
  /\ Rank["acknowledged"] = 3 /\ Rank["consumed"] = 4
  BY DEF Rank

-----------------------------------------------------------------------------
(* What the operators on rows return.                                      *)

\* An acknowledgment leaves a delivery row.
LEMMA AckType ==
  ASSUME NEW r \in DeliveryRec, NEW consume \in BOOLEAN
  PROVE  ackDelivery(r, consume) \in DeliveryRec
  BY RankDomain DEF ackDelivery, DeliveryRec, Statuses, Wake, Unresolved

\* The result of a prompt leaves a delivery row.
LEMMA DeliveredType ==
  ASSUME NEW r \in DeliveryRec, NEW a \in {"none", "ok", "refused", "lost"}
  PROVE  Delivered(r, a) \in DeliveryRec
  BY RankDomain DEF Delivered, DeliveryRec, Statuses, Wake, Unresolved

\* An observation leaves a delivery row.
LEMMA ObservedType ==
  ASSUME NEW r \in DeliveryRec, NEW p \in AgentRec
  PROVE  Observed(r, p) \in DeliveryRec
<1>1. workSeen(r, p) \in Nat
  BY DEF workSeen, DeliveryRec, AgentRec
<1> HIDE DEF workSeen
<1> QED
  BY <1>1, RankDomain DEF Observed, DeliveryRec, Statuses, Wake

\* Holding a delivery back leaves a delivery row.
LEMMA HeldType ==
  ASSUME NEW rows \in [Deliveries -> DeliveryRec], NEW unread \in BOOLEAN
  PROVE  held(rows, unread) \in [Deliveries -> DeliveryRec]
  BY DEF held, DeliveryRec

\* An observation leaves a dispatch row.
LEMMA ObservedTaskType ==
  ASSUME task \in TaskRec, NEW p \in AgentRec
  PROVE  observedTask(p) \in TaskRec
<1> DEFINE work == IF task.ended THEN task.work ELSE workSeen(task, p)
           over == turnEnds(task, p, work)
           t == [task EXCEPT !.work = work, !.ended = @ \/ over]
<1>1. work \in Nat
  BY DEF workSeen, TaskRec, AgentRec
<1>2. over \in BOOLEAN
  BY DEF turnEnds
<1>3. observedTask(p) \in {task, closed(t, p.status)}
  BY DEF observedTask
<1> HIDE DEF work, over
<1>4. t \in TaskRec
  BY <1>1, <1>2 DEF TaskRec
<1> HIDE DEF t
<1>5. closed(t, p.status) \in TaskRec
  BY <1>4 DEF closed, TaskRec
<1> QED
  BY <1>3, <1>5

-----------------------------------------------------------------------------
(* Types.                                                                  *)

Lanes == [step: LaneStep, pick: Deliveries \cup {None}, attach: Nat, recovery: BOOLEAN,
          seq: Nat, comp: Nat, answer: {"none", "ok", "refused", "lost"}]

\* The lane that nobody holds.
LEMMA FreeLaneType == FreeLane \in Lanes
  BY DEF FreeLane, Lanes, LaneStep

\* The agent at the start, and in the sample that nobody took.
LEMMA FirstTypes == FirstAgent \in AgentRec /\ NoSample.p \in AgentRec
  BY DEF FirstAgent, NoSample, AgentRec

\* The sample that nobody took.
LEMMA NoSampleType == NoSample \in [kind: {"off", "event", "refresh"}, attach: Nat, p: AgentRec]
  BY DEF FirstAgent, NoSample, AgentRec

\* The dispatch that does not exist.
LEMMA NoTaskType == NoTask \in TaskRec
  BY DEF NoTask, TaskRec

\* A new delivery of send.
LEMMA SentType ==
  ASSUME NEW r \in DeliveryRec
  PROVE  [r EXCEPT !.status = "pending", !.wake = "queued"] \in DeliveryRec
  BY RankDomain DEF DeliveryRec, Statuses, Wake, Unresolved

\* A wake resolved by hand.
LEMMA ResolvedType ==
  ASSUME NEW r \in DeliveryRec, NEW verdict
  PROVE  [r EXCEPT !.wake = IF verdict = "failed" THEN "abandoned" ELSE "resolved",
                   !.status = IF verdict = "completed" /\ @ \notin Seen
                              THEN "delivered" ELSE @] \in DeliveryRec
  BY RankDomain DEF DeliveryRec, Statuses, Wake, Unresolved, Seen

\* A claimed delivery.
LEMMA SendingType ==
  ASSUME lane \in Lanes, NEW r \in DeliveryRec
  PROVE  Sending(r) \in DeliveryRec
<1>1. r.attempt + 1 \in Nat
  BY DEF DeliveryRec
<1>2. "sending" \in Wake
  BY DEF Wake, Unresolved
<1>3. lane.attach \in Nat /\ lane.seq \in Nat /\ lane.comp \in Nat
  BY DEF Lanes
<1> QED
  BY <1>1, <1>2, <1>3 DEF Sending, DeliveryRec

\* The delivery that does not exist.
LEMMA NotSentType == NotSent \in DeliveryRec
  BY RankDomain DEF NotSent, DeliveryRec, Statuses, Wake

\* What a step leaves alone keeps its type.
LEMMA AgentKept == AgentTypes /\ UNCHANGED agentVars => AgentTypes'
  BY DEF AgentTypes, agentVars
LEMMA SessionKept == SessionTypes /\ UNCHANGED sessionVars => SessionTypes'
  BY DEF SessionTypes, sessionVars
LEMMA MailKept == MailTypes /\ UNCHANGED mailVars => MailTypes'
  BY DEF MailTypes, mailVars
LEMMA CallKept == CallTypes /\ UNCHANGED callVars => CallTypes'
  BY DEF CallTypes, callVars

\* Disturbances are of the kinds the instance allows.
LEMMA DisturbType == ASSUME NEW kind, hits \subseteq Kinds, Disturb(kind) PROVE hits' \subseteq Kinds
  BY DEF Disturb

\* A trigger of the mailbox is one more, within the bound.
LEMMA KickType ==
  ASSUME kicks \in 0..MaxKicks, Kick
  PROVE  kicks' \in 0..MaxKicks
  BY BoundsAssumption DEF Kick

\* Types hold at the start.
LEMMA InitType == Init => TypeOK
<1> SUFFICES ASSUME Init PROVE TypeOK
  OBVIOUS
<1> USE DEF Init
<1>1. AgentTypes
  BY FirstTypes DEF AgentTypes
<1>2. SessionTypes
  BY NoSampleType DEF SessionTypes, WorkerRec
<1>3. MailTypes
  BY NotSentType DEF MailTypes
<1>4. CallTypes
  <2>1. kicks \in 0..MaxKicks
    BY BoundsAssumption
  <2>2. recovering \in BOOLEAN /\ lane \in Lanes
    BY FreeLaneType
  <2> HIDE DEF Init
  <2> QED
    BY <2>1, <2>2 DEF CallTypes, Lanes
<1> QED
  BY <1>1, <1>2, <1>3, <1>4, NoTaskType DEF TypeOK

\* The agent and its turns.
LEMMA AgentType ==
  ASSUME TypeOK, BeginTurn \/ BeginHumanTurn \/ EndTurn \/ ResetSequence
  PROVE  TypeOK'
<1> USE DEF TypeOK
<1>1. ASSUME NEW owner \in Deliveries \cup {Task, Human}, Begin(owner), hits' \subseteq Kinds
      PROVE  TypeOK'
  <2>0. agent' \in AgentRec
    <3>1. agent \in AgentRec /\ agent.seq + 1 \in Nat
      BY DEF AgentTypes, AgentRec
    <3>2. agent' = [agent EXCEPT !.status = "working", !.seq = @ + 1]
      BY <1>1 DEF Begin
    <3> QED
      BY <3>1, <3>2 DEF AgentRec
  <2>i. intruded' \in [Deliveries -> BOOLEAN]
    <3>1. \A d \in Deliveries : (intruded[d] \/ (d # owner /\ Awaits(d))) \in BOOLEAN
      OBVIOUS
    <3> QED
      BY <1>1, <3>1 DEF Begin
  <2>1. AgentTypes'
    BY <1>1, <2>0, <2>i DEF Begin, AgentTypes
  <2>2. SessionTypes'
    BY <1>1 DEF Begin, SessionTypes
  <2> QED
    BY <1>1, <2>1, <2>2, MailKept, CallKept DEF Begin
<1>2. CASE BeginTurn
  <2> PICK owner \in typed : Begin(owner) /\ UNCHANGED hits
    BY <1>2 DEF BeginTurn
  <2>1. owner \in Deliveries \cup {Task, Human} /\ hits' \subseteq Kinds
    BY DEF AgentTypes
  <2> QED
    BY <1>1, <2>1
<1>3. CASE BeginHumanTurn
  BY <1>1, <1>3, DisturbType DEF BeginHumanTurn
<1>4. CASE EndTurn
  <2>1. AgentTypes'
    BY <1>4 DEF EndTurn, AgentTypes, AgentRec
  <2>2. SessionTypes'
    BY <1>4 DEF EndTurn, SessionTypes
  <2> QED
    BY <1>4, <2>1, <2>2, MailKept, CallKept DEF EndTurn
<1>5. CASE ResetSequence
  <2>1. AgentTypes'
    BY <1>5 DEF ResetSequence, AgentTypes, AgentRec
  <2>2. SessionTypes'
    BY <1>5 DEF ResetSequence, SessionTypes
  <2> QED
    BY <1>5, <2>1, <2>2, MailKept, CallKept, DisturbType DEF ResetSequence
<1> QED
  BY <1>2, <1>3, <1>4, <1>5

\* send, ack and operation.resolve keep the types.
LEMMA MessageType ==
  ASSUME TypeOK, NEW d \in Deliveries,
         \/ Send(d) \/ \E consume \in BOOLEAN : Ack(d, consume)
         \/ \E verdict \in {"completed", "failed"} : Resolve(d, verdict)
  PROVE  TypeOK'
<1> USE DEF TypeOK
<1>0. box \in [Deliveries -> DeliveryRec] /\ receipt \in [Deliveries -> Verdicts]
  BY DEF MailTypes, Verdicts
<1>1. CASE Send(d)
  <2>1. [box[d] EXCEPT !.status = "pending", !.wake = "queued"] \in DeliveryRec
    BY <1>0, SentType
  <2>2. box' = [box EXCEPT ![d] = [box[d] EXCEPT !.status = "pending", !.wake = "queued"]]
    BY <1>0, <1>1 DEF Send
  <2>3. MailTypes'
    BY <1>0, <1>1, <2>1, <2>2 DEF Send, MailTypes
  <2>4. CallTypes'
    BY <1>1, KickType DEF Send, CallTypes
  <2> QED
    BY <1>1, <2>3, <2>4, AgentKept, SessionKept DEF Send
<1>2. ASSUME NEW consume \in BOOLEAN, Ack(d, consume) PROVE TypeOK'
  <2>1. MailTypes'
    BY <1>0, <1>2, AckType DEF Ack, MailTypes, Verdicts
  <2>2. hits' \subseteq Kinds
    BY <1>2, DisturbType DEF Ack
  <2> QED
    BY <1>2, <2>1, <2>2, AgentKept, SessionKept, CallKept DEF Ack
<1>3. ASSUME NEW verdict \in {"completed", "failed"}, Resolve(d, verdict) PROVE TypeOK'
  <2> DEFINE row == [box[d] EXCEPT !.wake = IF verdict = "failed" THEN "abandoned" ELSE "resolved",
                                   !.status = IF verdict = "completed" /\ @ \notin Seen
                                              THEN "delivered" ELSE @]
  <2>1. row \in DeliveryRec
    BY <1>0, ResolvedType
  <2>2. box' = [box EXCEPT ![d] = row]
    BY <1>0, <1>3 DEF Resolve
  <2> HIDE DEF row
  <2>3. MailTypes'
    BY <1>0, <1>3, <2>1, <2>2 DEF Resolve, finishReceipt, MailTypes, Verdicts
  <2> QED
    BY <1>3, <2>3, AgentKept, SessionKept, CallKept, DisturbType DEF Resolve
<1> QED
  BY <1>1, <1>2, <1>3

\* processInbox and who calls it.
LEMMA EnterType ==
  ASSUME TypeOK, Enter \/ recoverInboxReads
  PROVE  TypeOK'
<1> USE DEF TypeOK
<1>0. box \in [Deliveries -> DeliveryRec] /\ receipt \in [Deliveries -> Verdicts] /\ lane \in Lanes
  BY DEF MailTypes, Verdicts, CallTypes, Lanes
<1>1. ASSUME NEW isRecovery \in BOOLEAN, Takes(isRecovery), lane' \in Lanes
      PROVE  CallTypes'
  <2>1. kicks \in 0..MaxKicks /\ MaxKicks \in Nat
    BY BoundsAssumption DEF CallTypes
  <2>2. kicks' \in 0..MaxKicks
    BY <1>1, <2>1 DEF Takes
  <2> QED
    BY <1>1, <2>2 DEF Takes, CallTypes, Lanes
<1>2. ASSUME NEW isRecovery \in BOOLEAN, HoldBack(isRecovery) PROVE TypeOK'
  <2>1. ASSUME NEW d \in Deliveries PROVE [box[d] EXCEPT !.wake = "uncertain"] \in DeliveryRec
    BY <1>0 DEF DeliveryRec, Wake, Unresolved
  <2>2. markedLost \in [Deliveries -> DeliveryRec]
    BY <1>0, <2>1 DEF markedLost
  <2>3. box' \in [Deliveries -> DeliveryRec]
    BY <1>0, <1>2, <2>2, HeldType DEF HoldBack
  <2>4. receipt' \in [Deliveries -> Verdicts]
    BY <1>0, <1>2 DEF HoldBack, Verdicts
  <2>5. CallTypes'
    BY <1>0, <1>1, <1>2 DEF HoldBack
  <2> QED
    BY <1>2, <2>3, <2>4, <2>5, AgentKept, SessionKept DEF HoldBack, MailTypes, Verdicts
<1>3. ASSUME NEW isRecovery \in BOOLEAN, Pick(isRecovery) PROVE TypeOK'
  <2>0. w.attach \in Nat
    BY DEF SessionTypes, WorkerRec
  <2>1. lane' \in Lanes
    <3> PICK d \in Candidates(isRecovery) :
           lane' = [FreeLane EXCEPT !.step = "probe", !.pick = d, !.attach = w.attach,
                                    !.recovery = isRecovery]
      BY <1>3 DEF Pick
    <3>1. d \in Deliveries
      BY DEF Candidates
    <3> QED
      BY <2>0, <3>1, FreeLaneType DEF Lanes, LaneStep
  <2> QED
    BY <1>1, <1>3, <2>1, AgentKept, SessionKept, MailKept DEF Pick
<1>4. ASSUME NEW isRecovery \in BOOLEAN, NothingToDo(isRecovery) PROVE TypeOK'
  BY <1>0, <1>1, <1>4, AgentKept, SessionKept, MailKept DEF NothingToDo
<1>5. CASE recoverInboxReads
  BY <1>5, AgentKept, SessionKept, MailKept DEF recoverInboxReads, CallTypes
<1> QED
  BY <1>2, <1>3, <1>4, <1>5 DEF Enter

\* processInbox, from its entry to the result, keeps the types.
LEMMA ProcessType ==
  ASSUME TypeOK, processInbox, lane.step # "free" => lane.pick \in Deliveries
  PROVE  TypeOK'
<1> USE DEF TypeOK
<1>0. /\ lane \in Lanes /\ agent \in AgentRec /\ kicks \in 0..MaxKicks /\ recovering \in BOOLEAN
      /\ box \in [Deliveries -> DeliveryRec] /\ receipt \in [Deliveries -> Verdicts]
  BY DEF MailTypes, Verdicts, CallTypes, Lanes, AgentTypes
<1>c. ASSUME lane' \in Lanes, UNCHANGED <<kicks, recovering>> PROVE CallTypes'
  BY <1>0, <1>c DEF CallTypes, Lanes
<1>1. CASE Probe
  <2>1. lane' \in Lanes
    BY <1>0, <1>1 DEF Probe, withBaselines, Lanes, LaneStep, AgentRec
  <2>2. AgentTypes'
    BY <1>1 DEF Probe, AgentTypes
  <2> QED
    BY <1>c, <1>1, <2>1, <2>2, SessionKept, MailKept DEF Probe
<1>2. CASE ProbeHeld
  <2>1. MailTypes'
    BY <1>0, <1>2, HeldType DEF ProbeHeld, MailTypes, Verdicts
  <2>2. hits' \subseteq Kinds
    BY <1>2, DisturbType DEF ProbeHeld
  <2> QED
    BY <1>c, <1>2, <2>1, <2>2, FreeLaneType, AgentKept, SessionKept DEF ProbeHeld
<1>3. CASE Intent
  <2>1. lane' \in Lanes
    BY <1>0, <1>3 DEF Intent, Lanes, LaneStep
  <2>2. lane.pick \in Deliveries
    BY <1>3 DEF Intent
  <2>3. box' \in [Deliveries -> DeliveryRec]
    BY <1>0, <1>3, <2>2, SendingType DEF Intent
  <2>4. MailTypes'
    BY <1>0, <1>3, <2>3 DEF Intent, MailTypes, Verdicts
  <2> QED
    BY <1>c, <1>3, <2>1, <2>4, AgentKept, SessionKept DEF Intent
<1>4. CASE IntentGivenUp
  BY <1>c, <1>4, FreeLaneType, AgentKept, SessionKept, MailKept DEF IntentGivenUp
<1>5. CASE Prompt
  <2> PICK a \in {"ok", "refused", "lost"}, reaches \in BOOLEAN :
         /\ IF a = "ok" THEN UNCHANGED hits ELSE Disturb(a)
         /\ lane' = [lane EXCEPT !.step = "result", !.answer = a]
         /\ landed' = IF reaches THEN [landed EXCEPT ![lane.pick] = @ + 1] ELSE landed
         /\ typed' = IF reaches THEN typed \cup {lane.pick} ELSE typed
    BY <1>5 DEF Prompt
  <2>1. lane' \in Lanes
    BY <1>0 DEF Lanes, LaneStep
  <2>2. hits' \subseteq Kinds
    BY DisturbType
  <2>p. lane.pick \in Deliveries
    BY <1>5 DEF Prompt
  <2>3. landed' \in [Deliveries -> Nat]
    <3>1. landed[lane.pick] + 1 \in Nat
      BY <2>p
    <3> QED
      BY <2>p, <3>1
  <2>4. AgentTypes'
    BY <1>5, <2>p DEF Prompt, AgentTypes
  <2> QED
    BY <1>c, <1>5, <2>1, <2>2, <2>3, <2>4, SessionKept, MailKept DEF Prompt
<1>6. CASE Result
  <2>1. lane.pick \in Deliveries /\ lane.answer \in {"none", "ok", "refused", "lost"}
    BY <1>0, <1>6 DEF Result, Lanes
  <2>2. MailTypes'
    BY <1>0, <1>6, <2>1, DeliveredType DEF Result, finishReceipt, MailTypes, Verdicts
  <2> QED
    BY <1>c, <1>6, <2>2, FreeLaneType, AgentKept, SessionKept DEF Result
<1> QED
  BY <1>1, <1>2, <1>3, <1>4, <1>5, <1>6 DEF processInbox

\* The dispatch.
LEMMA TaskType ==
  ASSUME TypeOK, Dispatch \/ Done \/ Fail
  PROVE  TypeOK'
<1> USE DEF TypeOK
<1>1. CASE Dispatch
  <2>1. task' \in TaskRec
    BY <1>1 DEF Dispatch, NoTask, TaskRec, SessionTypes, WorkerRec, AgentTypes, AgentRec
  <2>2. AgentTypes'
    BY <1>1 DEF Dispatch, AgentTypes
  <2> QED
    BY <1>1, <2>1, <2>2, SessionKept, MailKept, CallKept, DisturbType DEF Dispatch
<1>2. CASE Done
  <2>1. task' \in TaskRec
    BY <1>2 DEF Done, closed, TaskRec
  <2>2. CallTypes'
    BY <1>2, KickType DEF Done, CallTypes
  <2> QED
    BY <1>2, <2>1, <2>2, AgentKept, SessionKept, MailKept DEF Done
<1>3. CASE Fail
  <2>1. task' \in TaskRec
    BY <1>3 DEF Fail, TaskRec
  <2> QED
    BY <1>3, <2>1, AgentKept, SessionKept, MailKept, CallKept, DisturbType DEF Fail
<1> QED
  BY <1>1, <1>2, <1>3

\* The session lane, adoption, release and the crash.
LEMMA SessionType ==
  ASSUME TypeOK, SampleEvent \/ SampleRefresh \/ Apply \/ Outage \/ Disconnected \/ Rebind \/ Crash
  PROVE  TypeOK'
<1> USE DEF TypeOK
<1>1. ASSUME NEW kind \in {"event", "refresh"}, Sample(kind), ready' \in Nat, online' \in BOOLEAN,
             UNCHANGED hits
      PROVE  TypeOK'
  <2>1. SessionTypes'
    BY <1>1 DEF Sample, SessionTypes, WorkerRec, AgentTypes
  <2> QED
    BY <1>1, <2>1, AgentKept, MailKept, CallKept DEF Sample
<1>2. CASE SampleEvent
  BY <1>1, <1>2 DEF SampleEvent, SessionTypes
<1>3. CASE SampleRefresh
  BY <1>1, <1>3 DEF SampleRefresh
<1>4. CASE Observe
  <2>0. obs.p \in AgentRec /\ obs.p.status \in {"idle", "working"} /\ obs.p.seq \in Nat
        /\ w.attach \in Nat
    BY DEF SessionTypes, AgentRec, WorkerRec
  <2>1. box' \in [Deliveries -> DeliveryRec]
    BY <1>4, <2>0, ObservedType DEF Observe, MailTypes
  <2>2. task' \in TaskRec
    BY <1>4, <2>0, ObservedTaskType DEF Observe
  <2>3. receipt' \in [Deliveries -> Verdicts]
    BY <1>4 DEF Observe, finishReceipt, MailTypes, Verdicts
  <2>4. w' \in WorkerRec /\ ready' \in Nat
    BY <1>4, <2>0 DEF Observe, WorkerRec, SessionTypes
  <2>5. SessionTypes'
    BY <1>4, <2>4, NoSampleType DEF Observe, SessionTypes
  <2>6. CallTypes'
    BY <1>4, KickType DEF Observe, KicksInbox, CallTypes
  <2> QED
    BY <1>4, <2>1, <2>2, <2>3, <2>5, <2>6, AgentKept DEF Observe, MailTypes, Verdicts
<1>5. CASE DropSample
  <2>1. SessionTypes'
    BY <1>5, NoSampleType DEF DropSample, SessionTypes
  <2> QED
    BY <1>5, <2>1, AgentKept, MailKept, CallKept DEF DropSample
<1>6. ASSUME Offline, hits' \subseteq Kinds PROVE TypeOK'
  <2>1. SessionTypes'
    BY <1>6 DEF Offline, SessionTypes, WorkerRec
  <2> QED
    BY <1>6, <2>1, AgentKept, MailKept, CallKept DEF Offline
<1>7. CASE Outage \/ Disconnected
  BY <1>6, <1>7, DisturbType DEF Outage, Disconnected
<1>8. CASE Rebind
  <2>1. task' \in TaskRec
    BY <1>8 DEF Rebind, TaskRec
  <2>2. SessionTypes'
    BY <1>8 DEF Rebind, SessionTypes, WorkerRec, AgentTypes, AgentRec
  <2> QED
    BY <1>8, <2>1, <2>2, AgentKept, MailKept, CallKept, DisturbType DEF Rebind
<1>9. CASE Crash
  <2>1. SessionTypes'
    BY <1>9, NoSampleType DEF Crash, SessionTypes
  <2>2. CallTypes'
    <3>1. kicks' \in 0..MaxKicks
      BY <1>9, BoundsAssumption DEF Crash
    <3>2. lane' \in Lanes /\ recovering' \in BOOLEAN
      BY <1>9, FreeLaneType DEF Crash
    <3> QED
      BY <3>1, <3>2 DEF CallTypes, Lanes
  <2> QED
    BY <1>9, <2>1, <2>2, AgentKept, MailKept, DisturbType DEF Crash
<1> QED
  BY <1>2, <1>3, <1>4, <1>5, <1>7, <1>8, <1>9 DEF Apply

-----------------------------------------------------------------------------
(* The inductive invariant: what the three transactions of a wake, and all *)
(* that comes between them, keep.                                          *)

\* A delivery's row r, its receipt v, how often its notice reached the agent, and the
\* worker's attachment: the receipt tells the wake, what was never attempted or was
\* refused has not reached the agent, and no wake is of an attachment yet to come.
MailOf(r, v, n, attach) ==
  /\ v = "accepted"  <=> r.wake = "sending"
  /\ v = "uncertain" <=> r.wake = "uncertain"
  /\ v = "failed" => r.wake \in {"queued", "ended", "abandoned"}
  /\ r.wake \in {"none", "queued"} => n = 0
  /\ n <= 1
  /\ r.attach <= attach
MailInv == \A d \in Deliveries : MailOf(box[d], receipt[d], landed[d], w.attach)

\* The wake is being sent, or was read or seen ended meanwhile.
Claimed(r, v) == r.wake = "sending" \/ (r.wake \in {"acknowledged", "ended"} /\ v = "completed")

\* The lane: until the claim nothing else occupies the worker; after it the wake is the
\* lane's own, and it is typed at most once.
LaneInv ==
  /\ lane.step # "free" => lane.pick \in Deliveries
  /\ lane.attach <= w.attach
  /\ lane.step \in {"probe", "intent"} /\ lane.attach = w.attach
       => Occupying = {} /\ ~TaskRuns
  /\ lane.step \in {"prompt", "result"} => Claimed(box[lane.pick], receipt[lane.pick])
  /\ lane.step = "prompt" => landed[lane.pick] = 0
  /\ lane.step = "result" /\ lane.answer \notin {"ok", "lost"} => landed[lane.pick] = 0

\* The prompts: one wake at most is unresolved, and none while the task runs.
PromptInv ==
  /\ \A a, b \in Occupying : a = b
  /\ TaskRuns => Occupying = {}

IInv == TypeOK /\ MailInv /\ LaneInv /\ PromptInv

\* What a step may do to a row: nothing seen is taken back, nothing over is reopened.
Over == {"ended", "abandoned", "resolved"}
Progress(r, s) == Rank[r.status] <= Rank[s.status] /\ (r.wake \in Over => s.wake = r.wake)

\* A row that went on without occupying the lane anew.
Eases(r, s) == /\ Progress(r, s) /\ s.attach = r.attach
               /\ s.wake \in Unresolved => r.wake \in Unresolved

-----------------------------------------------------------------------------
(* The operators on rows keep all this.                                    *)

\* A row left alone is eased.
LEMMA Same == ASSUME NEW r \in DeliveryRec PROVE Eases(r, r)
<1>1. Rank[r.status] <= Rank[r.status]
  BY RankDomain, RankValues DEF DeliveryRec, Statuses
<1> QED
  BY <1>1 DEF Eases, Progress

\* An acknowledgment eases its row, and what is known of the wake stays true.
LEMMA AckMail ==
  ASSUME NEW r \in DeliveryRec, NEW v \in Verdicts, NEW n \in Nat, NEW attach \in Nat,
         NEW consume \in BOOLEAN, MailOf(r, v, n, attach)
  PROVE  LET s == ackDelivery(r, consume)
             u == IF v \in {"accepted", "uncertain"} THEN "completed" ELSE v
         IN MailOf(s, u, n, attach) /\ Eases(r, s) /\ (Claimed(r, v) => Claimed(s, u))
<1> DEFINE s == ackDelivery(r, consume)
<1>1. /\ s.attach = r.attach
      /\ s.status = IF consume \/ r.status = "consumed" THEN "consumed" ELSE "acknowledged"
      /\ s.wake = CASE r.wake \in Unresolved -> "acknowledged" [] r.wake = "queued" -> "ended"
                    [] OTHER -> r.wake
  BY DEF ackDelivery, DeliveryRec
<1>2. r.wake \in Wake /\ r.status \in Statuses /\ r.attach \in Nat
  BY RankDomain DEF DeliveryRec
<1> HIDE DEF s
<1>3. Rank[r.status] <= Rank[s.status]
  BY <1>1, <1>2, RankValues DEF Statuses
<1>4. Eases(r, s)
  BY <1>1, <1>2, <1>3 DEF Eases, Progress, Over, Unresolved, Wake
<1> QED
  BY <1>1, <1>2, <1>4 DEF s, MailOf, Claimed, Unresolved, Wake, Verdicts

\* So does the result of the prompt.
LEMMA DeliveredMail ==
  ASSUME NEW r \in DeliveryRec, NEW v \in Verdicts, NEW n \in Nat, NEW attach \in Nat,
         NEW a \in {"none", "ok", "refused", "lost"}, MailOf(r, v, n, attach), Claimed(r, v),
         a \notin {"ok", "lost"} => n = 0
  PROVE  LET s == Delivered(r, a)
             u == finishReceipt(v, CASE a = "ok" -> "completed" [] a = "lost" -> "uncertain"
                                     [] OTHER -> "failed")
         IN MailOf(s, u, n, attach) /\ Eases(r, s)
<1> DEFINE s == Delivered(r, a)
<1>1. /\ s.attach = r.attach
      /\ s.status = IF a = "ok" /\ r.status \notin Seen THEN "delivered" ELSE r.status
      /\ s.wake = IF r.wake # "sending" THEN r.wake
                  ELSE CASE a = "ok" -> "sent" [] a = "lost" -> "uncertain" [] OTHER -> "queued"
  BY DEF Delivered, DeliveryRec
<1>2. r.wake \in Wake /\ r.status \in Statuses /\ r.attach \in Nat
  BY RankDomain DEF DeliveryRec
<1> HIDE DEF s
<1>3. Rank[r.status] <= Rank[s.status]
  BY <1>1, <1>2, RankValues DEF Statuses, Seen
<1>4. Eases(r, s)
  BY <1>1, <1>2, <1>3 DEF Eases, Progress, Over, Unresolved
<1> QED
  BY <1>1, <1>2, <1>4 DEF s, MailOf, Claimed, finishReceipt, Verdicts

\* So does an observation.
LEMMA ObservedMail ==
  ASSUME NEW r \in DeliveryRec, NEW v \in Verdicts, NEW n \in Nat, NEW attach \in Nat,
         NEW p \in AgentRec, MailOf(r, v, n, attach)
  PROVE  LET s == Observed(r, p)
             u == IF r.wake # "ended" /\ s.wake = "ended" /\ v # "none"
                  THEN finishReceipt(v, "completed") ELSE v
         IN MailOf(s, u, n, attach) /\ Eases(r, s) /\ (Claimed(r, v) => Claimed(s, u))
<1> DEFINE s == Observed(r, p)
<1>1. /\ s.attach = r.attach
      /\ \/ s.wake = r.wake /\ s.status = r.status
         \/ /\ r.wake \in Unresolved /\ s.wake = "ended"
            /\ s.status = IF r.status = "pending" THEN "delivered" ELSE r.status
  <2> HIDE DEF workSeen
  <2> QED
    BY DEF Observed, DeliveryRec
<1>2. r.wake \in Wake /\ r.status \in Statuses /\ r.attach \in Nat
  BY RankDomain DEF DeliveryRec
<1> HIDE DEF s
<1>3. Rank[r.status] <= Rank[s.status]
  BY <1>1, <1>2, RankValues DEF Statuses
<1>4. Eases(r, s)
  BY <1>1, <1>2, <1>3 DEF Eases, Progress, Over, Unresolved
<1> QED
  BY <1>1, <1>2, <1>4 DEF s, MailOf, Claimed, finishReceipt, Verdicts, Unresolved

\* So does holding a delivery back.
LEMMA HeldMail ==
  ASSUME NEW rows \in [Deliveries -> DeliveryRec], NEW unread \in BOOLEAN, NEW d \in Deliveries
  PROVE  /\ held(rows, unread)[d].wake = rows[d].wake
         /\ held(rows, unread)[d].status = rows[d].status
         /\ held(rows, unread)[d].attach = rows[d].attach
  BY DEF held, DeliveryRec

-----------------------------------------------------------------------------
(* What every step keeps.                                                  *)

Effects == /\ MailInv' /\ LaneInv' /\ PromptInv'
           /\ \A d \in Deliveries : Progress(box[d], box'[d])

\* A step that may only free the worker.
Relaxes == /\ \A d \in Deliveries : Eases(box[d], box'[d])
           /\ w'.attach = w.attach
           /\ TaskRuns' => TaskRuns

\* What the invariant says of the types of rows, receipts and lane.
LEMMA Rows ==
  ASSUME IInv
  PROVE  /\ box \in [Deliveries -> DeliveryRec] /\ receipt \in [Deliveries -> Verdicts]
         /\ landed \in [Deliveries -> Nat] /\ lane \in Lanes /\ w \in WorkerRec
         /\ w.attach \in Nat /\ lane.attach \in Nat
         /\ \A d \in Deliveries : box[d].attach \in Nat
  BY DEF IInv, TypeOK, MailTypes, CallTypes, SessionTypes, Lanes, Verdicts, WorkerRec, DeliveryRec

\* Where rows only ease, prompts go on not to meet.
LEMMA RelaxPrompts ==
  ASSUME IInv, Relaxes
  PROVE  Occupying' \subseteq Occupying /\ PromptInv'
<1>1. Occupying' \subseteq Occupying
  BY DEF Relaxes, Eases, Occupying
<1> QED
  BY <1>1 DEF IInv, PromptInv, Relaxes

\* Where rows only ease, what processInbox has found out goes on to be true.
LEMMA RelaxLane ==
  ASSUME IInv, Relaxes, UNCHANGED <<lane, landed>>,
         \A d \in Deliveries : Claimed(box[d], receipt[d]) => Claimed(box'[d], receipt'[d])
  PROVE  LaneInv'
<1>1. Occupying' \subseteq Occupying
  BY RelaxPrompts
<1> QED
  BY <1>1 DEF IInv, LaneInv, Relaxes

\* Nothing is claimed of a lane that nobody holds.
LEMMA FreedLane ==
  ASSUME lane' = FreeLane, w'.attach \in Nat
  PROVE  LaneInv'
  BY DEF LaneInv, FreeLane

\* A step that leaves rows and receipts alone keeps what they say.
LEMMA QuietMail ==
  ASSUME IInv, UNCHANGED <<mailVars, landed>>, w'.attach \in {w.attach, w.attach + 1}
  PROVE  MailInv' /\ \A d \in Deliveries : Eases(box[d], box'[d])
<1>1. MailInv
  BY DEF IInv
<1>2. MailInv'
  BY <1>1, Rows DEF MailInv, MailOf, mailVars
<1>3. ASSUME NEW d \in Deliveries PROVE Eases(box[d], box'[d])
  BY Rows, Same DEF mailVars
<1> QED
  BY <1>2, <1>3

\* The step is not about the mail, and may only free the worker.
LEMMA Quiet ==
  ASSUME IInv, UNCHANGED <<mailVars, landed>>, lane' \in {lane, FreeLane},
         w'.attach = w.attach, TaskRuns' => TaskRuns
  PROVE  Effects
<1>1. MailInv' /\ \A d \in Deliveries : Eases(box[d], box'[d])
  BY QuietMail
<1>2. Relaxes
  BY <1>1 DEF Relaxes
<1>3. PromptInv'
  BY <1>2, RelaxPrompts
<1>4. LaneInv'
  <2>1. CASE lane' = lane
    BY <1>2, <2>1, RelaxLane DEF mailVars
  <2>2. CASE lane' = FreeLane
    BY <2>2, FreedLane, Rows
  <2> QED
    BY <2>1, <2>2
<1> QED
  BY <1>1, <1>3, <1>4 DEF Effects, Eases

\* The step eases rows and may only free the worker.
LEMMA Easing ==
  ASSUME IInv, Relaxes, MailInv', UNCHANGED landed,
         \/ /\ UNCHANGED lane
            /\ \A d \in Deliveries : Claimed(box[d], receipt[d]) => Claimed(box'[d], receipt'[d])
         \/ lane' = FreeLane
  PROVE  Effects
<1>1. PromptInv' /\ \A d \in Deliveries : Progress(box[d], box'[d])
  BY RelaxPrompts DEF Relaxes, Eases
<1>2. LaneInv'
  <2>1. CASE lane' = FreeLane
    BY <2>1, FreedLane, Rows DEF Relaxes
  <2>2. CASE lane' # FreeLane
    BY <2>2, RelaxLane
  <2> QED
    BY <2>1, <2>2
<1> QED
  BY <1>1, <1>2 DEF Effects

-----------------------------------------------------------------------------
(* One lemma for each kind of step.                                        *)

\* The agent works, stops and is reset: no row changes.
LEMMA AgentStep ==
  ASSUME IInv, BeginTurn \/ BeginHumanTurn \/ EndTurn \/ ResetSequence
  PROVE  Effects
<1>1. UNCHANGED <<mailVars, landed, lane, w, task>>
  BY DEF BeginTurn, BeginHumanTurn, Begin, EndTurn, ResetSequence, callVars
<1> QED
  BY <1>1, Quiet DEF TaskRuns

\* Sampling, reconnection and triggers change no row.
LEMMA SessionStep ==
  ASSUME IInv, SampleEvent \/ SampleRefresh \/ DropSample \/ Outage \/ Disconnected \/ Crash
  PROVE  Effects
<1>1. UNCHANGED <<mailVars, landed, task>> /\ lane' \in {lane, FreeLane}
  BY DEF SampleEvent, SampleRefresh, Sample, DropSample, Outage, Disconnected, Offline, Crash,
     callVars
<1>2. w'.attach = w.attach
  BY Rows DEF SampleEvent, SampleRefresh, Sample, DropSample, Outage, Disconnected, Offline,
     Crash, WorkerRec
<1> QED
  BY <1>1, <1>2, Quiet DEF TaskRuns

\* The competing dispatch begins only where nothing occupies the worker.
LEMMA TaskStep ==
  ASSUME IInv, Done \/ Fail
  PROVE  Effects
<1>1. UNCHANGED <<mailVars, landed, w, lane>>
  BY DEF Done, Fail, sessionVars, callVars
<1>2. task \in TaskRec
  BY DEF IInv, TypeOK
<1>3. TaskRuns' => TaskRuns
  BY <1>2 DEF Done, Fail, closed, TaskRuns, TaskRec
<1> QED
  BY <1>1, <1>3, Quiet

\* The task starts while nothing occupies the worker.
LEMMA DispatchStep ==
  ASSUME IInv, Dispatch
  PROVE  Effects
<1>1. UNCHANGED <<mailVars, landed, w, lane>> /\ Occupying = {} /\ lane.step = "free"
  BY DEF Dispatch, occupied, sessionVars, callVars
<1>2. MailInv' /\ \A d \in Deliveries : Eases(box[d], box'[d])
  BY <1>1, QuietMail, Rows
<1>3. Occupying' = {}
  BY <1>1 DEF Occupying, mailVars
<1>4. PromptInv' /\ LaneInv'
  BY <1>1, <1>3, Rows DEF IInv, PromptInv, LaneInv, Lanes
<1> QED
  BY <1>2, <1>4 DEF Effects, Eases

\* send adds a queued row.
LEMMA SendStep ==
  ASSUME IInv, NEW d \in Deliveries, Send(d)
  PROVE  Effects
<1>1. /\ UNCHANGED <<receipt, landed, w, lane, task>>
      /\ box[d] = NotSent
      /\ \A e \in Deliveries \ {d} : box'[e] = box[e]
      /\ box'[d].status = "pending" /\ box'[d].wake = "queued" /\ box'[d].attach = box[d].attach
  BY Rows DEF Send, sessionVars, NotSent, DeliveryRec
<1>2. box[d].wake = "none" /\ box[d].status = "none"
  BY <1>1 DEF NotSent
<1>3. Eases(box[d], box'[d])
  BY <1>1, <1>2, RankValues DEF Eases, Progress, Over, Unresolved
<1>4. \A e \in Deliveries : Eases(box[e], box'[e])
  BY <1>1, <1>3, Same, Rows
<1>5. Relaxes
  BY <1>1, <1>4 DEF Relaxes, TaskRuns
<1>6. MailInv'
  <2>1. MailOf(box'[d], receipt[d], landed[d], w.attach)
    BY <1>1, <1>2 DEF IInv, MailInv, MailOf
  <2> QED
    BY <1>1, <2>1 DEF IInv, MailInv
<1>7. \A e \in Deliveries : Claimed(box[e], receipt[e]) => Claimed(box'[e], receipt'[e])
  BY <1>1, <1>2 DEF Claimed
<1> QED
  BY <1>1, <1>5, <1>6, <1>7, Easing

\* ack, consume and a reply.
LEMMA AckStep ==
  ASSUME IInv, NEW d \in Deliveries, NEW consume \in BOOLEAN, Ack(d, consume)
  PROVE  Effects
<1> DEFINE s == ackDelivery(box[d], consume)
           u == IF receipt[d] \in {"accepted", "uncertain"} THEN "completed" ELSE receipt[d]
<1>1. /\ UNCHANGED <<landed, w, lane, task>>
      /\ \A e \in Deliveries \ {d} : box'[e] = box[e] /\ receipt'[e] = receipt[e]
      /\ box'[d] = s /\ receipt'[d] = u
  BY Rows DEF Ack, sessionVars, callVars
<1>2. /\ MailOf(s, u, landed[d], w.attach) /\ Eases(box[d], s)
      /\ Claimed(box[d], receipt[d]) => Claimed(s, u)
  BY AckMail, Rows DEF IInv, MailInv
<1> HIDE DEF s, u
<1>3. Relaxes
  BY <1>1, <1>2, Same, Rows DEF Relaxes, TaskRuns
<1>4. MailInv'
  BY <1>1, <1>2 DEF IInv, MailInv
<1> QED
  BY <1>1, <1>2, <1>3, <1>4, Easing

\* A person ends an attempt that is not the lane's.
LEMMA ResolveStep ==
  ASSUME IInv, NEW d \in Deliveries, NEW verdict \in {"completed", "failed"}, Resolve(d, verdict)
  PROVE  Effects
<1>1. /\ UNCHANGED <<landed, w, lane, task>>
      /\ \A e \in Deliveries \ {d} : box'[e] = box[e] /\ receipt'[e] = receipt[e]
      /\ box'[d].attach = box[d].attach
      /\ box'[d].wake = IF verdict = "failed" THEN "abandoned" ELSE "resolved"
      /\ box'[d].status = IF verdict = "completed" /\ box[d].status \notin Seen
                          THEN "delivered" ELSE box[d].status
      /\ receipt'[d] = finishReceipt(receipt[d], verdict)
  BY Rows DEF Resolve, sessionVars, callVars, DeliveryRec
<1>2. box[d].wake \in Unresolved /\ receipt[d] \in {"accepted", "uncertain", "completed"} /\ ~inFlight(d)
  BY DEF Resolve, IInv, MailInv, MailOf, Unresolved
<1>3. box[d].status \in Statuses
  BY Rows, RankDomain DEF DeliveryRec
<1>4. Eases(box[d], box'[d])
  BY <1>1, <1>2, <1>3, RankValues DEF Eases, Progress, Over, Unresolved, Statuses, Seen
<1>5. Relaxes
  BY <1>1, <1>4, Same, Rows DEF Relaxes, TaskRuns
<1>6. MailOf(box'[d], receipt'[d], landed'[d], w'.attach)
  BY <1>1, <1>2 DEF IInv, MailInv, MailOf, finishReceipt, Unresolved
<1>7. MailInv'
  BY <1>1, <1>6 DEF IInv, MailInv
<1>8. LaneInv'
  <2>1. Occupying' \subseteq Occupying
    BY <1>5, RelaxPrompts
  <2>2. lane.step \in {"prompt", "result"} => lane.pick \in Deliveries \ {d}
    BY <1>2 DEF inFlight, IInv, LaneInv
  <2> QED
    BY <1>1, <1>5, <2>1, <2>2 DEF IInv, LaneInv, Relaxes
<1> QED
  BY <1>5, <1>7, <1>8, RelaxPrompts DEF Effects, Relaxes, Eases

\* A background call finds the worker unreachable or occupied.
LEMMA HoldBackStep ==
  ASSUME IInv, NEW isRecovery \in BOOLEAN, HoldBack(isRecovery)
  PROVE  Effects
<1>1. UNCHANGED <<landed, w, lane, task>> /\ lane.step = "free"
  BY DEF HoldBack, Takes, sessionVars
<1>2. markedLost \in [Deliveries -> DeliveryRec]
      /\ \A d \in Deliveries : /\ markedLost[d].status = box[d].status
                               /\ markedLost[d].attach = box[d].attach
                               /\ markedLost[d].wake = IF d \in Dead THEN "uncertain" ELSE box[d].wake
  <2>1. \A d \in Deliveries : [box[d] EXCEPT !.wake = "uncertain"] \in DeliveryRec
    BY Rows DEF DeliveryRec, Wake, Unresolved
  <2> QED
    BY <2>1, Rows DEF markedLost, DeliveryRec
<1>3. ASSUME NEW d \in Deliveries
      PROVE  /\ Eases(box[d], box'[d])
             /\ MailOf(box'[d], receipt'[d], landed'[d], w'.attach)
  <2>1. MailOf(box[d], receipt[d], landed[d], w.attach)
    BY DEF IInv, MailInv
  <2>2. d \in Dead => box[d].wake = "sending" /\ receipt[d] = "accepted"
    BY <2>1 DEF Dead, Occupying, MailOf
  <2>3. /\ box'[d].status = box[d].status /\ box'[d].attach = box[d].attach
        /\ \/ box'[d].wake = box[d].wake /\ receipt'[d] = receipt[d]
           \/ d \in Dead /\ box'[d].wake = "uncertain" /\ receipt'[d] = "uncertain"
    <3>1. CASE box' = held(box, FALSE) /\ UNCHANGED receipt
      BY <3>1, HeldMail, Rows
    <3>2. CASE /\ box' = held(markedLost, FALSE)
               /\ receipt' = [e \in Deliveries |-> IF e \in Dead /\ receipt[e] = "accepted"
                                                   THEN "uncertain" ELSE receipt[e]]
      BY <1>2, <2>2, <3>2, HeldMail
    <3> QED
      BY <3>1, <3>2 DEF HoldBack
  <2>4. Rank[box[d].status] <= Rank[box'[d].status]
    BY <2>3, Rows, Same DEF Eases, Progress
  <2>5. Eases(box[d], box'[d])
    BY <2>2, <2>3, <2>4 DEF Eases, Progress, Over, Unresolved
  <2> QED
    BY <1>1, <2>1, <2>2, <2>3, <2>5 DEF MailOf
<1>4. Relaxes
  BY <1>1, <1>3 DEF Relaxes, TaskRuns
<1>5. MailInv'
  BY <1>3 DEF MailInv
<1>6. LaneInv'
  BY <1>1 DEF IInv, LaneInv
<1> QED
  BY <1>4, <1>5, <1>6, RelaxPrompts DEF Effects, Relaxes, Eases

\* A background call picks a delivery while nothing occupies the worker.
LEMMA PickStep ==
  ASSUME IInv, NEW isRecovery \in BOOLEAN, Pick(isRecovery)
  PROVE  Effects
<1>1. UNCHANGED <<mailVars, landed, w, task>> /\ Occupying = {} /\ ~TaskRuns
  BY DEF Pick, occupied, sessionVars
<1>2. lane'.step = "probe" /\ lane'.pick \in Deliveries /\ lane'.attach = w.attach
  BY DEF Pick, FreeLane, Candidates
<1>3. MailInv' /\ \A d \in Deliveries : Eases(box[d], box'[d])
  BY <1>1, QuietMail, Rows
<1>4. Relaxes
  BY <1>1, <1>3 DEF Relaxes, TaskRuns
<1>5. LaneInv'
  BY <1>1, <1>2, <1>4, RelaxPrompts, Rows DEF LaneInv, Relaxes
<1> QED
  BY <1>3, <1>4, <1>5, RelaxPrompts DEF Effects, Eases

\* processInbox takes the lane.
LEMMA EnterStep ==
  ASSUME IInv, Enter \/ recoverInboxReads
  PROVE  Effects
<1>1. ASSUME NEW isRecovery \in BOOLEAN, NothingToDo(isRecovery) PROVE Effects
  <2>1. UNCHANGED <<mailVars, landed, lane, w, task>>
    BY <1>1 DEF NothingToDo, sessionVars
  <2> QED
    BY <2>1, Quiet DEF TaskRuns
<1>2. CASE recoverInboxReads
  <2>1. UNCHANGED <<mailVars, landed, lane, w, task>>
    BY <1>2 DEF recoverInboxReads, sessionVars
  <2> QED
    BY <2>1, Quiet DEF TaskRuns
<1> QED
  BY <1>1, <1>2, HoldBackStep, PickStep DEF Enter

\* The steps of the lane.
LEMMA ProbeStep ==
  ASSUME IInv, Probe
  PROVE  Effects
<1>1. UNCHANGED <<mailVars, landed, w, task>> /\ lane.step = "probe"
  BY DEF Probe, sessionVars
<1>2. lane'.step = "intent" /\ lane'.pick = lane.pick /\ lane'.attach = lane.attach
  BY Rows DEF Probe, withBaselines, Lanes
<1>3. MailInv' /\ \A d \in Deliveries : Eases(box[d], box'[d])
  BY <1>1, QuietMail, Rows
<1>4. Relaxes
  BY <1>1, <1>3 DEF Relaxes, TaskRuns
<1>5. LaneInv'
  BY <1>1, <1>2, <1>4, RelaxPrompts DEF LaneInv, Relaxes, IInv
<1> QED
  BY <1>3, <1>4, <1>5, RelaxPrompts DEF Effects, Eases

\* It gives up after looking at the agent.
LEMMA ProbeHeldStep ==
  ASSUME IInv, ProbeHeld
  PROVE  Effects
<1>1. UNCHANGED <<receipt, landed, w, task>> /\ lane' = FreeLane
  BY DEF ProbeHeld, sessionVars
<1>2. ASSUME NEW d \in Deliveries
      PROVE  /\ box'[d].wake = box[d].wake /\ box'[d].status = box[d].status
             /\ box'[d].attach = box[d].attach
  BY HeldMail, Rows DEF ProbeHeld
<1>3. \A d \in Deliveries : Eases(box[d], box'[d])
  BY <1>2, Rows, Same DEF Eases, Progress
<1>4. Relaxes
  BY <1>1, <1>3 DEF Relaxes, TaskRuns
<1>5. MailInv'
  BY <1>1, <1>2 DEF IInv, MailInv, MailOf
<1> QED
  BY <1>1, <1>4, <1>5, Easing

\* The claim: the picked wake becomes the only one.
LEMMA IntentStep ==
  ASSUME IInv, Intent
  PROVE  Effects
<1> DEFINE d == lane.pick
<1>1. d \in Deliveries /\ Occupying = {} /\ ~TaskRuns
  BY DEF Intent, Claimable, IInv, LaneInv
<1>2. /\ UNCHANGED <<landed, w, task>>
      /\ lane.attach = w.attach /\ waiting(box[d])
      /\ \A e \in Deliveries \ {d} : box'[e] = box[e] /\ receipt'[e] = receipt[e]
      /\ box'[d] = Sending(box[d]) /\ receipt'[d] = "accepted"
      /\ lane'.step = "prompt" /\ lane'.pick = d /\ lane'.attach = lane.attach
  BY <1>1, Rows DEF Intent, Claimable, sessionVars, Lanes
<1>3. box'[d].wake = "sending" /\ box'[d].attach = w.attach /\ box'[d].status = box[d].status
  BY <1>1, <1>2, Rows DEF Sending, DeliveryRec
<1>4. box[d].wake = "queued" /\ landed[d] = 0
  BY <1>1, <1>2 DEF waiting, IInv, MailInv, MailOf
<1> HIDE DEF d
<1>5. MailOf(box'[d], receipt'[d], landed'[d], w'.attach)
  BY <1>1, <1>2, <1>3, <1>4, Rows DEF MailOf
<1>6. MailInv'
  BY <1>1, <1>2, <1>5 DEF IInv, MailInv
<1>7. Occupying' \subseteq {d}
  BY <1>1, <1>2 DEF Occupying
<1>8. PromptInv'
  BY <1>1, <1>2, <1>7 DEF PromptInv, TaskRuns
<1>9. LaneInv'
  BY <1>1, <1>2, <1>3, <1>4, Rows DEF LaneInv, Claimed
<1>10. \A e \in Deliveries : Progress(box[e], box'[e])
  <2>1. Progress(box[d], box'[d])
    BY <1>1, <1>3, <1>4, Rows, Same DEF Eases, Progress, Over
  <2> QED
    BY <1>2, <2>1, Rows, Same DEF Eases
<1> QED
  BY <1>6, <1>8, <1>9, <1>10 DEF Effects

\* It types the prompt, once.
LEMMA PromptStep ==
  ASSUME IInv, Prompt
  PROVE  Effects
<1>1. UNCHANGED <<mailVars, w, task>> /\ lane.step = "prompt" /\ lane.pick \in Deliveries
  BY DEF Prompt, sessionVars, IInv, LaneInv
<1>2. PICK a \in {"ok", "refused", "lost"}, reaches \in BOOLEAN :
        /\ a = "refused" => ~reaches
        /\ lane' = [lane EXCEPT !.step = "result", !.answer = a]
        /\ landed' = IF reaches THEN [landed EXCEPT ![lane.pick] = @ + 1] ELSE landed
  BY DEF Prompt
<1>3. lane'.step = "result" /\ lane'.pick = lane.pick /\ lane'.attach = lane.attach
      /\ lane'.answer = a
  BY <1>2, Rows DEF Lanes
<1>4. landed[lane.pick] = 0 /\ Claimed(box[lane.pick], receipt[lane.pick])
  BY <1>1 DEF IInv, LaneInv
<1>5. /\ \A d \in Deliveries \ {lane.pick} : landed'[d] = landed[d]
      /\ landed'[lane.pick] \in {0, 1} /\ (a = "refused" => landed'[lane.pick] = 0)
  BY <1>1, <1>2, <1>4, Rows
<1>6. \A d \in Deliveries : Eases(box[d], box'[d])
  BY <1>1, Rows, Same DEF mailVars
<1>7. Relaxes
  BY <1>1, <1>6 DEF Relaxes, TaskRuns
<1>8. MailInv'
  <2>1. MailOf(box[lane.pick], receipt[lane.pick], landed'[lane.pick], w.attach)
    BY <1>1, <1>4, <1>5 DEF IInv, MailInv, MailOf, Claimed
  <2> QED
    BY <1>1, <1>5, <2>1 DEF IInv, MailInv, mailVars
<1>9. LaneInv'
  BY <1>1, <1>2, <1>3, <1>4, <1>5 DEF IInv, LaneInv, mailVars
<1> QED
  BY <1>6, <1>7, <1>8, <1>9, RelaxPrompts DEF Effects, Eases

\* It records what became of the prompt.
LEMMA ResultStep ==
  ASSUME IInv, Result
  PROVE  Effects
<1> DEFINE d == lane.pick
           s == Delivered(box[d], lane.answer)
           u == finishReceipt(receipt[d], CASE lane.answer = "ok" -> "completed"
                                            [] lane.answer = "lost" -> "uncertain"
                                            [] OTHER -> "failed")
<1>1. d \in Deliveries /\ lane.answer \in {"none", "ok", "refused", "lost"}
      /\ Claimed(box[d], receipt[d]) /\ (lane.answer \notin {"ok", "lost"} => landed[d] = 0)
  BY Rows DEF Result, IInv, LaneInv, Lanes
<1>2. /\ UNCHANGED <<landed, w, task>> /\ lane' = FreeLane
      /\ \A e \in Deliveries \ {d} : box'[e] = box[e] /\ receipt'[e] = receipt[e]
      /\ box'[d] = s /\ receipt'[d] = u
  BY <1>1, Rows DEF Result, sessionVars
<1>3. MailOf(box[d], receipt[d], landed[d], w.attach)
  BY <1>1 DEF IInv, MailInv
<1>4. MailOf(s, u, landed[d], w.attach) /\ Eases(box[d], s)
  BY <1>1, <1>3, Rows, DeliveredMail
<1> HIDE DEF d, s, u
<1>5. Relaxes
  BY <1>1, <1>2, <1>4, Same, Rows DEF Relaxes, TaskRuns
<1>6. MailInv'
  BY <1>1, <1>2, <1>4 DEF IInv, MailInv
<1> QED
  BY <1>2, <1>5, <1>6, Easing

\* All of processInbox keeps the invariant.
LEMMA ProcessStep ==
  ASSUME IInv, processInbox
  PROVE  Effects
<1>1. CASE IntentGivenUp
  <2>1. UNCHANGED <<mailVars, landed, w, task>> /\ lane' = FreeLane
    BY <1>1 DEF IntentGivenUp, sessionVars
  <2> QED
    BY <2>1, Quiet DEF TaskRuns
<1> QED
  BY <1>1, ProbeStep, ProbeHeldStep, IntentStep, PromptStep, ResultStep DEF processInbox

\* The observation: it ends wakes, or opens an attachment that has none.
LEMMA ObserveStep ==
  ASSUME IInv, Observe
  PROVE  Effects
<1> DEFINE p == obs.p
<1>1. p \in AgentRec /\ UNCHANGED <<landed, lane>>
  BY DEF IInv, TypeOK, SessionTypes, Observe
<1>2. CASE p.seq < w.seq
  <2>1. w'.attach = w.attach + 1 /\ UNCHANGED <<box, task>>
    BY <1>2 DEF Observe
  <2>2. receipt' = receipt
    <3>1. \A d \in Deliveries : receipt'[d] = receipt[d]
      BY <1>2 DEF Observe
    <3>2. receipt' = [d \in Deliveries |-> receipt'[d]]
      BY DEF Observe
    <3> QED
      BY <3>1, <3>2, Rows
  <2>3. MailInv' /\ \A d \in Deliveries : Eases(box[d], box'[d])
    BY <1>1, <2>1, <2>2, QuietMail DEF mailVars
  <2>4. Occupying' = {}
    BY <2>1, Rows DEF Occupying, IInv, MailInv, MailOf
  <2>5. PromptInv'
    BY <2>4 DEF PromptInv
  <2>6. LaneInv'
    BY <1>1, <2>1, <2>2, Rows DEF IInv, LaneInv
  <2> QED
    BY <2>3, <2>5, <2>6 DEF Effects, Eases
<1>3. CASE ~(p.seq < w.seq)
  <2>1. w'.attach = w.attach /\ task' = observedTask(p)
    BY <1>3 DEF Observe
  <2>2. TaskRuns' => TaskRuns
    <3>1. task \in TaskRec
      BY DEF IInv, TypeOK
    <3> HIDE DEF p
    <3> QED
      BY <2>1, <3>1 DEF TaskRuns, observedTask, closed, TaskRec
  <2> DEFINE s(d) == Observed(box[d], p)
             u(d) == IF box[d].wake # "ended" /\ s(d).wake = "ended" /\ receipt[d] # "none"
                     THEN finishReceipt(receipt[d], "completed") ELSE receipt[d]
  <2>3. ASSUME NEW d \in Deliveries PROVE box'[d] = s(d) /\ receipt'[d] = u(d)
    BY <1>3 DEF Observe
  <2>4. ASSUME NEW d \in Deliveries
        PROVE  /\ MailOf(s(d), u(d), landed[d], w.attach) /\ Eases(box[d], s(d))
               /\ Claimed(box[d], receipt[d]) => Claimed(s(d), u(d))
    BY <1>1, Rows, ObservedMail DEF IInv, MailInv
  <2> HIDE DEF s, u, p
  <2>5. Relaxes
    BY <2>1, <2>2, <2>3, <2>4 DEF Relaxes
  <2>6. MailInv'
    BY <1>1, <2>1, <2>3, <2>4 DEF MailInv
  <2> QED
    BY <1>1, <2>3, <2>4, <2>5, <2>6, Easing
<1> QED
  BY <1>2, <1>3

\* Adoption opens an attachment that has no wake; both end the task.
LEMMA RebindStep ==
  ASSUME IInv, Rebind
  PROVE  Effects
<1>1. UNCHANGED <<mailVars, landed, lane>> /\ lane.step = "free"
  BY DEF Rebind, callVars
<1>2. ~TaskRuns'
  BY DEF Rebind, TaskRuns, IInv, TypeOK, TaskRec
<1>3. w'.attach \in {w.attach, w.attach + 1}
  BY Rows DEF Rebind, WorkerRec
<1>4. MailInv' /\ \A d \in Deliveries : Eases(box[d], box'[d])
  BY <1>1, <1>3, QuietMail
<1>5. PromptInv'
  <2>1. CASE w'.attach = w.attach
    BY <1>1, <1>2, <2>1 DEF IInv, PromptInv, Occupying, mailVars
  <2>2. CASE w'.attach = w.attach + 1
    <3>1. Occupying' = {}
      BY <1>1, <2>2, Rows DEF Occupying, IInv, MailInv, MailOf, mailVars
    <3> QED
      BY <3>1 DEF PromptInv
  <2> QED
    BY <1>3, <2>1, <2>2
<1>6. LaneInv'
  BY <1>1, <1>3, Rows DEF IInv, LaneInv
<1> QED
  BY <1>4, <1>5, <1>6 DEF Effects, Eases

-----------------------------------------------------------------------------
(* The invariant, and the theorems it gives.                               *)

\* The invariant holds at the start.
LEMMA InitInv == Init => IInv
<1> SUFFICES ASSUME Init PROVE IInv
  OBVIOUS
<1>1. TypeOK
  BY InitType
<1>2. MailInv
  BY DEF Init, MailInv, MailOf, NotSent
<1>3. Occupying = {} /\ lane.step = "free" /\ lane.attach = 0 /\ w.attach = 1
  BY DEF Init, Occupying, NotSent, Unresolved, FreeLane
<1>4. LaneInv /\ PromptInv
  BY <1>3 DEF LaneInv, PromptInv
<1> QED
  BY <1>1, <1>2, <1>4 DEF IInv

\* Every step keeps the invariant.
LEMMA Step ==
  ASSUME IInv, [Next]_vars
  PROVE  IInv' /\ \A d \in Deliveries : Progress(box[d], box'[d])
<1>1. TypeOK /\ (lane.step # "free" => lane.pick \in Deliveries)
  BY DEF IInv, LaneInv
<1>2. CASE BeginTurn \/ BeginHumanTurn \/ EndTurn \/ ResetSequence
  BY <1>1, <1>2, AgentType, AgentStep DEF Effects, IInv
<1>3. CASE \E d \in Deliveries : Send(d) \/ \E consume \in BOOLEAN : Ack(d, consume)
  BY <1>1, <1>3, MessageType, SendStep, AckStep DEF Effects, IInv
<1>4. CASE \E d \in Deliveries, verdict \in {"completed", "failed"} : Resolve(d, verdict)
  BY <1>1, <1>4, MessageType, ResolveStep DEF Effects, IInv
<1>5. CASE Enter \/ recoverInboxReads
  BY <1>1, <1>5, EnterType, EnterStep DEF Effects, IInv
<1>6. CASE processInbox
  BY <1>1, <1>6, ProcessType, ProcessStep DEF Effects, IInv
<1>7. CASE Dispatch \/ Done \/ Fail
  BY <1>1, <1>7, TaskType, DispatchStep, TaskStep DEF Effects, IInv
<1>8. CASE SampleEvent \/ SampleRefresh \/ Apply \/ Outage \/ Disconnected \/ Rebind \/ Crash
  BY <1>1, <1>8, SessionType, SessionStep, ObserveStep, RebindStep DEF Effects, IInv, Apply
<1>9. CASE UNCHANGED vars
  <2>1. UNCHANGED <<mailVars, landed, lane, w, task>>
    BY <1>9 DEF vars, mailVars
  <2>2. Effects
    BY <2>1, Quiet DEF TaskRuns
  <2>3. TypeOK'
    BY <1>1, <1>9, AgentKept, SessionKept, MailKept, CallKept
       DEF TypeOK, vars, agentVars, sessionVars, mailVars, callVars
  <2> QED
    BY <2>2, <2>3 DEF Effects, IInv
<1> QED
  BY <1>2, <1>3, <1>4, <1>5, <1>6, <1>7, <1>8, <1>9 DEF Next

\* The inductive invariant of the mailbox.
LEMMA Invariance == Spec => []IInv
<1>1. IInv /\ [Next]_vars => IInv'
  BY Step
<1> QED
  BY <1>1, InitInv, PTL DEF Spec

\* Types: every variable of the mailbox keeps its type, for any number of deliveries.
THEOREM TypeCorrect == Spec => []TypeOK
<1>1. IInv => TypeOK
  BY DEF IInv
<1> QED
  BY <1>1, Invariance, PTL

\* messaging.go: a notice is typed into the agent at most once, whatever is refused, lost,
\* read meanwhile, recovered or interrupted by crashes.
THEOREM NoticeTypedOnce == Spec => []WokenAtMostOnce
<1>1. IInv => WokenAtMostOnce
  BY DEF IInv, MailInv, MailOf, WokenAtMostOnce
<1> QED
  BY <1>1, Invariance, PTL

\* The operation row and the delivery row of an attempt, written by different handlers,
\* always tell the same story.
THEOREM ReceiptsAgree == Spec => []ReceiptTellsWake
<1>1. IInv => ReceiptTellsWake
  BY DEF IInv, MailInv, MailOf, ReceiptTellsWake
<1> QED
  BY <1>1, Invariance, PTL

\* "one unresolved wake occupies the lane until its own turn is known ended", and none is
\* unresolved beside a dispatch.
THEOREM PromptsNeverMeet == Spec => []OneUnresolvedPrompt
<1>1. ASSUME IInv PROVE OneUnresolvedPrompt
  <2>1. CASE Occupying = {}
    <3>1. Cardinality(Occupying) = 0
      BY <2>1, FS_EmptySet
    <3> QED
      BY <3>1 DEF OneUnresolvedPrompt
  <2>2. CASE Occupying # {}
    <3>1. PICK d \in Occupying : TRUE
      BY <2>2
    <3>2. Occupying = {d}
      BY <1>1, <3>1 DEF IInv, PromptInv
    <3>3. Cardinality(Occupying) = 1
      BY <3>2, FS_Singleton
    <3>4. ~TaskRuns
      BY <1>1, <2>2 DEF IInv, PromptInv
    <3> QED
      BY <3>3, <3>4 DEF OneUnresolvedPrompt
  <2> QED
    BY <2>1, <2>2
<1> QED
  BY <1>1, Invariance, PTL

\* "Receipt progression is monotonic": nothing takes back what the recipient has seen.
THEOREM SeenStaysSeen == Spec => ReceiptsProgress
<1>1. IInv /\ [Next]_vars =>
        [\A d \in Deliveries : Rank[box[d].status] <= Rank[box'[d].status]]_vars
  BY Step DEF Progress
<1> QED
  BY <1>1, Invariance, PTL DEF Spec, ReceiptsProgress

\* No late result, sample, acknowledgment or resolution reopens a wake that is over.
THEOREM OverStaysOver == Spec => WakesStayOver
<1>1. IInv /\ [Next]_vars =>
        [\A d \in Deliveries : box[d].wake \in {"ended", "abandoned", "resolved"} =>
           box'[d].wake = box[d].wake]_vars
  BY Step DEF Progress, Over
<1> QED
  BY <1>1, Invariance, PTL DEF Spec, WakesStayOver

-----------------------------------------------------------------------------
(* Whose turn ends a wake. The baselines are those of the probe, and the   *)
(* lane keeps them until the claim.                                        *)

\* The baseline of a wake that is being prepared, sent or under way.
Baseline(d) == IF lane.pick = d /\ lane.step = "intent" THEN lane.seq ELSE box[d].base

\* Neither its own turn has ended since the probe, nor has another begun.
Open(d) == Awaits(d) /\ ~intruded[d]

\* While that is so, whatever the agent or a sample shows beyond the baseline is the turn
\* under way; so an observed end is that of its own turn or comes after another's begin.
TurnOf(d) ==
  /\ Open(d) => /\ turn \in {None, d}
                /\ agent.seq > Baseline(d) => agent.status = "working"
                /\ obs.kind # "off" /\ obs.p.seq > Baseline(d) => obs.p.status = "working"
  /\ box[d].wake = "ended" /\ receipt[d] = "completed" => ownEnded[d] \/ intruded[d]

\* A delivery that was picked and not claimed is queued, or was read meanwhile.
PickInv ==
  lane.step \in {"probe", "intent"} => /\ box[lane.pick].wake \in {"queued", "ended"}
                                       /\ receipt[lane.pick] # "completed"

\* Nothing is completed before it was sent.
DoneInv == \A d \in Deliveries : receipt[d] = "completed" => box[d].wake \notin {"none", "queued"}

TurnInv ==
  /\ PickInv /\ DoneInv
  /\ agent.status = "idle" <=> turn = None
  /\ "reset" \notin hits => /\ obs.kind # "off" => obs.p.seq <= agent.seq
                            /\ \A d \in Deliveries : TurnOf(d)

\* What a step may do to a row and its receipt, other than an observation: the baselines
\* stand, no wake comes under way, nothing picked is taken away, and nothing is completed
\* that was not.
Calms(r, v, s, u) ==
  /\ s.base = r.base
  /\ s.wake \in Unresolved => r.wake \in Unresolved
  /\ r.wake \in {"queued", "ended"} /\ v # "completed"
       => s.wake \in {"queued", "ended"} /\ u # "completed"
  /\ u = "completed" => s.wake \notin {"none", "queued"}
  /\ s.wake = "ended" /\ u = "completed" => r.wake = "ended" /\ v = "completed"

\* A row whose wake is left alone.
LEMMA CalmSame ==
  ASSUME NEW r, NEW v, NEW s, v = "completed" => r.wake \notin {"none", "queued"},
         s.base = r.base, s.wake = r.wake
  PROVE  Calms(r, v, s, v)
  BY DEF Calms

\* A row that was read.
LEMMA CalmAck ==
  ASSUME NEW r \in DeliveryRec, NEW v \in Verdicts, NEW n \in Nat, NEW attach \in Nat,
         NEW consume \in BOOLEAN, MailOf(r, v, n, attach),
         v = "completed" => r.wake \notin {"none", "queued"}
  PROVE  Calms(r, v, ackDelivery(r, consume),
               IF v \in {"accepted", "uncertain"} THEN "completed" ELSE v)
<1> DEFINE s == ackDelivery(r, consume)
<1>1. /\ s.base = r.base
      /\ r.wake \in Unresolved => s.wake = "acknowledged"
      /\ r.wake = "queued" => s.wake = "ended"
      /\ r.wake \notin Unresolved \cup {"queued"} => s.wake = r.wake
  BY DEF ackDelivery, DeliveryRec, Unresolved
<1> HIDE DEF s
<1> QED
  BY <1>1 DEF s, Calms, MailOf, Unresolved

\* A wake whose daemon died.
LEMMA CalmLost ==
  ASSUME NEW r, NEW v, NEW s, NEW u, r.wake = "sending", s.wake = "uncertain", s.base = r.base,
         u \in {v, "uncertain"}
  PROVE  Calms(r, v, s, u)
  BY DEF Calms, Unresolved

\* A wake that was resolved by hand.
LEMMA CalmResolve ==
  ASSUME NEW r \in DeliveryRec, NEW v \in Verdicts, NEW n \in Nat, NEW attach \in Nat,
         NEW verdict \in {"completed", "failed"}, MailOf(r, v, n, attach),
         v \in {"accepted", "uncertain"} \/ (v = "completed" /\ r.wake \in Unresolved),
         NEW s, s.base = r.base,
         s.wake = IF verdict = "failed" THEN "abandoned" ELSE "resolved"
  PROVE  Calms(r, v, s, finishReceipt(v, verdict))
  BY DEF Calms, MailOf, Unresolved

\* A wake whose transport result is recorded.
LEMMA CalmResult ==
  ASSUME NEW r \in DeliveryRec, NEW v \in Verdicts, NEW n \in Nat, NEW attach \in Nat,
         NEW a \in {"none", "ok", "refused", "lost"}, MailOf(r, v, n, attach), Claimed(r, v)
  PROVE  Calms(r, v, Delivered(r, a),
               finishReceipt(v, CASE a = "ok" -> "completed" [] a = "lost" -> "uncertain"
                                  [] OTHER -> "failed"))
<1> DEFINE s == Delivered(r, a)
<1>1. /\ s.base = r.base
      /\ s.wake = IF r.wake # "sending" THEN r.wake
                  ELSE CASE a = "ok" -> "sent" [] a = "lost" -> "uncertain" [] OTHER -> "queued"
  BY DEF Delivered, DeliveryRec
<1> HIDE DEF s
<1> QED
  BY <1>1 DEF s, Calms, MailOf, Claimed, finishReceipt, Unresolved, Verdicts

\* Rows and receipts keep what TurnInv says where they are calmed, the agent and its turn
\* are left alone, and no wake comes to be awaited from another baseline.
LEMMA TurnKept ==
  ASSUME TurnInv, UNCHANGED <<agent, turn, ownEnded, intruded>>, hits \subseteq hits',
         obs' = obs \/ obs' = NoSample, PickInv',
         \A d \in Deliveries : Calms(box[d], receipt[d], box'[d], receipt'[d]),
         \A d \in Deliveries : Awaits(d)' => Awaits(d) /\ Baseline(d)' = Baseline(d)
  PROVE  TurnInv'
<1>1. DoneInv'
  BY DEF Calms, DoneInv
<1>2. (agent.status = "idle" <=> turn = None)'
  BY DEF TurnInv
<1>3. ASSUME "reset" \notin hits'
      PROVE  /\ obs'.kind # "off" => obs'.p.seq <= agent'.seq
             /\ \A d \in Deliveries : TurnOf(d)'
  <2>1. /\ obs.kind # "off" => obs.p.seq <= agent.seq
        /\ \A d \in Deliveries : TurnOf(d)
    BY <1>3 DEF TurnInv
  <2>2. obs'.kind # "off" => obs' = obs
    BY DEF NoSample
  <2>3. ASSUME NEW d \in Deliveries PROVE TurnOf(d)'
    <3>1. TurnOf(d) /\ Calms(box[d], receipt[d], box'[d], receipt'[d])
      BY <2>1
    <3>2. Open(d)' => Open(d) /\ Baseline(d)' = Baseline(d)
      BY DEF Open
    <3> HIDE DEF Open, Baseline
    <3> QED
      BY <2>2, <3>1, <3>2 DEF TurnOf, Calms
  <2> QED
    BY <2>1, <2>2, <2>3
<1> QED
  BY <1>1, <1>2, <1>3 DEF TurnInv

\* Nothing comes to be awaited where the lane stands, or is freed; a picked delivery stays
\* one that is queued or was read.
LEMMA LaneKept ==
  ASSUME IInv, TurnInv, UNCHANGED ownEnded, lane' = lane \/ lane' = FreeLane,
         \A d \in Deliveries : Calms(box[d], receipt[d], box'[d], receipt'[d])
  PROVE  /\ PickInv'
         /\ \A d \in Deliveries : Awaits(d)' => Awaits(d) /\ Baseline(d)' = Baseline(d)
<1>1. CASE lane' = lane
  <2>1. lane.step # "free" => lane.pick \in Deliveries
    BY DEF IInv, LaneInv
  <2>2. PickInv'
    BY <1>1, <2>1 DEF TurnInv, PickInv, Calms
  <2> QED
    BY <1>1, <2>2 DEF Awaits, inFlight, Baseline, Calms
<1>2. CASE lane' = FreeLane
  <2>1. lane'.step = "free"
    BY <1>2 DEF FreeLane
  <2>2. ASSUME NEW d \in Deliveries, Awaits(d)'
        PROVE  Awaits(d) /\ Baseline(d)' = Baseline(d)
    <3>1. box'[d].wake \in Unresolved /\ ~ownEnded[d] /\ box[d].wake \in Unresolved
      BY <2>1, <2>2 DEF Awaits, inFlight, Calms
    <3>2. ~(lane.pick = d /\ lane.step = "intent")
      BY <3>1 DEF TurnInv, PickInv, Unresolved
    <3> QED
      BY <2>1, <3>1, <3>2 DEF Awaits, Baseline, Calms
  <2> QED
    BY <2>1, <2>2 DEF PickInv
<1> QED
  BY <1>1, <1>2

\* Two values make no three.
LEMMA TwoAtMost == ASSUME NEW a, NEW b PROVE Cardinality({a, b}) # 3
<1>1. CASE a = b
  <2>1. {a, b} = {a}
    BY <1>1
  <2>2. Cardinality({a}) = 1
    BY FS_Singleton
  <2> QED
    BY <2>1, <2>2
<1>2. CASE a # b
  <2>1. /\ IsFiniteSet({a}) /\ Cardinality({a}) = 1
    BY FS_Singleton
  <2>2. {a, b} = {a} \cup {b} /\ b \notin {a}
    BY <1>2
  <2>3. Cardinality({a} \cup {b}) = 2
    BY <2>1, <2>2, FS_AddElement
  <2> QED
    BY <2>2, <2>3
<1> QED
  BY <1>1, <1>2

\* What every row of the invariants says.
LEMMA EachRow ==
  ASSUME IInv, TurnInv, NEW d \in Deliveries
  PROVE  /\ box[d] \in DeliveryRec /\ receipt[d] \in Verdicts /\ landed[d] \in Nat
         /\ MailOf(box[d], receipt[d], landed[d], w.attach) /\ w.attach \in Nat
         /\ receipt[d] = "completed" => box[d].wake \notin {"none", "queued"}
  BY Rows DEF IInv, MailInv, TurnInv, DoneInv

\* A step that leaves rows, receipts and the agent alone.
LEMMA TurnQuiet ==
  ASSUME IInv, TurnInv, UNCHANGED <<mailVars, agent, turn, ownEnded, intruded>>,
         hits \subseteq hits', obs' = obs \/ obs' = NoSample, lane' = lane \/ lane' = FreeLane
  PROVE  TurnInv'
<1>1. \A d \in Deliveries : Calms(box[d], receipt[d], box'[d], receipt'[d])
  BY EachRow, CalmSame DEF mailVars
<1> QED
  BY <1>1, LaneKept, TurnKept

\* A turn begins: whoever waits for another one is told so. A turn ends: nobody waits any
\* more, for it was the one awaited, or another.
LEMMA AgentTurns ==
  ASSUME IInv, TurnInv, BeginTurn \/ BeginHumanTurn \/ EndTurn \/ ResetSequence
  PROVE  TurnInv'
<1>0. agent \in AgentRec /\ None \notin Deliveries \cup {Task, Human}
  <2>1. None # Task /\ None # Human
    <3>1. CASE None = Task
      <4>1. {Task, Human, None} = {Task, Human}
        BY <3>1
      <4> QED
        BY <4>1, TwoAtMost, OwnersAssumption
    <3>2. CASE None = Human
      <4>1. {Task, Human, None} = {Task, Human}
        BY <3>2
      <4> QED
        BY <4>1, TwoAtMost, OwnersAssumption
    <3> QED
      BY <3>1, <3>2
  <2> QED
    BY <2>1, OwnersAssumption DEF IInv, TypeOK, AgentTypes
<1>1. UNCHANGED <<box, receipt, lane, obs>>
  BY DEF BeginTurn, BeginHumanTurn, Begin, EndTurn, ResetSequence, mailVars, callVars
<1>2. PickInv' /\ DoneInv'
  BY <1>1 DEF TurnInv, PickInv, DoneInv
<1>3. \A d \in Deliveries : Baseline(d)' = Baseline(d) /\ Baseline(d) \in Nat
  BY <1>1, EachRow DEF Baseline, IInv, TypeOK, CallTypes, DeliveryRec
<1>4. obs.p \in AgentRec
  BY DEF IInv, TypeOK, SessionTypes
<1>5. CASE BeginTurn \/ BeginHumanTurn
  <2>1. PICK owner \in Deliveries \cup {Task, Human} : Begin(owner)
    BY <1>5 DEF BeginTurn, BeginHumanTurn, IInv, TypeOK, AgentTypes
  <2>2. /\ agent'.status = "working" /\ agent'.seq = agent.seq + 1 /\ turn' = owner
        /\ UNCHANGED ownEnded
        /\ \A d \in Deliveries : intruded'[d] = (intruded[d] \/ (d # owner /\ Awaits(d)))
    BY <1>0, <2>1 DEF Begin, AgentRec
  <2>3. hits \subseteq hits'
    BY <1>5 DEF BeginTurn, BeginHumanTurn, Disturb
  <2>4. ASSUME "reset" \notin hits, obs.kind # "off" PROVE obs.p.seq <= agent.seq + 1
    BY <1>0, <1>4, <2>4 DEF TurnInv, AgentRec
  <2>5. ASSUME "reset" \notin hits, NEW d \in Deliveries PROVE TurnOf(d)'
    <3>1. TurnOf(d)
      BY <2>5 DEF TurnInv
    <3>2. Awaits(d)' <=> Awaits(d)
      BY <1>1, <2>2 DEF Awaits, inFlight
    <3>3. Open(d)' => Open(d) /\ d = owner
      BY <2>2, <3>2 DEF Open
    <3> HIDE DEF Open, Baseline
    <3> QED
      BY <1>1, <1>3, <2>2, <3>1, <3>3 DEF TurnOf
  <2> QED
    BY <1>0, <1>1, <1>2, <2>2, <2>3, <2>4, <2>5 DEF TurnInv
<1>6. CASE EndTurn
  <2>1. /\ agent'.status = "idle" /\ agent'.seq = agent.seq + 1 /\ turn' = None /\ turn # None
        /\ UNCHANGED <<intruded, hits>>
        /\ \A d \in Deliveries : ownEnded'[d] = (ownEnded[d] \/ d = turn)
    BY <1>6 DEF EndTurn
  <2>2. ASSUME "reset" \notin hits, obs.kind # "off" PROVE obs.p.seq <= agent.seq + 1
    BY <1>0, <1>4, <2>2 DEF TurnInv, AgentRec
  <2>3. ASSUME "reset" \notin hits, NEW d \in Deliveries PROVE TurnOf(d)'
    <3>1. TurnOf(d)
      BY <2>3 DEF TurnInv
    <3>2. ~Open(d)'
      <4>1. Awaits(d)' => Awaits(d) /\ d # turn
        BY <1>1, <2>1 DEF Awaits, inFlight
      <4>2. Open(d) => turn = d
        BY <2>1, <3>1 DEF TurnOf
      <4> QED
        BY <2>1, <4>1, <4>2 DEF Open
    <3> HIDE DEF Open, Baseline
    <3> QED
      BY <1>1, <2>1, <3>1, <3>2 DEF TurnOf
  <2> QED
    BY <1>1, <1>2, <2>1, <2>2, <2>3 DEF TurnInv
<1>7. CASE ResetSequence
  <2>1. "reset" \in hits' /\ turn' = turn /\ agent'.status = agent.status
    BY <1>0, <1>7 DEF ResetSequence, Disturb, AgentRec
  <2> QED
    BY <1>2, <2>1 DEF TurnInv
<1> QED
  BY <1>5, <1>6, <1>7

\* A sample shows the agent as it is.
LEMMA SampleTurns ==
  ASSUME IInv, TurnInv, SampleEvent \/ SampleRefresh
  PROVE  TurnInv'
<1>1. UNCHANGED <<mailVars, agent, turn, ownEnded, intruded, lane, hits>> /\ obs'.p = agent
  BY DEF SampleEvent, SampleRefresh, Sample, agentVars, callVars
<1>2. agent.seq <= agent.seq
  BY DEF IInv, TypeOK, AgentTypes, AgentRec
<1>3. PickInv' /\ DoneInv' /\ (agent.status = "idle" <=> turn = None)'
  BY <1>1 DEF TurnInv, PickInv, DoneInv, mailVars
<1>4. ASSUME "reset" \notin hits, NEW d \in Deliveries PROVE TurnOf(d)'
  <2>1. TurnOf(d)
    BY <1>4 DEF TurnInv
  <2>2. (Open(d)' <=> Open(d)) /\ Baseline(d)' = Baseline(d)
    BY <1>1 DEF Open, Awaits, inFlight, Baseline, mailVars
  <2> HIDE DEF Open, Baseline
  <2> QED
    BY <1>1, <2>1, <2>2 DEF TurnOf, mailVars
<1> QED
  BY <1>1, <1>2, <1>3, <1>4 DEF TurnInv

\* Sessions, tasks, bindings and crashes leave the mail and the agent alone.
LEMMA QuietTurns ==
  ASSUME IInv, TurnInv,
         \/ DropSample \/ Outage \/ Disconnected \/ Rebind \/ Crash
         \/ Dispatch \/ Done \/ Fail \/ recoverInboxReads
  PROVE  TurnInv'
<1>1. UNCHANGED <<mailVars, agent, turn, ownEnded, intruded>>
  BY DEF DropSample, Outage, Disconnected, Offline, Rebind, Crash, Dispatch, Done, Fail,
     recoverInboxReads, agentVars
<1>2. hits \subseteq hits'
  BY DEF DropSample, Outage, Disconnected, Offline, Rebind, Crash, Dispatch, Done, Fail,
     recoverInboxReads, Disturb
<1>3. (obs' = obs \/ obs' = NoSample) /\ (lane' = lane \/ lane' = FreeLane)
  BY DEF DropSample, Outage, Disconnected, Offline, Rebind, Crash, Dispatch, Done, Fail,
     recoverInboxReads, sessionVars, callVars
<1> QED
  BY <1>1, <1>2, <1>3, TurnQuiet

\* Messages, acknowledgments and resolutions end no attempted wake by themselves, except
\* that an acknowledgment may take a queued one away.
LEMMA MessageTurns ==
  ASSUME IInv, TurnInv, NEW d \in Deliveries,
         \/ Send(d) \/ \E consume \in BOOLEAN : Ack(d, consume)
         \/ \E verdict \in {"completed", "failed"} : Resolve(d, verdict)
  PROVE  TurnInv'
<1>1. UNCHANGED <<agent, turn, ownEnded, intruded, obs, lane>>
  BY DEF Send, Ack, Resolve, agentVars, sessionVars, callVars
<1>2. hits \subseteq hits'
  BY DEF Send, Ack, Resolve, Disturb
<1>3. \A e \in Deliveries \ {d} : box'[e] = box[e] /\ receipt'[e] = receipt[e]
  BY Rows DEF Send, Ack, Resolve
<1>4. Calms(box[d], receipt[d], box'[d], receipt'[d])
  <2>1. CASE Send(d)
    <3>1. box[d].wake = "none" /\ receipt'[d] = receipt[d]
      BY <2>1 DEF Send, NotSent
    <3>2. box'[d].wake = "queued" /\ box'[d].base = box[d].base
      BY <2>1, EachRow, Rows DEF Send, DeliveryRec
    <3>3. receipt[d] # "completed"
      BY <3>1, EachRow
    <3> QED
      BY <3>1, <3>2, <3>3 DEF Calms, Unresolved
  <2>2. ASSUME NEW consume \in BOOLEAN, Ack(d, consume)
        PROVE  Calms(box[d], receipt[d], box'[d], receipt'[d])
    <3>1. /\ box'[d] = ackDelivery(box[d], consume)
          /\ receipt'[d] = IF receipt[d] \in {"accepted", "uncertain"} THEN "completed"
                           ELSE receipt[d]
      BY <2>2, Rows DEF Ack
    <3> QED
      BY <3>1, EachRow, CalmAck
  <2>3. ASSUME NEW verdict \in {"completed", "failed"}, Resolve(d, verdict)
        PROVE  Calms(box[d], receipt[d], box'[d], receipt'[d])
    <3>1. /\ box'[d].base = box[d].base
          /\ box'[d].wake = IF verdict = "failed" THEN "abandoned" ELSE "resolved"
          /\ receipt'[d] = finishReceipt(receipt[d], verdict)
      BY <2>3, EachRow, Rows DEF Resolve, DeliveryRec
    <3>2. receipt[d] \in {"accepted", "uncertain"}
            \/ (receipt[d] = "completed" /\ box[d].wake \in Unresolved)
      BY <2>3 DEF Resolve
    <3> QED
      BY <3>1, <3>2, EachRow, CalmResolve
  <2> QED
    BY <2>1, <2>2, <2>3
<1>5. \A e \in Deliveries : Calms(box[e], receipt[e], box'[e], receipt'[e])
  BY <1>3, <1>4, EachRow, CalmSame
<1> QED
  BY <1>1, <1>2, <1>5, LaneKept, TurnKept

\* Holding deliveries back calms their rows.
LEMMA HeldTurn ==
  ASSUME NEW rows \in [Deliveries -> DeliveryRec], NEW unread \in BOOLEAN, NEW d \in Deliveries
  PROVE  held(rows, unread)[d].base = rows[d].base
  BY DEF held, DeliveryRec

\* A background call finds the worker unreachable or occupied.
LEMMA HoldBackTurns ==
  ASSUME IInv, TurnInv, NEW isRecovery \in BOOLEAN, HoldBack(isRecovery)
  PROVE  TurnInv'
<1>1. UNCHANGED <<agent, turn, ownEnded, intruded, obs, lane, hits>>
  BY DEF HoldBack, agentVars, sessionVars
<1>2. ASSUME NEW d \in Deliveries PROVE Calms(box[d], receipt[d], box'[d], receipt'[d])
  <2>1. CASE box' = held(box, FALSE) /\ UNCHANGED receipt
    <3>1. box'[d].wake = box[d].wake /\ box'[d].base = box[d].base
      BY <2>1, Rows, HeldMail, HeldTurn
    <3> QED
      BY <2>1, <3>1, EachRow, CalmSame
  <2>2. CASE /\ box' = held(markedLost, FALSE)
             /\ receipt' = [e \in Deliveries |-> IF e \in Dead /\ receipt[e] = "accepted"
                                                 THEN "uncertain" ELSE receipt[e]]
    <3>1. markedLost \in [Deliveries -> DeliveryRec]
          /\ markedLost[d].base = box[d].base
          /\ markedLost[d].wake = IF d \in Dead THEN "uncertain" ELSE box[d].wake
      <4>1. \A e \in Deliveries : [box[e] EXCEPT !.wake = "uncertain"] \in DeliveryRec
        BY Rows DEF DeliveryRec, Wake, Unresolved
      <4> QED
        BY <4>1, Rows DEF markedLost, DeliveryRec
    <3>2. box'[d].base = box[d].base /\ box'[d].wake = markedLost[d].wake
      BY <2>2, <3>1, HeldMail, HeldTurn
    <3>3. CASE d \in Dead
      <4>1. box[d].wake = "sending" /\ receipt'[d] \in {receipt[d], "uncertain"}
        BY <2>2, <3>3 DEF Dead
      <4> QED
        BY <3>1, <3>2, <3>3, <4>1, CalmLost
    <3>4. CASE d \notin Dead
      BY <2>2, <3>1, <3>2, <3>4, EachRow, CalmSame
    <3> QED
      BY <3>3, <3>4
  <2> QED
    BY <2>1, <2>2 DEF HoldBack
<1> QED
  BY <1>1, <1>2, LaneKept, TurnKept

\* Nothing is awaited of a delivery that was picked and is not claimed yet.
LEMMA PickTurns ==
  ASSUME IInv, TurnInv, NEW isRecovery \in BOOLEAN, Pick(isRecovery)
  PROVE  TurnInv'
<1>1. UNCHANGED <<mailVars, agent, turn, ownEnded, intruded, obs, hits>>
      /\ lane.step = "free"
  BY DEF Pick, Takes, agentVars, sessionVars
<1>2. PICK d \in Deliveries : waiting(box[d]) /\ lane'.step = "probe" /\ lane'.pick = d
  BY DEF Pick, Candidates, inboxReadRecoverable, FreeLane
<1>3. PickInv'
  BY <1>1, <1>2, EachRow DEF PickInv, mailVars, waiting
<1>4. \A e \in Deliveries : Awaits(e)' => Awaits(e) /\ Baseline(e)' = Baseline(e)
  BY <1>1, <1>2 DEF Awaits, inFlight, Baseline, mailVars
<1>5. \A e \in Deliveries : Calms(box[e], receipt[e], box'[e], receipt'[e])
  BY <1>1, EachRow, CalmSame DEF mailVars
<1> QED
  BY <1>1, <1>3, <1>4, <1>5, TurnKept

\* processInbox takes the lane.
LEMMA EnterTurns ==
  ASSUME IInv, TurnInv, Enter
  PROVE  TurnInv'
<1>1. ASSUME NEW isRecovery \in BOOLEAN, NothingToDo(isRecovery) PROVE TurnInv'
  <2>1. UNCHANGED <<mailVars, agent, turn, ownEnded, intruded, obs, hits, lane>>
    BY <1>1 DEF NothingToDo, agentVars, sessionVars
  <2> QED
    BY <2>1, TurnQuiet
<1> QED
  BY <1>1, HoldBackTurns, PickTurns DEF Enter

\* The baselines are taken while the agent is idle: nothing lies beyond them yet.
LEMMA ProbeTurns ==
  ASSUME IInv, TurnInv, Probe
  PROVE  TurnInv'
<1> DEFINE d == lane.pick
<1>1. /\ UNCHANGED <<box, receipt, agent, turn, ownEnded, obs, hits>>
      /\ lane.step = "probe" /\ d \in Deliveries /\ turn = None
  BY DEF Probe, IInv, LaneInv, TurnInv, sessionVars, mailVars
<1>2. lane'.step = "intent" /\ lane'.pick = d /\ lane'.seq = agent.seq
  BY Rows DEF Probe, withBaselines, Lanes
<1>3. \A e \in Deliveries \ {d} : intruded'[e] = intruded[e]
  BY DEF Probe, IInv, TypeOK, AgentTypes
<1>4. agent.seq \in Nat /\ obs.p.seq \in Nat
  BY DEF IInv, TypeOK, AgentTypes, SessionTypes, AgentRec
<1> HIDE DEF d
<1>5. PickInv' /\ DoneInv' /\ receipt[d] # "completed"
  BY <1>1, <1>2 DEF d, TurnInv, PickInv, DoneInv
<1>6. ASSUME "reset" \notin hits PROVE obs.kind # "off" => obs.p.seq <= agent.seq
  BY <1>6 DEF TurnInv
<1>7. ASSUME "reset" \notin hits, NEW e \in Deliveries PROVE TurnOf(e)'
  <2>1. CASE e = d
    <3>1. Baseline(e)' = agent.seq
      BY <1>2, <2>1 DEF Baseline
    <3> HIDE DEF Open, Baseline
    <3> QED
      BY <1>1, <1>4, <1>5, <1>6, <1>7, <2>1, <3>1 DEF TurnOf
  <2>2. CASE e # d
    <3>1. TurnOf(e)
      BY <1>7 DEF TurnInv
    <3>2. (Open(e)' <=> Open(e)) /\ Baseline(e)' = Baseline(e) /\ intruded'[e] = intruded[e]
      BY <1>1, <1>2, <1>3, <2>2 DEF d, Open, Awaits, inFlight, Baseline
    <3> HIDE DEF Open, Baseline
    <3> QED
      BY <1>1, <3>1, <3>2 DEF TurnOf
  <2> QED
    BY <2>1, <2>2
<1> QED
  BY <1>1, <1>5, <1>6, <1>7 DEF TurnInv

\* It gives up after looking at the agent.
LEMMA ProbeHeldTurns ==
  ASSUME IInv, TurnInv, ProbeHeld
  PROVE  TurnInv'
<1>1. UNCHANGED <<receipt, agent, turn, ownEnded, intruded, obs>> /\ lane' = FreeLane
      /\ hits \subseteq hits'
  BY DEF ProbeHeld, Disturb, agentVars, sessionVars
<1>2. ASSUME NEW d \in Deliveries PROVE Calms(box[d], receipt[d], box'[d], receipt'[d])
  <2>1. PICK unread \in BOOLEAN : box' = held(box, unread)
    BY DEF ProbeHeld
  <2>2. box'[d].wake = box[d].wake /\ box'[d].base = box[d].base
    BY <2>1, Rows, HeldMail, HeldTurn
  <2> QED
    BY <1>1, <2>2, EachRow, CalmSame
<1> QED
  BY <1>1, <1>2, LaneKept, TurnKept

\* The claim takes the baselines over from the lane.
LEMMA IntentTurns ==
  ASSUME IInv, TurnInv, Intent
  PROVE  TurnInv'
<1> DEFINE d == lane.pick
<1>1. /\ UNCHANGED <<agent, turn, ownEnded, intruded, obs, hits>>
      /\ lane.step = "intent" /\ d \in Deliveries
  BY DEF Intent, IInv, LaneInv, agentVars, sessionVars
<1>2. /\ \A e \in Deliveries \ {d} : box'[e] = box[e] /\ receipt'[e] = receipt[e]
      /\ box'[d] = Sending(box[d]) /\ receipt'[d] = "accepted"
      /\ lane'.step = "prompt" /\ lane'.pick = d
  BY <1>1, Rows DEF Intent, Lanes
<1>3. box'[d].base = lane.seq /\ box'[d].wake = "sending"
  BY <1>1, <1>2, Rows DEF Sending, DeliveryRec
<1> HIDE DEF d
<1>4. PickInv' /\ DoneInv'
  BY <1>1, <1>2 DEF TurnInv, PickInv, DoneInv
<1>5. ASSUME "reset" \notin hits, NEW e \in Deliveries PROVE TurnOf(e)'
  <2>1. TurnOf(e)
    BY <1>5 DEF TurnInv
  <2>2. (Open(e)' <=> Open(e)) /\ Baseline(e)' = Baseline(e)
    BY <1>1, <1>2, <1>3 DEF d, Open, Awaits, inFlight, Baseline, Unresolved
  <2> HIDE DEF Open, Baseline
  <2> QED
    BY <1>1, <1>2, <2>1, <2>2 DEF TurnOf
<1> QED
  BY <1>1, <1>4, <1>5 DEF TurnInv

\* The prompt is typed.
LEMMA PromptTurns ==
  ASSUME IInv, TurnInv, Prompt
  PROVE  TurnInv'
<1>1. /\ UNCHANGED <<mailVars, agent, turn, ownEnded, intruded, obs>> /\ hits \subseteq hits'
      /\ lane.step = "prompt"
  BY DEF Prompt, Disturb, sessionVars
<1>2. lane'.step = "result" /\ lane'.pick = lane.pick
  BY Rows DEF Prompt, Lanes
<1>3. PickInv'
  BY <1>2 DEF PickInv
<1>4. \A e \in Deliveries : Awaits(e)' => Awaits(e) /\ Baseline(e)' = Baseline(e)
  BY <1>1, <1>2 DEF Awaits, inFlight, Baseline, mailVars
<1>5. \A e \in Deliveries : Calms(box[e], receipt[e], box'[e], receipt'[e])
  BY <1>1, EachRow, CalmSame DEF mailVars
<1> QED
  BY <1>1, <1>3, <1>4, <1>5, TurnKept

\* What became of it is recorded.
LEMMA ResultTurns ==
  ASSUME IInv, TurnInv, Result
  PROVE  TurnInv'
<1> DEFINE d == lane.pick
<1>1. /\ UNCHANGED <<agent, turn, ownEnded, intruded, obs, hits>> /\ lane' = FreeLane
      /\ d \in Deliveries /\ lane.answer \in {"none", "ok", "refused", "lost"}
      /\ Claimed(box[d], receipt[d])
  BY Rows DEF Result, IInv, LaneInv, Lanes, agentVars, sessionVars
<1>2. /\ \A e \in Deliveries \ {d} : box'[e] = box[e] /\ receipt'[e] = receipt[e]
      /\ box'[d] = Delivered(box[d], lane.answer)
      /\ receipt'[d] = finishReceipt(receipt[d],
           CASE lane.answer = "ok" -> "completed" [] lane.answer = "lost" -> "uncertain"
             [] OTHER -> "failed")
  BY <1>1, Rows DEF Result
<1> HIDE DEF d
<1>3. Calms(box[d], receipt[d], box'[d], receipt'[d])
  BY <1>1, <1>2, EachRow, CalmResult
<1>4. \A e \in Deliveries : Calms(box[e], receipt[e], box'[e], receipt'[e])
  BY <1>2, <1>3, EachRow, CalmSame
<1> QED
  BY <1>1, <1>4, LaneKept, TurnKept

\* All of processInbox.
LEMMA ProcessTurns ==
  ASSUME IInv, TurnInv, processInbox
  PROVE  TurnInv'
<1>1. CASE IntentGivenUp
  <2>1. UNCHANGED <<mailVars, agent, turn, ownEnded, intruded, obs, hits>> /\ lane' = FreeLane
    BY <1>1 DEF IntentGivenUp, agentVars, sessionVars
  <2> QED
    BY <2>1, TurnQuiet
<1> QED
  BY <1>1, ProbeTurns, ProbeHeldTurns, IntentTurns, PromptTurns, ResultTurns DEF processInbox

\* An observation ends a wake only with an idle agent beyond its baseline.
LEMMA ObservedTurn ==
  ASSUME NEW r \in DeliveryRec, NEW p \in AgentRec
  PROVE  /\ Observed(r, p).base = r.base
         /\ \/ Observed(r, p).wake = r.wake
            \/ /\ r.wake \in Unresolved /\ Observed(r, p).wake = "ended"
               /\ p.status = "idle" /\ p.seq > r.base
<1>1. \A work : turnEnds(r, p, work) => p.status = "idle" /\ p.seq > r.base
  BY DEF turnEnds
<1> HIDE DEF workSeen, turnEnds
<1> QED
  BY <1>1 DEF Observed, DeliveryRec

\* So what it ends is a wake whose own turn has ended, or after whose baselines another
\* turn began: while the wake is open, the agent works beyond the baseline.
LEMMA ObserveTurns ==
  ASSUME IInv, TurnInv, Observe
  PROVE  TurnInv'
<1> DEFINE p == obs.p
<1>1. /\ UNCHANGED <<agent, turn, ownEnded, intruded, lane, hits>> /\ obs' = NoSample
      /\ p \in AgentRec /\ obs.kind # "off"
  BY DEF IInv, TypeOK, SessionTypes, Observe, agentVars
<1>2. CASE p.seq < w.seq
  <2>1. \A d \in Deliveries : receipt'[d] = receipt[d]
    BY <1>2 DEF Observe
  <2>2. receipt' = [d \in Deliveries |-> receipt'[d]] /\ box' = box
    BY <1>2 DEF Observe
  <2>3. receipt' = receipt
    BY <2>1, <2>2, Rows
  <2> QED
    BY <1>1, <2>2, <2>3, TurnQuiet DEF mailVars
<1>3. CASE ~(p.seq < w.seq)
  <2>1. ASSUME NEW d \in Deliveries
        PROVE  /\ box'[d] = Observed(box[d], p)
               /\ receipt'[d] = IF /\ box[d].wake # "ended" /\ Observed(box[d], p).wake = "ended"
                                   /\ receipt[d] # "none"
                                THEN finishReceipt(receipt[d], "completed") ELSE receipt[d]
    BY <1>3 DEF Observe
  <2> DEFINE Stays(d) == box'[d].wake = box[d].wake /\ receipt'[d] = receipt[d]
             Ends(d) == /\ box[d].wake \in Unresolved /\ box'[d].wake = "ended"
                        /\ p.status = "idle" /\ p.seq > box[d].base
  <2>2. ASSUME NEW d \in Deliveries
        PROVE  box'[d].base = box[d].base /\ (Stays(d) \/ Ends(d))
    BY <1>1, <2>1, EachRow, ObservedTurn
  <2>3. PickInv'
    <3>1. lane.step # "free" => lane.pick \in Deliveries
      BY DEF IInv, LaneInv
    <3> QED
      BY <1>1, <2>2, <3>1 DEF TurnInv, PickInv, Unresolved
  <2>4. DoneInv'
    <3>1. ASSUME NEW d \in Deliveries, receipt'[d] = "completed"
          PROVE  box'[d].wake \notin {"none", "queued"}
      BY <2>2, <3>1, EachRow
    <3> QED
      BY <3>1 DEF DoneInv
  <2> HIDE DEF p
  <2>5. ASSUME "reset" \notin hits, NEW d \in Deliveries PROVE TurnOf(d)'
    <3>1. TurnOf(d)
      BY <2>5 DEF TurnInv
    <3>2. obs'.kind = "off"
      BY <1>1 DEF NoSample
    <3>3. CASE Stays(d)
      <4>1. (Open(d)' <=> Open(d)) /\ Baseline(d)' = Baseline(d)
        BY <1>1, <2>2, <3>3 DEF Open, Awaits, inFlight, Baseline
      <4> HIDE DEF Open, Baseline
      <4> QED
        BY <1>1, <3>1, <3>2, <3>3, <4>1 DEF TurnOf
    <3>4. CASE Ends(d)
      <4>1. Baseline(d) = box[d].base
        BY <3>4 DEF Baseline, TurnInv, PickInv, Unresolved
      <4>2. ~Open(d)
        <5> HIDE DEF Open, Baseline
        <5> QED
          BY <1>1, <3>1, <3>4, <4>1 DEF TurnOf, p
      <4>3. ownEnded[d] \/ intruded[d]
        BY <3>4, <4>2 DEF Open, Awaits
      <4>4. ~Open(d)'
        BY <1>1, <4>3 DEF Open, Awaits
      <4> HIDE DEF Open, Baseline
      <4> QED
        BY <1>1, <4>3, <4>4 DEF TurnOf
    <3> QED
      BY <2>2, <3>3, <3>4
  <2> QED
    BY <1>1, <2>3, <2>4, <2>5 DEF TurnInv, NoSample
<1> QED
  BY <1>2, <1>3

\* Nobody is woken at the start.
LEMMA InitTurn == Init => TurnInv
<1> SUFFICES ASSUME Init PROVE TurnInv
  OBVIOUS
<1>1. PickInv /\ DoneInv /\ obs.kind = "off"
  BY DEF Init, PickInv, DoneInv, FreeLane, NoSample
<1>2. agent.status = "idle" /\ turn = None
  BY DEF Init, FirstAgent
<1>3. ASSUME NEW d \in Deliveries PROVE TurnOf(d)
  <2>1. ~Awaits(d) /\ receipt[d] = "none"
    BY DEF Init, Awaits, inFlight, NotSent, FreeLane, Unresolved
  <2> QED
    BY <2>1 DEF TurnOf, Open
<1> QED
  BY <1>1, <1>2, <1>3 DEF TurnInv

\* Every step keeps it.
LEMMA TurnStep ==
  ASSUME IInv, TurnInv, [Next]_vars
  PROVE  TurnInv'
<1>1. CASE UNCHANGED vars
  <2>1. UNCHANGED <<mailVars, agent, turn, ownEnded, intruded, obs, hits, lane>>
    BY <1>1 DEF vars, mailVars
  <2> QED
    BY <2>1, TurnQuiet
<1>2. CASE Next
  BY <1>2, AgentTurns, MessageTurns, EnterTurns, ProcessTurns, QuietTurns, SampleTurns,
     ObserveTurns DEF Next, Apply
<1> QED
  BY <1>1, <1>2

\* Whatever is read, resolved, lost or interrupted meanwhile, a wake that was attempted and
\* is over was ended by its own turn, unless another turn began after its baselines or
\* Herdr's counters started again.
THEOREM WakesEndOnTheirTurn == Spec => []WakeEndsOnOwnTurn
<1>1. TurnInv => WakeEndsOnOwnTurn
  BY DEF TurnInv, TurnOf, WakeEndsOnOwnTurn
<1>2. IInv /\ TurnInv /\ [Next]_vars => TurnInv'
  BY TurnStep
<1> QED
  BY <1>1, <1>2, InitTurn, Invariance, PTL DEF Spec
=============================================================================
