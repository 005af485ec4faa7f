------------------------------- MODULE Inbox -------------------------------
(***************************************************************************)
(* The mailbox of one worker. A message is a delivery that waits until the *)
(* agent can be woken: processInbox, inside the worker lane, checks that   *)
(* no earlier prompt is unresolved, reads the agent, records its intent,   *)
(* types one short notice and records how that went. Acknowledgments,      *)
(* observations of the agent, resolutions by hand and crashes come between *)
(* any two of these steps. A dispatch shares the lane and is kept here as  *)
(* one task: its prompt and the mailbox's must not meet in the agent.      *)
(***************************************************************************)
EXTENDS Naturals, FiniteSets

CONSTANTS
  Deliveries,    \* the deliveries to this worker, numbered as they are sent
  Kinds,         \* the disturbances a behaviour may contain, each once
  MaxEvents,     \* bound: messages and disturbances in one behaviour
  Alone,         \* bound: kinds that no other disturbance comes before or after
  MaxKicks,      \* bound: triggers of processInbox told apart while they wait
  Task, Human,   \* owners of turns that no wake started
  None           \* the agent is in no turn

ASSUME OwnersAssumption == /\ Cardinality({Task, Human, None}) = 3
                           /\ {Task, Human, None} \cap Deliveries = {}
                           /\ Deliveries \subseteq Nat
ASSUME BoundsAssumption == MaxEvents \in Nat /\ MaxKicks \in Nat \ {0}

VARIABLES
  agent,      \* what agent.get would answer now
  turn,       \* who started the turn the agent is in
  typed,      \* prompts that reached the agent and have not begun
  w,          \* the worker row
  ready,      \* attachment the lifecycle subscription is ready for
  online,     \* the event stream is being followed
  notify,     \* a lifecycle event is on its way to the daemon
  obs,        \* the sample the session lane is about to apply
  box,        \* the delivery rows
  receipt,    \* the operation row of each delivery's latest attempt
  task,       \* the dispatch row
  kicks,      \* background calls of processInbox waiting for the lane
  recovering, \* the watchdog's recovery call of processInbox is waiting
  lane,       \* the processInbox that holds the lane
  hits,       \* disturbances so far
  landed,     \* history: how often the notice of a delivery reached the agent
  ownEnded,   \* history: the turn that notice started has ended
  intruded    \* history: another turn began after the baselines were taken

agentVars == <<agent, turn, typed, ownEnded, intruded>>
sessionVars == <<w, ready, online, notify, obs>>
mailVars == <<box, receipt>>
callVars == <<kicks, recovering, lane>>
vars == <<agent, turn, typed, w, ready, online, notify, obs, box, receipt, task, kicks,
          recovering, lane, hits, landed, ownEnded, intruded>>

-----------------------------------------------------------------------------
AgentRec == [status: {"idle", "working"}, seq: Nat, comp: Nat]
WorkerRec == [attach: Nat, state: {"idle", "working", "offline", "released"}, seq: Nat]
Seen == {"acknowledged", "consumed"}
Rank == [none |-> 0, pending |-> 1, delivered |-> 2, acknowledged |-> 3, consumed |-> 4]
Unresolved == {"sending", "sent", "uncertain", "acknowledged"}
Wake == Unresolved \cup {"none", "queued", "ended", "abandoned", "resolved"}
DeliveryRec == [status: DOMAIN Rank, wake: Wake, unread: BOOLEAN, attempt: Nat,
                attach: Nat, base: Nat, baseComp: Nat, work: Nat]
TaskRec == [active: BOOLEAN, reported: BOOLEAN, ended: BOOLEAN, attach: Nat,
            base: Nat, baseComp: Nat, work: Nat]
LaneStep == {"free", "probe", "intent", "prompt", "result"}

NotSent == [status |-> "none", wake |-> "none", unread |-> FALSE, attempt |-> 0,
            attach |-> 0, base |-> 0, baseComp |-> 0, work |-> 0]
NoTask == [active |-> FALSE, reported |-> FALSE, ended |-> FALSE, attach |-> 0,
           base |-> 0, baseComp |-> 0, work |-> 0]
FirstAgent == [status |-> "idle", seq |-> 1, comp |-> 0]
NoSample == [kind |-> "off", attach |-> 0, p |-> FirstAgent]
FreeLane == [step |-> "free", pick |-> None, attach |-> 0, recovery |-> FALSE,
             seq |-> 0, comp |-> 0, answer |-> "none"]

terminalRecipient(row) == row.state = "released"
reachable(row) == row.state \notin {"released", "offline"} /\ ready = row.attach
\* Queued and not looked at by the recipient.
waiting(d) == d.wake = "queued" /\ d.status \notin Seen
\* Never attempted, and held because the agent could not be read.
inboxReadRecoverable(d) == waiting(d) /\ d.attempt = 0 /\ d.unread
\* The wakes that occupy the lane until their own turn is known ended.
Occupying == {d \in Deliveries : box[d].wake \in Unresolved /\ box[d].attach = w.attach}
inFlight(d) == lane.pick = d /\ lane.step \in {"intent", "prompt", "result"}
TaskRuns == task.active /\ ~task.ended

\* Each kind of disturbance happens at most once.
Spare == Cardinality(hits) + Cardinality({d \in Deliveries : box[d] # NotSent}) < MaxEvents
Disturb(kind) == /\ kind \in Kinds \ hits /\ Spare
                 /\ hits = {} \/ (hits \cup {kind}) \cap Alone = {}
                 /\ hits' = hits \cup {kind}
Kick == kicks' = IF kicks < MaxKicks THEN kicks + 1 ELSE kicks

Init ==
  /\ agent = FirstAgent /\ turn = None /\ typed = {}
  /\ w = [attach |-> 1, state |-> "idle", seq |-> 1]
  /\ ready = 1 /\ online = TRUE /\ notify = FALSE /\ obs = NoSample
  /\ box = [d \in Deliveries |-> NotSent]
  /\ receipt = [d \in Deliveries |-> "none"]
  /\ task = NoTask
  /\ kicks = 0 /\ recovering = FALSE /\ lane = FreeLane /\ hits = {}
  /\ landed = [d \in Deliveries |-> 0]
  /\ ownEnded = [d \in Deliveries |-> FALSE]
  /\ intruded = [d \in Deliveries |-> FALSE]

-----------------------------------------------------------------------------
(* The agent and Herdr.                                                    *)

Awaits(d) == /\ inFlight(d) \/ box[d].wake \in Unresolved
             /\ ~ownEnded[d]

Begin(owner) ==
  /\ agent.status = "idle"
  /\ agent' = [agent EXCEPT !.status = "working", !.seq = @ + 1]
  /\ turn' = owner /\ typed' = typed \ {owner} /\ notify' = TRUE
  /\ intruded' = [d \in Deliveries |-> intruded[d] \/ (d # owner /\ Awaits(d))]
  /\ UNCHANGED <<w, ready, online, obs, mailVars, task, callVars, landed, ownEnded>>

BeginTurn == \E owner \in typed : Begin(owner) /\ UNCHANGED hits
BeginHumanTurn == Begin(Human) /\ Disturb("human")

\* The completion counter is optional in the protocol: it may not move.
EndTurn ==
  /\ turn # None
  /\ \E comp \in {agent.comp, agent.seq + 1} :
       agent' = [status |-> "idle", seq |-> agent.seq + 1, comp |-> comp]
  /\ turn' = None /\ notify' = TRUE
  /\ ownEnded' = [d \in Deliveries |-> ownEnded[d] \/ d = turn]
  /\ UNCHANGED <<typed, w, ready, online, obs, mailVars, task, callVars, hits, landed, intruded>>

\* Herdr restarts: the stream breaks and the counters start again.
ResetSequence ==
  /\ Disturb("reset")
  /\ agent' = [agent EXCEPT !.seq = 0, !.comp = 0]
  /\ online' = FALSE /\ notify' = FALSE
  /\ UNCHANGED <<turn, typed, w, ready, obs, mailVars, task, callVars, landed, ownEnded, intruded>>

-----------------------------------------------------------------------------
(* Messages, and what the recipient does with them.                        *)

\* send commits the delivery and asks for the mailbox to be processed.
Send(d) ==
  /\ box[d] = NotSent /\ Spare /\ \A e \in Deliveries : e < d => box[e] # NotSent
  /\ ~terminalRecipient(w)
  /\ box' = [box EXCEPT ![d].status = "pending", ![d].wake = "queued"]
  /\ Kick
  /\ UNCHANGED <<agentVars, sessionVars, receipt, task, recovering, lane, hits, landed>>

\* Reading a message never regresses and never ends a wake that is under way.
ackDelivery(d, consume) ==
  [d EXCEPT !.status = IF consume \/ @ = "consumed" THEN "consumed" ELSE "acknowledged",
            !.wake = CASE @ \in Unresolved -> "acknowledged" [] @ = "queued" -> "ended"
                       [] OTHER -> @,
            !.unread = FALSE]

\* A receipt becomes final once.
finishReceipt(state, verdict) == IF state \in {"completed", "failed"} THEN state ELSE verdict

\* ack, consume, and the reply to a question. A delivery that processInbox has picked
\* and not yet claimed is read under its nose.
Ack(d, consume) ==
  /\ box[d].status # "none"
  /\ IF lane.pick = d /\ lane.step \in {"probe", "intent"}
     THEN Disturb("race") ELSE UNCHANGED hits
  /\ box' = [box EXCEPT ![d] = ackDelivery(@, consume)]
  /\ receipt' = IF receipt[d] \in {"accepted", "uncertain"}
                THEN [receipt EXCEPT ![d] = "completed"] ELSE receipt
  /\ UNCHANGED <<agentVars, sessionVars, task, callVars, landed>>

\* operation.resolve of a wake, after investigation. A final receipt stays, and only an
\* unresolved wake is resolved beside it.
Resolve(d, verdict) ==
  /\ Disturb("resolve") /\ ~inFlight(d)
  /\ \/ receipt[d] \in {"accepted", "uncertain"}
     \/ receipt[d] = "completed" /\ box[d].wake \in Unresolved \ {"sending"}
  /\ box' = [box EXCEPT ![d].wake = IF verdict = "failed" THEN "abandoned" ELSE "resolved",
                        ![d].status = IF verdict = "completed" /\ @ \notin Seen
                                      THEN "delivered" ELSE @]
  /\ receipt' = [receipt EXCEPT ![d] = finishReceipt(@, verdict)]
  /\ UNCHANGED <<agentVars, sessionVars, task, callVars, landed>>

-----------------------------------------------------------------------------
(* processInbox.                                                           *)

\* holdQueuedDeliveries: every waiting delivery carries the reason.
held(rows, unread) ==
  [d \in Deliveries |-> IF waiting(rows[d]) THEN [rows[d] EXCEPT !.unread = unread]
                        ELSE rows[d]]

\* A wake whose attempt died with its daemon: nobody knows whether it landed.
Dead == {d \in Occupying : box[d].wake = "sending" /\ ~inFlight(d)}
markedLost == [d \in Deliveries |-> IF d \in Dead THEN [box[d] EXCEPT !.wake = "uncertain"]
                                    ELSE box[d]]

\* The lane is taken by a background call, or by the watchdog's recovery call.
Takes(isRecovery) ==
  /\ lane.step = "free"
  /\ IF isRecovery THEN recovering /\ recovering' = FALSE /\ UNCHANGED kicks
     ELSE kicks > 0 /\ kicks' = kicks - 1 /\ UNCHANGED recovering

\* Mutant: only the wakes that were surely typed occupy the lane.
IgnoresUncertain == {d \in Occupying : box[d].wake \in {"sending", "sent"}} # {}
occupied == Occupying # {}

Candidates(isRecovery) ==
  {d \in Deliveries : IF isRecovery THEN inboxReadRecoverable(box[d]) ELSE waiting(box[d])}

\* The worker is unreachable, or an earlier prompt is not known to have ended.
HoldBack(isRecovery) ==
  /\ Takes(isRecovery)
  /\ \/ ~reachable(w) /\ box' = held(box, FALSE) /\ UNCHANGED receipt
     \/ /\ reachable(w) /\ (isRecovery => Candidates(TRUE) # {})
        /\ occupied /\ box' = held(markedLost, FALSE)
        /\ receipt' = [d \in Deliveries |-> IF d \in Dead /\ receipt[d] = "accepted"
                                            THEN "uncertain" ELSE receipt[d]]
     \/ /\ reachable(w) /\ (isRecovery => Candidates(TRUE) # {})
        /\ ~occupied /\ TaskRuns /\ box' = held(box, FALSE) /\ UNCHANGED receipt
  /\ UNCHANGED <<agentVars, sessionVars, task, lane, hits, landed>>

\* One waiting delivery is picked, from what was read before anything external.
Pick(isRecovery) ==
  /\ Takes(isRecovery) /\ reachable(w) /\ ~occupied /\ ~TaskRuns
  /\ \E d \in Candidates(isRecovery) :
       lane' = [FreeLane EXCEPT !.step = "probe", !.pick = d, !.attach = w.attach,
                                !.recovery = isRecovery]
  /\ UNCHANGED <<agentVars, sessionVars, mailVars, task, hits, landed>>

NothingToDo(isRecovery) ==
  /\ Takes(isRecovery) /\ reachable(w) /\ Candidates(isRecovery) = {}
  /\ isRecovery \/ (~occupied /\ ~TaskRuns)
  /\ UNCHANGED <<agentVars, sessionVars, mailVars, task, lane, hits, landed>>

\* Mutant: the baselines come from the row that processInbox read first.
BaselineFromRow == [lane EXCEPT !.step = "intent", !.seq = w.seq]
withBaselines == [lane EXCEPT !.step = "intent", !.seq = agent.seq, !.comp = agent.comp]

\* agent.get and agent.read: the agent is idle and its prompt empty.
Probe ==
  /\ lane.step = "probe" /\ agent.status = "idle"
  /\ lane' = withBaselines
  /\ intruded' = [intruded EXCEPT ![lane.pick] = FALSE]
  /\ UNCHANGED <<agent, turn, typed, ownEnded, sessionVars, mailVars, task, kicks, recovering,
                 hits, landed>>

\* It is busy, holds a draft, or cannot be read; only the last is tried again.
ProbeHeld ==
  /\ lane.step = "probe"
  /\ \/ agent.status # "idle" /\ box' = held(box, FALSE) /\ UNCHANGED hits
     \/ Disturb("draft") /\ box' = held(box, FALSE)
     \/ Disturb("unreadable") /\ box' = held(box, TRUE)
  /\ lane' = FreeLane
  /\ UNCHANGED <<agentVars, sessionVars, receipt, task, kicks, recovering, landed>>

\* What the intent checks again inside its transaction.
Claimable(d) == /\ lane.attach = w.attach /\ ~terminalRecipient(w)
                /\ waiting(box[d]) /\ (lane.recovery => inboxReadRecoverable(box[d]))

\* The claim of the delivery d: one more attempt, with the baselines of the probe.
Sending(d) ==
  [d EXCEPT !.wake = "sending", !.attempt = @ + 1, !.attach = lane.attach,
            !.base = lane.seq, !.baseComp = lane.comp, !.work = 0, !.unread = FALSE]

Intent ==
  /\ lane.step = "intent" /\ Claimable(lane.pick)
  /\ box' = [box EXCEPT ![lane.pick] = Sending(@)]
  /\ receipt' = [receipt EXCEPT ![lane.pick] = "accepted"]
  /\ lane' = [lane EXCEPT !.step = "prompt"]
  /\ UNCHANGED <<agentVars, sessionVars, task, kicks, recovering, hits, landed>>

\* It was read, or the worker was bound anew, meanwhile: nobody is woken.
IntentGivenUp ==
  /\ lane.step = "intent" /\ ~Claimable(lane.pick) /\ lane' = FreeLane
  /\ UNCHANGED <<agentVars, sessionVars, mailVars, task, kicks, recovering, hits, landed>>

\* agent.prompt: accepted, refused before typing, or lost either way.
Prompt ==
  /\ lane.step = "prompt"
  /\ \E a \in {"ok", "refused", "lost"}, reaches \in BOOLEAN :
       /\ a = "ok" => reaches
       /\ a = "refused" => ~reaches
       /\ IF a = "ok" THEN UNCHANGED hits ELSE Disturb(a)
       /\ lane' = [lane EXCEPT !.step = "result", !.answer = a]
       /\ landed' = IF reaches THEN [landed EXCEPT ![lane.pick] = @ + 1] ELSE landed
       /\ typed' = IF reaches THEN typed \cup {lane.pick} ELSE typed
  /\ UNCHANGED <<agent, turn, ownEnded, intruded, sessionVars, mailVars, task, kicks,
                 recovering>>

\* Mutants: a lost answer is a refusal; the result erases what came before it.
DeliveredLostIsRefused(d, a) ==
  [d EXCEPT !.wake = IF @ = "sending" THEN (IF a = "ok" THEN "sent" ELSE "queued") ELSE @,
            !.status = IF a = "ok" /\ @ \notin Seen THEN "delivered" ELSE @]
DeliveredOverwrites(d, a) ==
  [d EXCEPT !.wake = CASE a = "ok" -> "sent" [] a = "lost" -> "uncertain" [] OTHER -> "queued",
            !.status = IF a = "ok" /\ @ \notin Seen THEN "delivered" ELSE @]
\* Evidence that came before the transport result stays.
Delivered(d, a) ==
  [d EXCEPT !.wake = IF @ # "sending" THEN @
                     ELSE CASE a = "ok" -> "sent" [] a = "lost" -> "uncertain"
                            [] OTHER -> "queued",
            !.status = IF a = "ok" /\ @ \notin Seen THEN "delivered" ELSE @]

Result ==
  /\ lane.step = "result"
  /\ LET d == lane.pick  a == lane.answer
     IN /\ box' = [box EXCEPT ![d] = Delivered(@, a)]
        /\ receipt' = [receipt EXCEPT ![d] =
             finishReceipt(@, CASE a = "ok" -> "completed" [] a = "lost" -> "uncertain"
                                [] OTHER -> "failed")]
  /\ lane' = FreeLane
  /\ UNCHANGED <<agentVars, sessionVars, task, kicks, recovering, hits, landed>>

\* A watchdog tick retries reads that failed, for deliveries nobody ever attempted.
recoverInboxReads ==
  /\ ~recovering /\ ~(lane.step # "free" /\ lane.recovery)
  /\ w.state \notin {"released", "offline"} /\ Candidates(TRUE) # {}
  /\ recovering' = TRUE
  /\ UNCHANGED <<agentVars, sessionVars, mailVars, task, kicks, lane, hits, landed>>

-----------------------------------------------------------------------------
(* The task: a dispatch, as far as the mailbox sees it.                    *)

\* The dispatch handler, inside the lane: it refuses while a wake is unresolved.
Dispatch ==
  /\ Disturb("task") /\ lane.step = "free"
  /\ reachable(w) /\ agent.status = "idle" /\ w.seq <= agent.seq /\ ~occupied
  /\ task' = [NoTask EXCEPT !.active = TRUE, !.attach = w.attach, !.base = agent.seq,
                            !.baseComp = agent.comp]
  /\ typed' \in {typed, typed \cup {Task}}
  /\ UNCHANGED <<agent, turn, ownEnded, intruded, sessionVars, mailVars, callVars, landed>>

settled(t, status) == t.reported /\ t.ended /\ status = "idle"
closed(t, status) == IF settled(t, status) THEN [t EXCEPT !.active = FALSE] ELSE t

\* done: the report, and the mailbox is processed whether or not it settles.
Done ==
  /\ task.active /\ ~task.reported /\ task.attach = w.attach
  /\ task' = closed([task EXCEPT !.reported = TRUE], w.state)
  /\ Kick
  /\ UNCHANGED <<agentVars, sessionVars, mailVars, recovering, lane, hits, landed>>

\* fail: nobody asks for the mailbox to be processed.
Fail ==
  /\ Disturb("fail") /\ task.active /\ task' = [task EXCEPT !.active = FALSE]
  /\ UNCHANGED <<agentVars, sessionVars, mailVars, callVars, landed>>

-----------------------------------------------------------------------------
(* The session lane.                                                       *)

Sample(kind) ==
  /\ obs.kind = "off" /\ w.state # "released"
  /\ obs' = [kind |-> kind, attach |-> w.attach, p |-> agent]
  /\ notify' = FALSE
  /\ UNCHANGED <<agentVars, w, mailVars, task, callVars, landed>>

SampleEvent   == online /\ notify /\ Sample("event") /\ UNCHANGED <<ready, online, hits>>
SampleRefresh == ready # w.attach /\ Sample("refresh") /\ ready' = 0 /\ online' = TRUE
                 /\ UNCHANGED hits

turnEnds(x, p, work) ==
  /\ p.status = "idle" /\ p.seq > x.base
  /\ \/ work > x.base /\ p.seq > work
     \/ p.comp > x.baseComp /\ p.comp = p.seq
workSeen(x, p) == IF p.seq > x.base /\ p.status = "working" /\ p.seq > x.work
                  THEN p.seq ELSE x.work

\* observeDeliveriesTx: positive evidence ends an unresolved wake of this attachment.
Observed(d, p) ==
  LET work == workSeen(d, p)
  IN IF d.attach # w.attach \/ d.wake \notin Unresolved \/ p.seq < d.base THEN d
     ELSE IF turnEnds(d, p, work)
     THEN [d EXCEPT !.work = work, !.wake = "ended",
                    !.status = IF @ = "pending" THEN "delivered" ELSE @]
     ELSE [d EXCEPT !.work = work]

observedTask(p) ==
  IF ~task.active \/ task.attach # w.attach THEN task
  ELSE LET work == IF task.ended THEN task.work ELSE workSeen(task, p)
       IN closed([task EXCEPT !.work = work, !.ended = @ \/ turnEnds(task, p, work)], p.status)

\* Mutant: an observation does not ask for the mailbox to be processed.
KicksNobody == UNCHANGED kicks
KicksInbox == Kick

\* The observation transaction, and the mailbox is processed. A sequence that went
\* back opens a new attachment, to which no wake and no task belongs.
Observe ==
  /\ obs.kind # "off" /\ obs.attach = w.attach /\ w.state # "released"
  /\ LET p == obs.p
         reset == p.seq < w.seq
         attach == IF reset THEN w.attach + 1 ELSE w.attach
         ended == {d \in Deliveries : box[d].wake # "ended" /\ Observed(box[d], p).wake = "ended"}
     IN /\ w' = [attach |-> attach, state |-> p.status, seq |-> p.seq]
        /\ ready' = IF obs.kind = "refresh" THEN attach ELSE ready
        /\ box' = IF reset THEN box ELSE [d \in Deliveries |-> Observed(box[d], p)]
        /\ receipt' = [d \in Deliveries |->
             IF ~reset /\ d \in ended /\ receipt[d] # "none"
             THEN finishReceipt(receipt[d], "completed") ELSE receipt[d]]
        /\ task' = IF reset THEN task ELSE observedTask(p)
  /\ obs' = NoSample /\ KicksInbox
  /\ UNCHANGED <<agentVars, online, notify, recovering, lane, hits, landed>>

DropSample ==
  /\ obs.kind # "off" /\ (obs.attach # w.attach \/ w.state = "released") /\ obs' = NoSample
  /\ UNCHANGED <<agentVars, w, ready, online, notify, mailVars, task, callVars, hits, landed>>

\* offlineSession: the stream ended or the session cannot be read.
Offline ==
  /\ obs.kind = "off"
  /\ w' = IF w.state = "released" THEN w ELSE [w EXCEPT !.state = "offline"]
  /\ ready' = 0 /\ online' = FALSE
  /\ UNCHANGED <<agentVars, notify, obs, mailVars, task, callVars, landed>>

Outage == online /\ Disturb("outage") /\ Offline
Disconnected == ~online /\ ready # 0 /\ Offline /\ UNCHANGED hits

\* worker.adopt and worker.release, in the worker lane: the task is fenced.
Rebind ==
  /\ lane.step = "free"
  /\ \/ /\ Disturb("adopt")
        /\ w' = [attach |-> w.attach + 1, state |-> agent.status, seq |-> agent.seq]
     \/ /\ Disturb("release") /\ w' = [w EXCEPT !.state = "released"]
  /\ task' = [task EXCEPT !.active = FALSE]
  /\ UNCHANGED <<agentVars, ready, online, notify, obs, mailVars, callVars, landed>>

\* The daemon dies and starts again: calls, lanes and the subscription are gone.
Crash ==
  /\ Disturb("crash")
  /\ lane' = FreeLane /\ kicks' = 0 /\ recovering' = FALSE
  /\ ready' = 0 /\ online' = FALSE /\ notify' = FALSE /\ obs' = NoSample
  /\ UNCHANGED <<agentVars, w, mailVars, task, landed>>

-----------------------------------------------------------------------------
Enter == \E isRecovery \in BOOLEAN :
           HoldBack(isRecovery) \/ Pick(isRecovery) \/ NothingToDo(isRecovery)
processInbox == Probe \/ ProbeHeld \/ Intent \/ IntentGivenUp \/ Prompt \/ Result
Apply == Observe \/ DropSample

Next ==
  \/ BeginTurn \/ BeginHumanTurn \/ EndTurn \/ ResetSequence
  \/ \E d \in Deliveries : Send(d) \/ \E consume \in BOOLEAN : Ack(d, consume)
  \/ \E d \in Deliveries, verdict \in {"completed", "failed"} : Resolve(d, verdict)
  \/ Enter \/ processInbox \/ recoverInboxReads
  \/ Dispatch \/ Done \/ Fail
  \/ SampleEvent \/ SampleRefresh \/ Apply \/ Outage \/ Disconnected \/ Rebind \/ Crash

\* Calls that wait for the lane get it, handlers and the session lane go on, the
\* watchdog ticks, and an agent begins and ends what was typed into it.
Fairness ==
  /\ WF_vars(Enter) /\ WF_vars(processInbox) /\ WF_vars(recoverInboxReads)
  /\ WF_vars(SampleEvent) /\ WF_vars(SampleRefresh) /\ WF_vars(Apply)
  /\ WF_vars(Disconnected)
  /\ WF_vars(BeginTurn) /\ WF_vars(EndTurn)
Spec == Init /\ [][Next]_vars
FairSpec == Spec /\ Fairness

-----------------------------------------------------------------------------
(* Properties                                                              *)

AgentTypes ==
  /\ agent \in AgentRec /\ turn \in Deliveries \cup {Task, Human, None}
  /\ typed \subseteq Deliveries \cup {Task}
  /\ ownEnded \in [Deliveries -> BOOLEAN] /\ intruded \in [Deliveries -> BOOLEAN]
SessionTypes ==
  /\ w \in WorkerRec /\ ready \in Nat /\ online \in BOOLEAN /\ notify \in BOOLEAN
  /\ obs \in [kind: {"off", "event", "refresh"}, attach: Nat, p: AgentRec]
MailTypes ==
  /\ box \in [Deliveries -> DeliveryRec]
  /\ receipt \in [Deliveries -> {"none", "accepted", "uncertain", "completed", "failed"}]
CallTypes ==
  /\ kicks \in 0..MaxKicks /\ recovering \in BOOLEAN
  /\ lane \in [step: LaneStep, pick: Deliveries \cup {None}, attach: Nat, recovery: BOOLEAN,
               seq: Nat, comp: Nat, answer: {"none", "ok", "refused", "lost"}]

TypeOK ==
  /\ AgentTypes /\ SessionTypes /\ MailTypes /\ CallTypes
  /\ task \in TaskRec /\ hits \subseteq Kinds /\ landed \in [Deliveries -> Nat]

\* A notice is typed into the agent at most once, whatever is refused, lost, read
\* meanwhile, recovered or interrupted by a crash.
WokenAtMostOnce == \A d \in Deliveries : landed[d] <= 1

\* messaging.go: "one unresolved wake occupies the lane until its own turn is known
\* ended"; and no wake and no dispatch are ever unresolved together.
OneUnresolvedPrompt == Cardinality(Occupying) + (IF TaskRuns THEN 1 ELSE 0) <= 1

\* The receipt of an attempt and the wake it belongs to tell the same story, whichever
\* of acknowledgment, observation, transport result, recovery and resolution came first.
ReceiptTellsWake ==
  \A d \in Deliveries :
    /\ receipt[d] = "accepted"  <=> box[d].wake = "sending"
    /\ receipt[d] = "uncertain" <=> box[d].wake = "uncertain"
    /\ receipt[d] = "failed" => box[d].wake \in {"queued", "ended", "abandoned"}

\* A wake that was attempted and is over was ended by its own turn, unless another turn
\* began between its baselines and that turn's end, or Herdr's counters started again.
WakeEndsOnOwnTurn ==
  \A d \in Deliveries :
    box[d].wake = "ended" /\ receipt[d] = "completed"
      => ownEnded[d] \/ intruded[d] \/ "reset" \in hits

\* "Receipt progression is monotonic": nothing takes back what the recipient has seen.
ReceiptsProgress ==
  [][\A d \in Deliveries : Rank[box[d].status] <= Rank[box'[d].status]]_vars

\* A wake that is over stays over: no late result, sample or acknowledgment reopens it.
WakesStayOver ==
  [][\A d \in Deliveries : box[d].wake \in {"ended", "abandoned", "resolved"} =>
       box'[d].wake = box[d].wake]_vars

\* Only a person can help: the worker is released, or an earlier prompt that the agent
\* will never begin, or whose turn passed unseen, still occupies the lane.
Stuck == \/ terminalRecipient(w)
         \/ \E d \in Occupying : d \notin typed /\ turn # d
         \/ TaskRuns /\ Task \notin typed /\ turn # Task
\* What leaves a delivery waiting for the next lifecycle event, which may never come.
NotRetried == {"refused", "draft", "race", "resolve", "fail"}

\* No delivery waits for ever while its worker could be woken.
QueuedIsWoken ==
  \A d \in Deliveries :
    []<>(box[d].wake # "queued") \/ <>[](Stuck \/ hits \cap NotRetried # {})
=============================================================================
