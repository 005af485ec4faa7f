------------------------------ MODULE Dispatch ------------------------------
(***************************************************************************)
(* The dispatch protocol of woofd for one worker: a request hands one      *)
(* prompt to the agent in a Herdr pane, the agent reports with `woof done`,*)
(* and the daemon settles the dispatch once the report and the end of the  *)
(* worker's turn have both been recorded.                                  *)
(*                                                                         *)
(* What runs concurrently, and is interleaved here at the granularity of a *)
(* database transaction or an external call:                               *)
(*   - the dispatch handler of each request, inside the worker lane;       *)
(*   - the session lane, which samples the agent with agent.get and then   *)
(*     applies the sample (observeWorker);                                 *)
(*   - done, fail and operation.resolve, single transactions in no lane;   *)
(*   - worker.release, worker.adopt and worker.retain, in the worker lane;*)
(*   - the agent and Herdr, which change state whenever they like;         *)
(*   - crashes of the daemon, which lose everything not in the database.   *)
(***************************************************************************)
EXTENDS Naturals, FiniteSets

CONSTANTS
  Requests,      \* dispatch requests, each with its own stable request ID
  Implicit,      \* the requests that name no run: dispatch creates one
  Kinds,         \* the kinds of disturbance a behaviour may contain
  MaxFaults,     \* bound: disturbances in one behaviour
  Alone,         \* bound: kinds that no other disturbance comes before or after
  MaxSeq,        \* bound: no turn begins and none is disturbed from this sequence on
  Sessions,      \* native sessions the first agent may have; 0: it has none to be recognised by
  Human,         \* owner of a turn that no dispatch started
  None           \* the agent is in no turn

ASSUME RequestsAssumption == Human # None /\ {Human, None} \cap Requests = {}
                             /\ Implicit \subseteq Requests
ASSUME BoundsAssumption == MaxFaults \in Nat /\ MaxSeq \in Nat /\ Sessions \subseteq Nat

VARIABLES
  agent,       \* what agent.get would answer now
  turn,        \* who started the turn the agent is in
  queue,       \* requests whose prompt reached the agent and has not begun
  w,           \* the worker row
  lastAttach,  \* attachment IDs handed out so far (newID never repeats one)
  ready,       \* readyAttachments: attachment the subscription is ready for
  online,      \* an event stream of the session is being followed
  notify,      \* a lifecycle event is on its way to the daemon
  obs,         \* the sample the session lane is about to apply
  disp,        \* the dispatch rows
  run,         \* the status of the run of each dispatch
  op,          \* the operation (receipt) rows
  pc,          \* where the handler of each request stands
  snap,        \* what that handler read before its intent transaction
  answer,      \* how agent.prompt answered it
  cleared,     \* requests an operation.resolve looked up before they came
  lane,        \* the lifecycle operation in the worker lane, and the row it read
  faults,      \* disturbances so far
  landed,      \* history: how often the prompt of the request reached the agent
  ownEnded,    \* history: the turn that prompt started has ended
  intruded,    \* history: another turn began after the baselines were taken
  turnOver     \* history: some turn ended after the baselines were taken

agentVars == <<agent, turn, queue, ownEnded, intruded, turnOver>>
rowVars   == <<disp, run, op>>
procVars  == <<pc, snap, answer, cleared>>
vars == <<agent, turn, queue, w, lastAttach, ready, online, notify, obs, disp, run, op,
          pc, snap, answer, cleared, lane, faults, landed, ownEnded, intruded, turnOver>>

-----------------------------------------------------------------------------
AgentStatus == {"idle", "working", "blocked", "unknown"}
AgentRec == [alive: BOOLEAN, inc: Nat, conv: Nat, epoch: Nat,
             status: AgentStatus, seq: Nat, comp: Nat]
WorkerState == AgentStatus \cup {"offline", "lost", "released"}
WorkerRec == [attach: Nat, inc: Nat, conv: Nat, epoch: Nat, state: WorkerState,
              raw: AgentStatus, seq: Nat, comp: Nat, held: BOOLEAN]
Status == {"none", "sending", "active", "uncertain", "settled", "failed"}
Outcome == {"none", "done", "failed", "prompt_refused", "reason"}
DispatchRec == [status: Status, attach: Nat, base: Nat, baseComp: Nat,
                work: Nat, ended: BOOLEAN, endSeq: Nat,
                report: {"none", "done", "failed"}, outcome: Outcome]
LaneStep == {"free", "retain", "release", "closed", "unclosed", "adopt"}
SnapRec == [attach: Nat, seq: Nat, comp: Nat]

NoDispatch == [status |-> "none", attach |-> 0, base |-> 0, baseComp |-> 0,
               work |-> 0, ended |-> FALSE, endSeq |-> 0,
               report |-> "none", outcome |-> "none"]
FirstAgent == [alive |-> TRUE, inc |-> 1, conv |-> 1, epoch |-> 1,
               status |-> "idle", seq |-> 1, comp |-> 0]
FirstWorker == [attach |-> 1, inc |-> 1, conv |-> 1, epoch |-> 1, state |-> "idle",
                raw |-> "idle", seq |-> 1, comp |-> 0, held |-> FALSE]
NoSample == [kind |-> "off", attach |-> 0, p |-> FirstAgent]
FreeLane == [step |-> "free", row |-> FirstWorker]
NoSnap == [attach |-> 0, seq |-> 0, comp |-> 0]

idle(status) == status = "idle"
sessionActive(row) == row.state \notin {"released", "lost"}
activeDispatch(d) == d.status \notin {"none", "settled", "failed"}
subscriptionReady(row) == ready = row.attach

\* The handlers that hold the worker lane: between lane.Lock and its deferred
\* unlock, or the lifecycle operation there.
LaneFree == /\ \A r \in Requests : pc[r] \notin {"probe", "intent", "prompt", "result"}
            /\ lane.step = "free"
inFlight(r) == pc[r] \notin {"new", "end", "dead"}

\* The row's own process still answers, in its own conversation, and what was
\* sampled belongs to it.
verifyAttachment(row, p) == p.alive /\ p.conv = row.conv /\ agent.inc = row.inc
native(row) == row.conv # 0
matchingNative(row, p) == native(row) /\ p.alive /\ p.conv = row.conv

settleRunTx(rs) == [r \in Requests |-> IF r \in rs \cap Implicit THEN "completed" ELSE run[r]]
Finish(d, status, outcome) == [d EXCEPT !.status = status, !.outcome = outcome]

Disturb(kind) ==
  /\ kind \in Kinds /\ faults < MaxFaults
  /\ IF kind \in Alone THEN faults = 0 /\ faults' = MaxFaults ELSE faults' = faults + 1

Init ==
  /\ \E conv \in Sessions : /\ agent = [FirstAgent EXCEPT !.conv = conv]
                           /\ w = [FirstWorker EXCEPT !.conv = conv]
  /\ turn = None /\ queue = {} /\ lastAttach = 1
  /\ ready = 1 /\ online = TRUE /\ notify = FALSE /\ obs = NoSample
  /\ disp = [r \in Requests |-> NoDispatch]
  /\ run = [r \in Requests |-> IF r \in Implicit THEN "none" ELSE "active"]
  /\ op = [r \in Requests |-> "none"]
  /\ pc = [r \in Requests |-> "new"]
  /\ snap = [r \in Requests |-> NoSnap]
  /\ answer = [r \in Requests |-> "none"] /\ cleared = {}
  /\ lane = FreeLane
  /\ faults = 0
  /\ landed = [r \in Requests |-> 0]
  /\ ownEnded = [r \in Requests |-> FALSE]
  /\ intruded = [r \in Requests |-> FALSE]
  /\ turnOver = [r \in Requests |-> FALSE]

-----------------------------------------------------------------------------
(* The agent and Herdr. Every change of status bumps state_change_seq and  *)
(* makes Herdr emit pane.agent_status_changed.                             *)

Change(status, comp) ==
  /\ agent.alive
  /\ agent' = [agent EXCEPT !.status = status, !.seq = @ + 1, !.comp = comp]
  /\ notify' = TRUE
  /\ UNCHANGED <<w, lastAttach, ready, online, obs, rowVars, procVars, lane, landed>>

\* The baselines of x are taken and it waits for a turn to end.
Baselined(x) == pc[x] = "intent" \/ activeDispatch(disp[x])
Awaits(x) == Baselined(x) /\ ~ownEnded[x]

Begin(owner) ==
  /\ agent.status = "idle" /\ agent.seq < MaxSeq
  /\ Change("working", agent.comp)
  /\ turn' = owner /\ queue' = queue \ {owner}
  /\ intruded' = [x \in Requests |-> intruded[x] \/ (x # owner /\ Awaits(x))]
  /\ UNCHANGED <<ownEnded, turnOver>>

BeginTurn(r)   == r \in queue /\ Begin(r) /\ UNCHANGED faults
BeginHumanTurn == Disturb("human") /\ Begin(Human)

Block ==
  /\ agent.status = "working" /\ agent.seq < MaxSeq /\ Disturb("block")
  /\ Change("blocked", agent.comp)
  /\ UNCHANGED <<turn, queue, ownEnded, intruded, turnOver>>

\* Herdr cannot tell what the agent does.
Obscure ==
  /\ agent.status \in {"idle", "working"} /\ agent.seq < MaxSeq /\ Disturb("unknown")
  /\ Change("unknown", agent.comp)
  /\ UNCHANGED <<turn, queue, ownEnded, intruded, turnOver>>

\* It is told what to do, or recognised again.
Resume ==
  /\ agent.status \in {"blocked", "unknown"}
  /\ Change(IF turn = None THEN "idle" ELSE "working", agent.comp)
  /\ UNCHANGED <<turn, queue, faults, ownEnded, intruded, turnOver>>

\* The completion counter is optional in the protocol: it may not move.
EndTurn ==
  /\ turn # None
  /\ \E comp \in {agent.comp, agent.seq + 1} : Change("idle", comp)
  /\ turn' = None
  /\ ownEnded' = [r \in Requests |-> ownEnded[r] \/ r = turn]
  /\ turnOver' = [r \in Requests |-> turnOver[r] \/ Baselined(r)]
  /\ UNCHANGED <<queue, faults, intruded>>

\* The agent process is replaced in its pane; a resumed conversation keeps
\* its native session, a new one does not. Whatever was typed is gone.
ReplaceAgent ==
  /\ agent.alive /\ agent.seq < MaxSeq /\ Disturb("replace")
  /\ \E conv \in IF agent.conv = 0 THEN {0} ELSE {agent.conv, agent.inc + 1} :
       agent' = [agent EXCEPT !.inc = @ + 1, !.conv = conv, !.status = "idle", !.seq = @ + 1]
  /\ turn' = None /\ queue' = {} /\ notify' = TRUE
  /\ UNCHANGED <<w, lastAttach, ready, online, obs, rowVars, procVars, lane, landed,
                 ownEnded, intruded, turnOver>>

ClosePane ==
  /\ agent.alive /\ Disturb("close")
  /\ agent' = [agent EXCEPT !.alive = FALSE, !.inc = @ + 1]
  /\ turn' = None /\ queue' = {} /\ notify' = TRUE
  /\ UNCHANGED <<w, lastAttach, ready, online, obs, rowVars, procVars, lane, landed,
                 ownEnded, intruded, turnOver>>

\* Herdr restarts: the stream breaks and its counters start again while the
\* agent lives on.
ResetSequence ==
  /\ agent.alive /\ Disturb("reset")
  /\ agent' = [agent EXCEPT !.seq = 0, !.comp = 0, !.epoch = @ + 1]
  /\ online' = FALSE /\ notify' = FALSE
  /\ UNCHANGED <<turn, queue, w, lastAttach, ready, obs, rowVars, procVars,
                 lane, landed, ownEnded, intruded, turnOver>>

-----------------------------------------------------------------------------
(* The dispatch handler.                                                   *)

\* Mutant: a request whose handler died may be sent again.
UnclaimedOrDead(r) == op[r] \in {"none", "accepted"} /\ ~inFlight(r)

\* No receipt and no handler under this request ID.
unclaimed(r) == op[r] = "none" /\ ~inFlight(r)

\* Handle accepts a mutation once: a receipt that exists answers a repeat.
Accept(r) ==
  /\ unclaimed(r)
  /\ op' = [op EXCEPT ![r] = "accepted"]
  /\ pc' = [pc EXCEPT ![r] = "wait"]
  /\ UNCHANGED <<agentVars, w, lastAttach, ready, online, notify, obs, disp, run, snap,
                 answer, cleared, lane, faults, landed>>

\* lane.Lock, which nothing cancels, then the re-read of the row and the subscription
\* check: until the lane is free the handler has no step.
TakeLane(r) ==
  /\ pc[r] = "wait" /\ LaneFree
  /\ sessionActive(w) /\ w.state # "offline" /\ subscriptionReady(w)
  /\ pc' = [pc EXCEPT ![r] = "probe"]
  /\ snap' = [snap EXCEPT ![r].attach = w.attach]
  /\ UNCHANGED <<agentVars, w, lastAttach, ready, online, notify, obs, rowVars, answer,
                 cleared, lane, faults, landed>>

\* Mutant: the baselines come from the row instead of agent.get.
ProbeFromRow(r) ==
  /\ pc[r] = "probe"
  /\ verifyAttachment(w, agent) /\ idle(agent.status)
  /\ pc' = [pc EXCEPT ![r] = "intent"]
  /\ snap' = [snap EXCEPT ![r].seq = w.seq, ![r].comp = w.comp]
  /\ UNCHANGED <<agentVars, w, lastAttach, ready, online, notify, obs, rowVars, answer,
                 cleared, lane, faults, landed>>

\* agent.get: identity, readiness and the baselines of the turn.
Probe(r) ==
  /\ pc[r] = "probe"
  /\ verifyAttachment(w, agent) /\ idle(agent.status)
  /\ pc' = [pc EXCEPT ![r] = "intent"]
  /\ snap' = [snap EXCEPT ![r].seq = agent.seq, ![r].comp = agent.comp]
  /\ UNCHANGED <<agentVars, w, lastAttach, ready, online, notify, obs, rowVars, answer,
                 cleared, lane, faults, landed>>

\* The handler leaves; a receipt that is already final stays as it is.
End(r, state) ==
  /\ op' = IF op[r] \in {"completed", "failed"} THEN op ELSE [op EXCEPT ![r] = state]
  /\ pc' = [pc EXCEPT ![r] = "end"]
  /\ snap' = [snap EXCEPT ![r] = NoSnap]
  /\ answer' = [answer EXCEPT ![r] = "none"]

\* Any precondition that fails, or cannot be read, ends the request before
\* anything is recorded about a dispatch. All are looked at with the lane in hand: a
\* handler that waits for it takes it first, and gives it back with the refusal. (Only the
\* name of the worker is looked up before; requests here name one that exists.)
Refuse(r) ==
  /\ pc[r] \in {"wait", "probe", "intent"} /\ (pc[r] = "wait" => LaneFree)
  /\ End(r, "failed")
  /\ UNCHANGED <<agentVars, w, lastAttach, ready, online, notify, obs, disp, run,
                 cleared, lane, faults, landed>>

\* Mutant: nobody asks for another active dispatch.
IntentIgnoresActive(r) ==
  /\ w.attach = snap[r].attach
  /\ sessionActive(w) /\ w.state # "offline"
  /\ w.seq <= snap[r].seq

\* The state the intent transaction insists on, read inside it.
IntentHolds(r) ==
  /\ w.attach = snap[r].attach
  /\ sessionActive(w) /\ w.state # "offline"
  /\ w.seq <= snap[r].seq
  /\ \A x \in Requests : ~activeDispatch(disp[x])

Intent(r) ==
  /\ pc[r] = "intent" /\ IntentHolds(r)
  /\ disp' = [disp EXCEPT ![r] = [NoDispatch EXCEPT !.status = "sending",
                !.attach = snap[r].attach, !.base = snap[r].seq,
                !.baseComp = snap[r].comp]]
  /\ run' = [run EXCEPT ![r] = "active"]
  /\ pc' = [pc EXCEPT ![r] = "prompt"]
  /\ snap' = [snap EXCEPT ![r] = NoSnap]
  /\ UNCHANGED <<agentVars, w, lastAttach, ready, online, notify, obs, op, answer,
                 cleared, lane, faults, landed>>

\* agent.prompt: accepted, refused before typing, or lost either way.
Prompt(r) ==
  /\ pc[r] = "prompt"
  /\ \E a \in {"ok", "refused", "lost"}, reaches \in BOOLEAN :
       /\ a = "ok" => reaches /\ agent.alive
       /\ a = "refused" => ~reaches
       /\ reaches => agent.alive
       /\ answer' = [answer EXCEPT ![r] = a]
       /\ landed' = IF reaches THEN [landed EXCEPT ![r] = @ + 1] ELSE landed
       /\ queue' = IF reaches THEN queue \cup {r} ELSE queue
  /\ pc' = [pc EXCEPT ![r] = "result"]
  /\ UNCHANGED <<agent, turn, w, lastAttach, ready, online, notify, obs, rowVars, snap,
                 cleared, lane, faults, ownEnded, intruded, turnOver>>

\* Mutants: a lost answer counts as a refusal; a refusal leaves the row open.
DeliveredLostIsRefused(d, a) ==
  IF d.status # "sending" THEN d
  ELSE IF a = "ok" THEN [d EXCEPT !.status = "active"]
  ELSE Finish(d, "failed", "prompt_refused")
DeliveredRefusedStaysOpen(d, a) ==
  IF d.status # "sending" THEN d
  ELSE [d EXCEPT !.status = IF a = "ok" THEN "active" ELSE "uncertain"]

\* The transport result is recorded only while the row still says sending; the
\* receipt records it whatever the row says.
Delivered(d, a) ==
  IF d.status # "sending" THEN d
  ELSE CASE a = "ok"   -> [d EXCEPT !.status = "active"]
         [] a = "lost" -> [d EXCEPT !.status = "uncertain"]
         [] OTHER      -> Finish(d, "failed", "prompt_refused")

Result(r) ==
  /\ pc[r] = "result"
  /\ disp' = [disp EXCEPT ![r] = Delivered(@, answer[r])]
  /\ run' = IF disp[r].status = "sending" /\ answer[r] = "refused"
            THEN settleRunTx({r}) ELSE run
  /\ End(r, CASE answer[r] = "ok"      -> "completed"
              [] answer[r] = "lost"    -> "uncertain"
              [] OTHER                 -> "failed")
  /\ UNCHANGED <<agentVars, w, lastAttach, ready, online, notify, obs, cleared, lane, faults,
                 landed>>

-----------------------------------------------------------------------------
(* Transactions outside every lane.                                        *)

\* Mutants: an old turn end is good enough; no turn end is needed.
TurnEndWasSeen(d) == d.ended
RowIsIdle(d) == idle(w.raw) /\ w.seq >= d.endSeq /\ w.state \notin {"offline", "lost"}

\* The row's lifecycle proves the recorded turn end is still the latest word.
TurnEndStands(d) ==
  /\ d.ended /\ idle(w.raw) /\ w.seq >= d.endSeq
  /\ w.state \notin {"offline", "lost"}

\* A report names its attachment; it must be the dispatch's and the worker's.
Done(r, outcome) ==
  /\ activeDispatch(disp[r]) /\ disp[r].report = "none"
  /\ disp[r].attach = w.attach
  /\ LET d == [disp[r] EXCEPT !.report = outcome]
     IN IF TurnEndStands(d)
        THEN /\ disp' = [disp EXCEPT ![r] = Finish(d, "settled", outcome)]
             /\ run' = settleRunTx({r})
        ELSE /\ disp' = [disp EXCEPT ![r] = d]
             /\ run' = run
  /\ UNCHANGED <<agentVars, w, lastAttach, ready, online, notify, obs, op, procVars,
                 lane, faults, landed>>

FailOpen(rs) ==
  LET hit == {r \in rs : activeDispatch(disp[r])}
  IN /\ disp' = [r \in Requests |-> IF r \in hit THEN Finish(disp[r], "failed", "reason")
                                    ELSE disp[r]]
     /\ run' = settleRunTx(hit)

Fail(r) ==
  /\ activeDispatch(disp[r]) /\ FailOpen({r})
  /\ UNCHANGED <<agentVars, w, lastAttach, ready, online, notify, obs, op, procVars,
                 lane, faults, landed>>

\* operation.resolve of a dispatch receipt, by a person who investigated. It asks
\* whether the handler is in flight first and opens its transaction later.
Resolve(r, verdict) ==
  /\ ~inFlight(r) \/ r \in cleared
  /\ op[r] \in {"accepted", "uncertain"}
  /\ op' = [op EXCEPT ![r] = verdict]
  /\ IF verdict = "failed" THEN FailOpen({r}) ELSE UNCHANGED <<disp, run>>
  /\ cleared' = cleared \ {r}
  /\ UNCHANGED <<agentVars, w, lastAttach, ready, online, notify, obs, pc, snap, answer,
                 lane, faults, landed>>

\* The question is asked before the request arrives: the answer can only go stale then.
ResolveLooks(r) ==
  /\ op[r] = "none" /\ r \notin cleared /\ Disturb("overtake")
  /\ cleared' = cleared \cup {r}
  /\ UNCHANGED <<agentVars, w, lastAttach, ready, online, notify, obs, rowVars, pc, snap,
                 answer, lane, landed>>

\* No receipt yet, or a final one.
ResolveRejected(r) ==
  /\ r \in cleared /\ op[r] \notin {"accepted", "uncertain"}
  /\ cleared' = cleared \ {r}
  /\ UNCHANGED <<agentVars, w, lastAttach, ready, online, notify, obs, rowVars, pc, snap,
                 answer, lane, faults, landed>>

-----------------------------------------------------------------------------
(* The session lane: one sample at a time, taken and then applied.         *)

\* An agent.get with the binding the row has at that moment.
Sample(kind) ==
  /\ obs.kind = "off" /\ sessionActive(w)
  /\ obs' = [kind |-> kind, attach |-> w.attach, p |-> agent]
  /\ UNCHANGED <<agentVars, w, lastAttach, rowVars, procVars, lane, landed>>

SampleEvent == /\ online /\ notify /\ Sample("event") /\ notify' = FALSE
               /\ UNCHANGED <<ready, online, faults>>

\* agent.get fails with an answer that is neither missing, unavailable nor lost:
\* the event is forgotten and nothing reads the agent again.
EventForgotten == /\ online /\ notify /\ obs.kind = "off" /\ Disturb("forget")
                  /\ notify' = FALSE
                  /\ UNCHANGED <<agentVars, w, lastAttach, ready, online, obs, rowVars,
                                 procVars, lane, landed>>

\* A refresh opens a new stream with an empty ready map before it reads. The daemon
\* refreshes again while the worker's attachment has no subscription, unless only
\* the evidence of a held worker is missing; any change in the layout of the session,
\* and any new attachment, causes one more.
Refresh == Sample("refresh") /\ ready' = 0 /\ online' = TRUE /\ notify' = FALSE
Reconnect     == ready # w.attach /\ ~(w.held /\ online) /\ Refresh /\ UNCHANGED faults
SampleRefresh == Refresh /\ Disturb("refresh")

\* A watchdog tick reads a held worker of an online session again.
SampleHeld == w.held /\ online /\ Sample("held") /\ UNCHANGED <<ready, online, notify, faults>>

\* observeWorker's recovery argument.
recovery == obs.kind \in {"refresh", "held"}
Bound == obs.kind # "off" /\ obs.attach = w.attach /\ sessionActive(w)

nativeContinuity == (recovery \/ w.held) /\ matchingNative(w, obs.p)
continuous == verifyAttachment(w, obs.p) /\ ~(w.held /\ nativeContinuity)

\* The sample's binding was replaced, or says nothing new about this row; one from
\* another epoch of Herdr may carry a lower revision.
DropSample ==
  /\ obs.kind # "off"
  /\ \/ ~Bound
     \/ ~obs.p.alive /\ w.held
     \/ continuous /\ obs.p.epoch # w.epoch /\ ~recovery /\ ~w.held
  /\ obs' = NoSample
  /\ UNCHANGED <<agentVars, w, lastAttach, ready, online, notify, rowVars, procVars,
                 lane, faults, landed>>

Lose ==
  /\ Bound
  /\ \/ ~obs.p.alive /\ ~w.held
     \/ obs.p.alive /\ ~continuous /\ ~nativeContinuity
  /\ w' = [w EXCEPT !.state = "lost", !.held = FALSE]
  /\ obs' = NoSample
  /\ UNCHANGED <<agentVars, lastAttach, ready, online, notify, rowVars, procVars,
                 lane, faults, landed>>

\* The process behind the sample cannot be inspected: a native conversation is
\* held for a later read; without one the sample is given up, and a refresh
\* that fails this way takes the session offline.
Unverified ==
  /\ Bound /\ obs.p.alive /\ obs.p.conv = w.conv /\ Disturb("unverified")
  /\ LET fails == ~native(w) /\ obs.kind = "refresh"
     IN /\ w' = IF native(w) THEN [w EXCEPT !.state = "offline", !.held = TRUE]
                ELSE IF fails THEN [w EXCEPT !.state = "offline"] ELSE w
        /\ online' = (online /\ ~fails)
  /\ obs' = NoSample
  /\ UNCHANGED <<agentVars, lastAttach, ready, notify, rowVars, procVars, lane, landed>>

\* Mutant: idle later than the baseline.
TurnEndsWhenIdle(d, p) == idle(p.status) /\ p.seq > d.base

\* Evidence that the worker's turn ended: it was seen working after the
\* baseline and is idle later, or the completion counter moved to this change.
TurnEnds(d, p) ==
  /\ idle(p.status) /\ p.seq > d.base
  /\ \/ d.work > d.base /\ p.seq > d.work
     \/ p.comp > d.baseComp /\ p.comp = p.seq

\* Mutant: only the sample that brings the turn end settles.
ObservedOnce(d, p) ==
  LET working == ~d.ended /\ p.seq > d.base /\ p.status \in {"working", "blocked"}
      ends    == ~d.ended /\ TurnEnds(d, p)
      seen    == [d EXCEPT !.work = IF working THEN p.seq ELSE @, !.ended = @ \/ ends,
                           !.endSeq = IF ends THEN p.seq ELSE @]
  IN IF ends /\ d.report # "none" THEN Finish(seen, "settled", d.report) ELSE seen

Observed(d, p) ==
  LET working == ~d.ended /\ p.seq > d.base /\ p.status \in {"working", "blocked"}
      ended   == d.ended \/ TurnEnds(d, p)
      seen    == [d EXCEPT !.work = IF working THEN p.seq ELSE @, !.ended = ended,
                           !.endSeq = IF ended /\ ~d.ended THEN p.seq ELSE @]
  IN IF ended /\ d.report # "none" /\ idle(p.status)
     THEN Finish(seen, "settled", d.report) ELSE seen

\* The whole observation transaction. A recovered native session and a reset
\* sequence both open a new attachment, which no open dispatch belongs to.
Observe ==
  /\ Bound /\ obs.p.alive /\ (continuous \/ nativeContinuity)
  /\ LET p     == obs.p
         fresh == ~continuous \/ p.seq < w.seq
         hit   == {r \in Requests : /\ activeDispatch(disp[r]) /\ ~fresh
                                    /\ disp[r].attach = w.attach}
         done  == {r \in hit : Observed(disp[r], p).status = "settled"}
     IN /\ w' = [attach |-> IF fresh THEN lastAttach + 1 ELSE w.attach,
                 inc    |-> IF continuous THEN w.inc ELSE agent.inc,
                 conv   |-> w.conv, epoch |-> p.epoch, state |-> p.status,
                 raw    |-> p.status, seq |-> p.seq, comp |-> p.comp, held |-> FALSE]
        /\ lastAttach' = IF fresh THEN lastAttach + 1 ELSE lastAttach
        /\ ready' = IF obs.kind = "refresh" THEN w'.attach ELSE ready
        /\ disp' = [r \in Requests |-> IF r \in hit THEN Observed(disp[r], p) ELSE disp[r]]
        /\ run' = settleRunTx(done)
  /\ obs' = NoSample
  /\ UNCHANGED <<agentVars, online, notify, op, procVars, lane, faults, landed>>

\* The stream ended, or reading the session failed: the worker goes offline.
Offline ==
  /\ obs.kind = "off"
  /\ w' = IF sessionActive(w) THEN [w EXCEPT !.state = "offline"] ELSE w
  /\ ready' = 0 /\ online' = FALSE
  /\ UNCHANGED <<agentVars, lastAttach, notify, obs, rowVars, procVars, lane, landed>>

Disconnected == ~online /\ Offline /\ UNCHANGED faults
SessionDown  == online /\ Offline /\ Disturb("outage")

-----------------------------------------------------------------------------
(* Worker lifecycle, in the worker lane. Each of these reads the row first *)
(* and later writes the whole row back, while the session lane goes on.    *)

Hold(step, row) == lane' = [step |-> step, row |-> row]
Lifecycle == UNCHANGED <<agentVars, ready, online, notify, obs, op, procVars, landed>>

RetainRead ==
  /\ LaneFree /\ Disturb("retain") /\ Hold("retain", w)
  /\ Lifecycle /\ UNCHANGED <<w, lastAttach, disp, run>>

RetainWrite ==
  /\ lane.step = "retain"
  /\ w' = lane.row /\ lane' = FreeLane
  /\ Lifecycle /\ UNCHANGED <<lastAttach, disp, run, faults>>

\* worker.release and worker.stop, forced or not: force only skips checks.
ReleaseRead ==
  /\ LaneFree /\ w.state # "released" /\ Disturb("release") /\ Hold("release", w)
  /\ Lifecycle /\ UNCHANGED <<w, lastAttach, disp, run>>

\* pane.close of the verified agent: it closes, or it does not.
ReleaseClose ==
  /\ lane.step = "release" /\ verifyAttachment(lane.row, agent)
  /\ \/ /\ Hold("closed", lane.row)
        /\ agent' = [agent EXCEPT !.alive = FALSE, !.inc = @ + 1]
        /\ turn' = None /\ queue' = {} /\ notify' = TRUE
     \/ /\ Hold("unclosed", lane.row)
        /\ UNCHANGED <<agent, turn, queue, notify>>
  /\ UNCHANGED <<ownEnded, intruded, turnOver, w, lastAttach, ready, online, obs, rowVars,
                 procVars, faults, landed>>

\* The pane is gone and so are its processes: fence, and write the row.
Released ==
  /\ lane.step = "closed"
  /\ FailOpen(Requests)
  /\ w' = [lane.row EXCEPT !.state = "released", !.held = FALSE]
  /\ lane' = FreeLane
  /\ Lifecycle /\ UNCHANGED <<lastAttach, faults>>

\* The close failed, its answer was lost, or its effect could not be verified.
CleanupUncertain ==
  /\ lane.step \in {"closed", "unclosed"}
  /\ w' = [lane.row EXCEPT !.state = "offline"]
  /\ lane' = FreeLane
  /\ Lifecycle /\ UNCHANGED <<lastAttach, disp, run, faults>>

\* retireAbsentWorker: the old pane is proved gone, and the row was not rebound.
RetireAbsent ==
  /\ lane.step = "release" /\ ~agent.alive /\ lane.row.attach = w.attach
  /\ FailOpen(Requests)
  /\ w' = [w EXCEPT !.state = "released", !.held = FALSE]
  /\ lane' = FreeLane
  /\ Lifecycle /\ UNCHANGED <<lastAttach, faults>>

\* Adopting binds the row anew to the agent that is there.
AdoptRead ==
  /\ LaneFree /\ agent.alive /\ Disturb("adopt")
  /\ lastAttach' = lastAttach + 1
  /\ Hold("adopt", [attach |-> lastAttach + 1, inc |-> agent.inc, conv |-> agent.conv,
       epoch |-> agent.epoch, state |-> agent.status, raw |-> agent.status,
       seq |-> agent.seq, comp |-> agent.comp, held |-> FALSE])
  /\ Lifecycle /\ UNCHANGED <<w, disp, run>>

\* Mutant: adopting leaves the lane locked.
AdoptKeepsLane ==
  /\ lane.step = "adopt"
  /\ FailOpen(Requests)
  /\ w' = lane.row /\ lane' = [lane EXCEPT !.step = "kept"]
  /\ Lifecycle /\ UNCHANGED <<lastAttach, faults>>

AdoptWrite ==
  /\ lane.step = "adopt"
  /\ FailOpen(Requests)
  /\ w' = lane.row /\ lane' = FreeLane
  /\ Lifecycle /\ UNCHANGED <<lastAttach, faults>>

\* A check or a read that fails gives the lane back.
LifecycleRefused ==
  /\ lane.step \in {"release", "adopt"} /\ lane' = FreeLane
  /\ Lifecycle /\ UNCHANGED <<w, lastAttach, disp, run, faults>>

\* The daemon dies and starts again: handlers, lanes, samples and the
\* subscription are gone, and events that nobody followed with them.
Crash ==
  /\ Disturb("crash")
  /\ pc' = [r \in Requests |-> IF inFlight(r) THEN "dead" ELSE pc[r]]
  /\ snap' = [r \in Requests |-> NoSnap]
  /\ answer' = [r \in Requests |-> "none"] /\ cleared' = {}
  /\ ready' = 0 /\ online' = FALSE /\ notify' = FALSE /\ obs' = NoSample
  /\ lane' = FreeLane
  /\ UNCHANGED <<agentVars, w, lastAttach, rowVars, landed>>

-----------------------------------------------------------------------------
Handler(r) == \/ TakeLane(r) \/ Probe(r) \/ Refuse(r)
              \/ Intent(r) \/ Prompt(r) \/ Result(r)
Apply == DropSample \/ Lose \/ Unverified \/ Observe
Finishing == \/ RetainWrite
             \/ ReleaseClose \/ Released \/ CleanupUncertain \/ RetireAbsent
             \/ AdoptWrite \/ LifecycleRefused
Agent == \/ \E r \in Requests : BeginTurn(r)
         \/ BeginHumanTurn \/ Block \/ Obscure \/ Resume \/ EndTurn
         \/ ReplaceAgent \/ ClosePane \/ ResetSequence

Next ==
  \/ Agent
  \/ \E r \in Requests : Accept(r) \/ Handler(r) \/ Fail(r)
  \/ \E r \in Requests : ResolveLooks(r) \/ ResolveRejected(r)
  \/ \E r \in Requests, o \in {"done", "failed"} : Done(r, o)
  \/ \E r \in Requests, v \in {"completed", "failed"} : Resolve(r, v)
  \/ SampleEvent \/ Reconnect \/ SampleRefresh \/ SampleHeld \/ EventForgotten
  \/ Apply \/ Disconnected \/ SessionDown
  \/ RetainRead \/ ReleaseRead \/ AdoptRead \/ Finishing
  \/ Crash

Spec == Init /\ [][Next]_vars

\* Events reach the daemon while a stream is followed, a refresh is retried
\* until the subscription is ready for the attachment, an agent finishes what
\* it was asked, handlers run.
Fairness ==
  /\ WF_vars(SampleEvent) /\ WF_vars(SampleHeld) /\ WF_vars(Apply)
  /\ WF_vars(Reconnect) /\ WF_vars(Disconnected)
  /\ WF_vars(Resume) /\ WF_vars(EndTurn) /\ WF_vars(Finishing)
  /\ \A r \in Requests : WF_vars(Handler(r))
FairSpec == Spec /\ Fairness

-----------------------------------------------------------------------------
(* The refinement mapping to the abstract protocol.                        *)

phase(d) == IF activeDispatch(d) THEN "open" ELSE d.status
job == [r \in Requests |-> [phase    |-> phase(disp[r]),
                            reported |-> disp[r].report # "none",
                            turnOver |-> disp[r].ended]]
Abstract == INSTANCE Settlement WITH Jobs <- Requests

-----------------------------------------------------------------------------
(* Properties                                                              *)

TypeOK ==
  /\ agent \in AgentRec /\ turn \in Requests \cup {Human, None}
  /\ queue \subseteq Requests
  /\ w \in WorkerRec /\ lastAttach \in Nat /\ ready \in Nat
  /\ online \in BOOLEAN /\ notify \in BOOLEAN
  /\ obs \in [kind: {"off", "event", "refresh", "held"}, attach: Nat, p: AgentRec]
  /\ disp \in [Requests -> DispatchRec]
  /\ run \in [Requests -> {"none", "active", "completed"}]
  /\ op \in [Requests -> {"none", "accepted", "completed", "failed", "uncertain"}]
  /\ pc \in [Requests -> {"new", "wait", "probe", "intent", "prompt", "result",
                          "end", "dead"}]
  /\ snap \in [Requests -> SnapRec]
  /\ answer \in [Requests -> {"none", "ok", "refused", "lost"}] /\ cleared \subseteq Requests
  /\ lane \in [step: LaneStep, row: WorkerRec]
  /\ faults \in Nat /\ landed \in [Requests -> Nat]
  /\ ownEnded \in [Requests -> BOOLEAN] /\ intruded \in [Requests -> BOOLEAN]
  /\ turnOver \in [Requests -> BOOLEAN]

\* One active dispatch per worker (dispatch.go: "one active dispatch per worker"),
\* whatever handlers, crashes and lifecycle changes interleave.
OneActiveDispatch ==
  \A r, x \in Requests :
    activeDispatch(disp[r]) /\ activeDispatch(disp[x]) => r = x

\* No request puts its prompt into the agent twice: not after a crash, a lost
\* answer, a repeat of the request or a resolution by hand.
PromptAtMostOnce == \A r \in Requests : landed[r] <= 1

\* A prompt that reached the agent is on record: its row exists, and does not
\* claim that the prompt was refused.
PromptAccounted ==
  \A r \in Requests : landed[r] > 0 => /\ disp[r].status # "none"
                                        /\ disp[r].outcome # "prompt_refused"

\* The run a dispatch created for itself is open exactly as long as the dispatch.
RunFollowsDispatch ==
  \A r \in Implicit : run[r] = CASE disp[r].status = "none" -> "none"
                                 [] activeDispatch(disp[r]) -> "active"
                                 [] OTHER -> "completed"

\* A request answered "failed" leaves the worker free: no receipt, whether from
\* the handler or from operation.resolve, fails over an active dispatch. (It holds
\* as long as no resolution overtakes its request.)
FailedReceiptFreesWorker ==
  \A r \in Requests : op[r] = "failed" => ~activeDispatch(disp[r])

\* A recorded turn end is never invented: some turn of the agent did end after
\* the baselines were taken. Idle alone, a status nobody could read or a sample
\* that came late are not evidence. (Counters that started again are none either,
\* unless they did so between a sample and its use: the baselines are then of the
\* new counters and the sample of the old ones. Two disturbances do not suffice.)
TurnEvidenceIsReal ==
  \A r \in Requests : disp[r].ended => turnOver[r]

\* A settled dispatch saw its own turn end, unless another turn began between
\* its baselines and the end of its own. (Up to the same exception.)
SettledOnOwnTurn ==
  \A r \in Requests : disp[r].status = "settled" => ownEnded[r] \/ intruded[r]

\* Whatever handlers, lanes, samples, faults and restarts do, the rows change only
\* as the abstract protocol allows: one open job at a time, settled on both
\* halves of the evidence, closed for good.
ImplementsSettlement == Abstract!Spec

\* A delayed transport result, report, observation, fence or retry never
\* changes a dispatch that has ended.
TerminalIsFinal ==
  [][\A r \in Requests : disp[r].status \in {"settled", "failed"} =>
       disp'[r] = disp[r]]_vars

\* A dispatch settles only with a report and a turn end, on the worker's
\* current attachment, while the row says the agent is idle since that end. (Up to
\* the counter if Herdr restarts while a retain holds a copy of an older row.)
SettlesOnCurrentEvidence ==
  [][\A r \in Requests :
       disp'[r].status = "settled" /\ disp[r].status # "settled" =>
         /\ disp'[r].report = disp'[r].outcome /\ disp'[r].ended
         /\ w'.attach = disp'[r].attach
         /\ w'.state = "idle" /\ w'.raw = "idle" /\ w'.seq >= disp'[r].endSeq]_vars

\* A dispatch with its report and its turn end settles or is ended by someone,
\* as long as the worker keeps the attachment and is not lost.
ReportedTurnSettles ==
  \A r \in Requests :
    (activeDispatch(disp[r]) /\ disp[r].report # "none" /\ disp[r].ended)
      ~> \/ ~activeDispatch(disp[r])
         \/ w.attach # disp[r].attach \/ ~sessionActive(w)

\* A handler that accepted a request answers it or died with the daemon: the
\* lane is never kept by one that has nothing left to do.
AcceptedIsAnswered ==
  \A r \in Requests : op[r] = "accepted" ~> op[r] # "accepted" \/ pc[r] = "dead"
=============================================================================
