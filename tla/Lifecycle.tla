----------------------------- MODULE Lifecycle -----------------------------
(***************************************************************************)
(* Workers come and go: worker.spawn, worker.adopt, worker.release (and    *)
(* stop), the retirement of absent workers, and operation.resolve of a     *)
(* launch (daemon/workers.go, mutations.go), beside the observation of     *)
(* panes by the session lane (sessions.go, dispatch.go) and Herdr, where   *)
(* people open, close and move panes and start agents of their own.        *)
(*                                                                         *)
(* A worker is tied to a pane, which is only a name, to the terminal in    *)
(* it, and to the process of the agent.  Terminals and processes are       *)
(* numbered as they begin and never come back; panes are used again.       *)
(* Agents have no native session here: the process is the evidence.  What  *)
(* one check reads of Herdr is one step, and so is a transaction; between  *)
(* the steps of a handler anything may happen.  A command that is cut off  *)
(* by a crash goes on where that matters, which is the launch: a close or  *)
(* a new tab that comes late is one that a person makes.                   *)
(***************************************************************************)
EXTENDS FiniteSets, Integers, Sequences

CONSTANTS
  Requests,   \* requests, each of which is one spawn, adoption or release
  Workers,    \* identities of workers
  Panes,      \* pane references of Herdr
  MaxTerms,   \* bound: terminals ever opened
  MaxAgents,  \* bound: agent processes ever started
  Kinds,      \* what may go wrong or be done from outside, each kind once
  MaxFaults,  \* bound: how many of these happen
  ByHand,     \* the name of an agent that a person started
  None        \* no worker, pane or request

ASSUME BoundsAssumption == MaxTerms \in Nat /\ MaxAgents \in Nat /\ MaxFaults \in Nat
ASSUME NamesAssumption == None \notin Requests \cup Workers \cup Panes /\ ByHand \notin Workers

VARIABLES
  pane,     \* the terminal in each pane, 0 where there is none
  fg,       \* the process in the foreground of each terminal, 0 for its shell
  name,     \* the agent name of each process
  alive,    \* the processes that run
  late,     \* launches whose command is still on its way: <<worker, pane>>
  row,      \* the rows of workers
  op,       \* the operation row of each request
  h,        \* the handler of each request
  cleared,  \* launches and other requests a resolution in progress found not in flight
  lane,     \* who holds each worker's lane
  obs,      \* the sample in the session lane
  hits,     \* the disturbances so far
  moved,    \* history: terminals that changed their pane
  stale,    \* history: releases whose pane changed after their last look at it
  overlapped, \* history: workers adopted or declared failed while their own launch was under way
  resolved  \* history: workers whose launch a person declared failed

herdrVars == <<pane, fg, name, alive, late>>
history == <<moved, stale, overlapped, resolved>>
vars == <<herdrVars, row, op, h, cleared, lane, obs, hits, history>>

Terms == DOMAIN fg
Agents == DOMAIN name
Names == Workers \cup {ByHand}

-----------------------------------------------------------------------------
(* Rows and handlers.                                                      *)

NoRow == [state |-> "none", pane |-> None, term |-> 0, proc |-> 0, name |-> None,
          attach |-> None, op |-> None]
NoOp == [state |-> "none", kind |-> "none", worker |-> None]
Free == [step |-> "free", worker |-> None, row |-> NoRow, answer |-> "none"]
NoSample == [worker |-> None, row |-> NoRow, pane |-> None, term |-> 0, name |-> None]

Final == {"released", "failed"}
\* A row that is there and not over; the session lane cares for it unless it is lost.
Owned(w) == row[w].state \notin Final \cup {"none"}
sessionActive(w) == Owned(w) /\ row[w].state # "lost"

sameSessionBinding(a, b) ==
  <<a.pane, a.term, a.proc, a.name, a.attach>> = <<b.pane, b.term, b.proc, b.name, b.attach>>

\* agent.get of a pane: whether there is an agent, and its name.
HasAgent(p) == p # None /\ pane[p] # 0 /\ fg[pane[p]] # 0
AgentIn(p) == fg[pane[p]]

\* The row l is of the very process that runs in front in the pane p.
verifyAttachment(l, p) ==
  /\ HasAgent(p) /\ pane[p] = l.term /\ name[AgentIn(p)] = l.name
  /\ l.proc # 0 /\ AgentIn(p) = l.proc /\ l.proc \in alive

\* Identities are random: nobody else has, had, or is about to have, this one.
FreshWorker(w) == row[w] = NoRow /\ \A q \in Requests : h[q].worker # w /\ op[q].worker # w

Launching(q, w) ==
  /\ h[q].worker = w
  /\ h[q].step \in {"tab", "record", "route", "shell", "start", "confirm", "capture", "commit",
                    "failing"}

\* Only resolutions and a crash change what resolutions found.
Occurs(kind) ==
  /\ kind \in Kinds \ hits /\ Cardinality(hits) < MaxFaults
  /\ hits' = hits \cup {kind}
Disturb(kind) == Occurs(kind) /\ UNCHANGED cleared
Calm == UNCHANGED <<hits, cleared>>

\* Steps that only move a handler on.
Go(r, step) == h' = [h EXCEPT ![r].step = step]
Answered(r, answer, step) == h' = [h EXCEPT ![r].step = step, ![r].answer = answer]

Unlock(r) == lane' = [w \in Workers |-> IF lane[w] = r THEN None ELSE lane[w]]

\* A receipt that is already final, which a resolution made it, stays as it is.
FinishTx(r, state) ==
  op' = IF op[r].state \in {"completed", "failed"} THEN op ELSE [op EXCEPT ![r].state = state]

\* An error that is returned and recorded in one go: nothing but the receipt is written.
GiveUp(r, state) ==
  /\ FinishTx(r, state)
  /\ h' = [h EXCEPT ![r] = Free]
  /\ Unlock(r)
  /\ UNCHANGED <<herdrVars, row, obs, history>>
Refuse(r) == GiveUp(r, "failed")

\* A read whose answer is lost is as uncertain as any other call.
Unread(r) == Disturb("lost") /\ GiveUp(r, "uncertain")

Begin(r, kind, w, l, step) ==
  /\ op[r] = NoOp
  /\ op' = [op EXCEPT ![r] = [state |-> "accepted", kind |-> kind, worker |-> w]]
  /\ h' = [h EXCEPT ![r] = [step |-> step, worker |-> w, row |-> l, answer |-> "none"]]

-----------------------------------------------------------------------------
\* Nothing yet, or a worker that was launched before and has its agent.
Established == [NoRow EXCEPT !.state = "live", !.term = 1, !.proc = 1]

Init ==
  /\ \/ /\ pane = [p \in Panes |-> 0] /\ fg = <<>> /\ name = <<>> /\ alive = {}
        /\ row = [w \in Workers |-> NoRow]
     \/ \E v \in Workers, p \in Panes :
          /\ pane = [q \in Panes |-> IF q = p THEN 1 ELSE 0]
          /\ fg = <<1>> /\ name = <<v>> /\ alive = {1}
          /\ row = [w \in Workers |-> IF w # v THEN NoRow
                                      ELSE [Established EXCEPT !.pane = p, !.name = v]]
  /\ late = {} /\ op = [r \in Requests |-> NoOp] /\ h = [r \in Requests |-> Free]
  /\ cleared = {}
  /\ lane = [w \in Workers |-> None] /\ obs = NoSample
  /\ hits = {} /\ moved = {} /\ stale = {} /\ overlapped = {} /\ resolved = {}

-----------------------------------------------------------------------------
(* Herdr and people.  What changes in a pane makes the last look at it old.*)

LookedAt(p) == {r \in Requests : h[r].step = "close" /\ h[r].row.pane = p}
Outdates(p) == stale' = stale \cup LookedAt(p)

\* A new terminal in a pane whose reference is free, perhaps again.
Opens(p) ==
  /\ pane[p] = 0 /\ Len(fg) < MaxTerms
  /\ fg' = Append(fg, 0) /\ pane' = [pane EXCEPT ![p] = Len(fg) + 1]

\* An agent comes up in front of the pane's shell.
Startable(p) == p # None /\ pane[p] # 0 /\ fg[pane[p]] = 0 /\ Len(name) < MaxAgents
Starts(n, p) ==
  /\ Startable(p)
  /\ name' = Append(name, n)
  /\ alive' = alive \cup {Len(name) + 1}
  /\ fg' = [fg EXCEPT ![pane[p]] = Len(name) + 1]

\* The pane and its terminal are gone, and so are the processes S.
Closes(p, S) ==
  /\ pane[p] # 0
  /\ pane' = [pane EXCEPT ![p] = 0]
  /\ fg' = [fg EXCEPT ![pane[p]] = 0]
  /\ alive' = alive \ S

Outside(kind) == Disturb(kind) /\ UNCHANGED <<row, op, h, lane, obs, overlapped, resolved>>

OpenTab == Outside("tab") /\ \E p \in Panes :
  Opens(p) /\ Outdates(p) /\ UNCHANGED <<name, alive, late, moved>>

StartByHand == Outside("hand") /\ \E p \in Panes :
  Starts(ByHand, p) /\ Outdates(p) /\ UNCHANGED <<pane, late, moved>>

ClosePane == Outside("close") /\ \E p \in Panes :
  Closes(p, {AgentIn(p)}) /\ Outdates(p) /\ UNCHANGED <<name, late, moved>>

ExitAgent == Outside("exit") /\ \E p \in Panes :
  /\ HasAgent(p) /\ Outdates(p)
  /\ alive' = alive \ {AgentIn(p)} /\ fg' = [fg EXCEPT ![pane[p]] = 0]
  /\ UNCHANGED <<pane, name, late, moved>>

\* A pane moved to another workspace has a new reference; its terminal stays.
MovePane == Outside("move") /\ \E p, q \in Panes :
  /\ pane[p] # 0 /\ pane[q] = 0
  /\ pane' = [pane EXCEPT ![p] = 0, ![q] = pane[p]]
  /\ moved' = moved \cup {pane[p]} /\ Outdates(p)
  /\ UNCHANGED <<fg, name, alive, late>>

\* A launch command that nobody waits for any more.
StartLate ==
  /\ \E l \in late : Starts(l[1], l[2]) /\ Outdates(l[2]) /\ late' = late \ {l}
  /\ Calm /\ UNCHANGED <<pane, row, op, h, lane, obs, moved, overlapped, resolved>>

-----------------------------------------------------------------------------
(* worker.spawn, which holds no worker lane.                               *)

\* In a tab of its own, which is opened later.
Spawn(r, w) ==
  /\ FreshWorker(w)
  /\ Begin(r, "spawn", w, [NoRow EXCEPT !.state = "starting", !.name = w, !.attach = r, !.op = r],
           "record")
  /\ Calm /\ UNCHANGED <<herdrVars, row, lane, obs, history>>

\* Or in an existing pane, in which there is no agent when it is looked at.
SpawnInPane(r, w, p) ==
  /\ FreshWorker(w) /\ pane[p] # 0 /\ ~HasAgent(p)
  /\ Begin(r, "spawn", w, [NoRow EXCEPT !.state = "starting", !.name = w, !.attach = r, !.op = r,
                                        !.pane = p, !.term = pane[p]], "record")
  /\ Calm /\ UNCHANGED <<herdrVars, row, lane, obs, history>>

\* The whole row is written as the handler knows it.
Put(r, step) ==
  /\ row' = [row EXCEPT ![h[r].worker] = h[r].row] /\ Go(r, step)
  /\ Calm /\ UNCHANGED <<herdrVars, op, lane, obs, history>>

\* The intent of a launch, on record before a tab exists; and the pane of a new tab.
Record(r) == h[r].step = "record" /\ Put(r, IF h[r].row.pane = None THEN "tab" ELSE "shell")
Route(r) == h[r].step = "route" /\ Put(r, "shell")

\* A tab of its own; an answer that does not arrive leaves the tab behind.
NewTab(r) ==
  /\ h[r].step = "tab"
  /\ \E p \in Panes :
       /\ Opens(p) /\ Outdates(p)
       /\ \/ /\ Calm
             /\ h' = [h EXCEPT ![r].step = "route",
                               ![r].row = [h[r].row EXCEPT !.pane = p, !.term = Len(fg) + 1]]
          \/ Disturb("lost") /\ Answered(r, "lost", "failing")
  /\ UNCHANGED <<name, alive, late, row, op, lane, obs, moved, overlapped, resolved>>

\* The tab was not opened, certainly or not.
NoTab(r) ==
  /\ h[r].step = "tab"
  /\ \E a \in {"lost", "refused"} : Disturb(a) /\ Answered(r, a, "failing")
  /\ UNCHANGED <<herdrVars, row, op, lane, obs, history>>

\* The reserved terminal is in its pane with its shell in front, or the launch ends here.
ShellIsFree(l) == pane[l.pane] = l.term /\ fg[l.term] = 0
waitShellReady(r) ==
  /\ h[r].step = "shell"
  /\ \/ ShellIsFree(h[r].row) /\ Calm /\ Go(r, "start")
     \/ ~ShellIsFree(h[r].row) /\ Calm /\ Answered(r, "refused", "failing")
     \/ Disturb("refused") /\ Answered(r, "refused", "failing")
  /\ UNCHANGED <<herdrVars, row, op, lane, obs, history>>

\* The command names the pane, not the terminal. Whatever it answers but success is lost:
\* only a command that could not be run at all is known to have done nothing.
AgentStart(r) ==
  /\ h[r].step = "start"
  /\ \/ /\ Starts(h[r].worker, h[r].row.pane) /\ Outdates(h[r].row.pane)
        /\ \/ Calm /\ Answered(r, "ok", "confirm")
           \/ Disturb("lost") /\ Answered(r, "lost", "confirm")
        /\ UNCHANGED <<pane, late>>
     \/ /\ ~Startable(h[r].row.pane)
        /\ Calm /\ Answered(r, "lost", "confirm")
        /\ UNCHANGED <<herdrVars, stale>>
     \/ /\ Disturb("lost") /\ Answered(r, "lost", "confirm")
        /\ late' = late \cup {<<h[r].worker, h[r].row.pane>>}
        /\ UNCHANGED <<pane, fg, name, alive, stale>>
     \/ /\ Disturb("refused") /\ Answered(r, "refused", "confirm")
        /\ UNCHANGED <<herdrVars, stale>>
  /\ UNCHANGED <<row, op, lane, obs, moved, overlapped, resolved>>

\* agent.get: only an agent of this very name in the reserved terminal is the launched one.
Own(r) ==
  LET l == h[r].row IN HasAgent(l.pane) /\ pane[l.pane] = l.term /\ name[AgentIn(l.pane)] = l.name

\* Mutant of Unconfirmed: an agent that is not there was not started.
UnconfirmedFailed(r) == Answered(r, "refused", "failing")

\* Without it the launch is certain to have failed only if its command never ran.
Unconfirmed(r) == Answered(r, IF h[r].answer = "refused" THEN "refused" ELSE "lost", "failing")

Confirm(r) ==
  /\ h[r].step = "confirm"
  /\ \/ Own(r) /\ Calm /\ Go(r, "capture")
     \/ ~Own(r) /\ Calm /\ Unconfirmed(r)
     \/ Disturb("lost") /\ Unconfirmed(r)
  /\ UNCHANGED <<herdrVars, row, op, lane, obs, history>>

\* captureBinding: the terminal is still in the pane, and who runs in front of it is the
\* process from now on. An agent that is there and not ready leaves the launch uncertain.
Captured(l) == [l EXCEPT !.state = "live", !.proc = fg[l.term]]
Capturable(l) == pane[l.pane] = l.term /\ fg[l.term] # 0
Capture(r) ==
  /\ h[r].step = "capture"
  /\ LET l == h[r].row IN
     \/ Capturable(l) /\ Calm
        /\ h' = [h EXCEPT ![r].step = "commit", ![r].row = Captured(l)]
     \/ Capturable(l) /\ h[r].answer # "ok" /\ Disturb("refused")
        /\ h' = [h EXCEPT ![r].step = "failing", ![r].row = Captured(l), ![r].answer = "lost"]
     \/ ~Capturable(l) /\ Calm /\ Answered(r, "lost", "failing")
  /\ UNCHANGED <<herdrVars, row, op, lane, obs, history>>

\* The receipt of what the handler did, in the transaction that writes the row.
Completes(r) ==
  /\ FinishTx(r, "completed")
  /\ h' = [h EXCEPT ![r] = Free]

\* The launch is over: the row as the handler knows it replaces whatever is there.
Commit(r) ==
  /\ h[r].step = "commit"
  /\ row' = [row EXCEPT ![h[r].worker] = h[r].row]
  /\ Completes(r)
  /\ Calm /\ UNCHANGED <<herdrVars, lane, obs, history>>

\* The row waits for an inspection if the outcome is uncertain, and has failed if not.
launchFailure(r) ==
  /\ h[r].step = "failing"
  /\ row' = [row EXCEPT ![h[r].worker] =
               [h[r].row EXCEPT !.state = IF h[r].answer = "lost" THEN "starting" ELSE "failed"]]
  /\ Go(r, "ending")
  /\ Calm /\ UNCHANGED <<herdrVars, op, lane, obs, history>>

\* The receipt follows in a transaction of its own.
End(r) ==
  /\ h[r].step = "ending"
  /\ FinishTx(r, IF h[r].answer = "lost" THEN "uncertain" ELSE "failed")
  /\ h' = [h EXCEPT ![r] = Free]
  /\ Calm /\ UNCHANGED <<herdrVars, row, lane, obs, history>>

-----------------------------------------------------------------------------
(* worker.adopt: a live agent, by its pane, for a new worker or for one    *)
(* that exists, whose lane it holds.                                       *)

Adopt(r, w, p) ==
  /\ \/ FreshWorker(w) /\ UNCHANGED lane
     \/ row[w] # NoRow /\ lane[w] = None /\ lane' = [lane EXCEPT ![w] = r]
  /\ Begin(r, "adopt", w, [NoRow EXCEPT !.state = "live", !.pane = p, !.attach = r, !.op = r], "look")
  /\ Calm /\ UNCHANGED <<herdrVars, row, obs, history>>

\* The agent in the pane, by its name and terminal.
AdoptLook(r) ==
  /\ h[r].step = "look"
  /\ LET p == h[r].row.pane IN
     \/ /\ HasAgent(p) /\ Calm
        /\ h' = [h EXCEPT ![r].step = "take",
                          ![r].row = [h[r].row EXCEPT !.term = pane[p], !.name = name[AgentIn(p)]]]
        /\ UNCHANGED <<herdrVars, row, op, lane, obs, history>>
     \/ ~HasAgent(p) /\ Calm /\ Refuse(r)
     \/ Unread(r)

\* Who runs in front of that terminal is the process from now on.
AdoptCapture(r) ==
  /\ h[r].step = "take" /\ Calm
  /\ LET l == h[r].row IN
     \/ /\ Capturable(l)
        /\ h' = [h EXCEPT ![r].step = "bind", ![r].row = Captured(l)]
        /\ UNCHANGED <<herdrVars, row, op, lane, obs, history>>
     \/ ~Capturable(l) /\ Refuse(r)

\* Mutant of alreadyAdopted: a worker that cannot be reached counts as gone.
adoptedByLive(w, l) ==
  \E v \in Workers \ {w} : row[v].state = "live" /\ row[v].pane = l.pane /\ row[v].term = l.term

\* Another worker that is not over has this pane and this terminal.
alreadyAdopted(w, l) ==
  \E v \in Workers \ {w} : Owned(v) /\ row[v].pane = l.pane /\ row[v].term = l.term

\* The transaction of the adoption.
AdoptCommit(r) ==
  /\ h[r].step = "bind" /\ Calm
  /\ LET w == h[r].worker IN
     \/ /\ ~alreadyAdopted(w, h[r].row)
        /\ row' = [row EXCEPT ![w] = h[r].row]
        /\ Completes(r) /\ Unlock(r)
        /\ overlapped' = IF \E q \in Requests : Launching(q, w) THEN overlapped \cup {w} ELSE overlapped
        /\ UNCHANGED <<herdrVars, obs, moved, stale, resolved>>
     \/ alreadyAdopted(w, h[r].row) /\ Refuse(r)

-----------------------------------------------------------------------------
(* worker.release and worker.stop.                                         *)

\* In the lane: the row, the checks on work in progress, and the claim of the row.
Release(r, w) ==
  /\ Owned(w) /\ lane[w] = None
  /\ Begin(r, "release", w, [row[w] EXCEPT !.op = r], "inspect")
  /\ row' = [row EXCEPT ![w].op = r]
  /\ lane' = [lane EXCEPT ![w] = r]
  /\ Calm /\ UNCHANGED <<herdrVars, obs, history>>

\* What is not found, or is not the worker's process, is left to the retirement.
Inspect(r) ==
  /\ h[r].step = "inspect"
  /\ LET l == h[r].row IN
     \/ /\ l.pane # None /\ Calm
        /\ Go(r, IF verifyAttachment(l, l.pane) THEN "recheck" ELSE "retire")
        /\ UNCHANGED <<herdrVars, row, op, lane, obs, history>>
     \/ l.pane = None /\ Calm /\ Refuse(r)
     \/ Disturb("refused") /\ Refuse(r)
     \/ Unread(r)

\* Mutant of Recheck: the terminal is still there, whoever is in it.
RecheckTerminal(r) ==
  /\ h[r].step = "recheck" /\ Calm
  /\ LET l == h[r].row IN
     \/ /\ pane[l.pane] = l.term /\ HasAgent(l.pane) /\ Go(r, "close")
        /\ UNCHANGED <<herdrVars, row, op, lane, obs, history>>
     \/ ~(pane[l.pane] = l.term /\ HasAgent(l.pane)) /\ Refuse(r)

\* Everything again, right before the pane is closed. Anything else that stops the release
\* here, a busy worker or a failed read, is a refusal.
Recheck(r) ==
  /\ h[r].step = "recheck"
  /\ \/ /\ verifyAttachment(h[r].row, h[r].row.pane) /\ Calm /\ Go(r, "close")
        /\ UNCHANGED <<herdrVars, row, op, lane, obs, history>>
     \/ ~verifyAttachment(h[r].row, h[r].row.pane) /\ Calm /\ Refuse(r)
     \/ Disturb("refused") /\ Refuse(r)

\* pane.close; the agent may outlive its terminal, the pane its acknowledged close, and
\* the answer may be lost, with or without the pane.
Close(r) ==
  /\ h[r].step = "close"
  /\ LET p == h[r].row.pane IN
     \/ /\ pane[p] # 0
        /\ \/ Calm /\ Closes(p, {AgentIn(p)}) /\ Go(r, "signal")
           \/ Disturb("survivor") /\ Closes(p, {}) /\ Go(r, "signal")
           \/ Disturb("lost") /\ Closes(p, {AgentIn(p)}) /\ Answered(r, "lost", "unsure")
        /\ stale' = (stale \cup LookedAt(p)) \ {r}
        /\ UNCHANGED <<name, late>>
     \/ /\ \/ pane[p] = 0 /\ Calm /\ Answered(r, "refused", "unsure")
           \/ Disturb("survivor") /\ Go(r, "signal")
           \/ Disturb("lost") /\ Answered(r, "lost", "unsure")
        /\ stale' = stale \ {r} /\ UNCHANGED herdrVars
  /\ UNCHANGED <<row, op, lane, obs, moved, overlapped, resolved>>

\* Only the process itself is signalled, by its birth. It may withstand.
Signal(r) ==
  /\ h[r].step = "signal"
  /\ LET b == h[r].row.proc IN
     \/ /\ alive' = alive \ {b} /\ fg' = [t \in Terms |-> IF fg[t] = b THEN 0 ELSE fg[t]]
        /\ Calm /\ Go(r, "verify")
        /\ stale' = stale \cup UNION {LookedAt(p) : p \in {q \in Panes : HasAgent(q) /\ AgentIn(q) = b}}
        /\ UNCHANGED <<pane, name, late>>
     \/ /\ b \in alive /\ Disturb("survivor")
        /\ Answered(r, "refused", "unsure") /\ UNCHANGED <<herdrVars, stale>>
  /\ UNCHANGED <<row, op, lane, obs, moved, overlapped, resolved>>

\* Nobody survived; the pane must be gone or have another terminal.
gone(l) == pane[l.pane] = 0 \/ pane[l.pane] # l.term
Verify(r) ==
  /\ h[r].step = "verify"
  /\ \/ gone(h[r].row) /\ Calm /\ Go(r, "seal")
     \/ ~gone(h[r].row) /\ Calm /\ Answered(r, "refused", "unsure")
     \/ Disturb("lost") /\ Answered(r, "lost", "unsure")
  /\ UNCHANGED <<herdrVars, row, op, lane, obs, history>>

\* The close is never repeated: the row goes offline and waits for an inspection.
Unsure(r) ==
  /\ h[r].step = "unsure"
  /\ row' = [row EXCEPT ![h[r].worker] = [h[r].row EXCEPT !.state = "offline"]]
  /\ Go(r, "ending") /\ Unlock(r)
  /\ Calm /\ UNCHANGED <<herdrVars, op, obs, history>>

\* The pane is gone and the processes are: released, with the receipt.
Seal(r) ==
  /\ h[r].step = "seal"
  /\ row' = [row EXCEPT ![h[r].worker] = [h[r].row EXCEPT !.state = "released"]]
  /\ Completes(r) /\ Unlock(r)
  /\ Calm /\ UNCHANGED <<herdrVars, obs, history>>

\* Mutant of Absent: the pane tells.
AbsentPane(l) == gone(l)

\* retireAbsentWorker: the old pane and the recorded process must both be gone; nothing is
\* closed or signalled.
Absent(l) == gone(l) /\ l.proc # 0 /\ l.proc \notin alive
Retire(r) ==
  /\ h[r].step = "retire"
  /\ \/ /\ Absent(h[r].row) /\ Calm /\ Go(r, "retired")
        /\ UNCHANGED <<herdrVars, row, op, lane, obs, history>>
     \/ ~Absent(h[r].row) /\ Calm /\ Refuse(r)
     \/ Unread(r)

\* The one lifecycle write that compares the row with what was inspected.
RetireCommit(r) ==
  /\ h[r].step = "retired" /\ Calm
  /\ LET w == h[r].worker IN
     \/ /\ sameSessionBinding(h[r].row, row[w])
        /\ row' = [row EXCEPT ![w].state = "released", ![w].op = r]
        /\ Completes(r) /\ Unlock(r)
        /\ UNCHANGED <<herdrVars, obs, history>>
     \/ ~sameSessionBinding(h[r].row, row[w]) /\ Refuse(r)

-----------------------------------------------------------------------------
(* The session lane: refreshSession and observeWorker.                     *)

\* sessionCandidate: where the terminal is now, or what the old reference names.
Candidate(l) ==
  LET there == {p \in Panes : l.proc # 0 /\ pane[p] = l.term /\ HasAgent(p) /\ name[AgentIn(p)] = l.name}
  IN IF there # {} THEN CHOOSE p \in there : TRUE ELSE l.pane

\* A launch that has no pane yet is left alone.
Sample(w) ==
  /\ obs.worker = None /\ sessionActive(w)
  /\ ~(row[w].state = "starting" /\ row[w].pane = None)
  /\ LET c == Candidate(row[w]) IN
     obs' = IF HasAgent(c)
            THEN [worker |-> w, row |-> row[w], pane |-> c, term |-> pane[c], name |-> name[AgentIn(c)]]
            ELSE [worker |-> w, row |-> row[w], pane |-> None, term |-> 0, name |-> None]
  /\ Calm /\ UNCHANGED <<herdrVars, row, op, h, lane, history>>

\* verifyAttachmentEvidence: the sample matches the row, and the process of the row is
\* alive and in front of the pane.
continuous(l) ==
  /\ obs.term = l.term /\ obs.name = l.name /\ l.proc # 0
  /\ HasAgent(obs.pane) /\ AgentIn(obs.pane) = l.proc /\ l.proc \in alive

Observed(l) ==
  IF continuous(l) THEN [l EXCEPT !.state = "live", !.pane = obs.pane]
  ELSE IF l.state = "starting" /\ l.proc = 0 THEN l
  ELSE [l EXCEPT !.state = "lost"]

\* Mutant of observeWorker: the binding is compared, but not the state.
observeAnyway ==
  /\ obs.worker # None
  /\ LET w == obs.worker IN
     row' = IF sameSessionBinding(obs.row, row[w]) THEN [row EXCEPT ![w] = Observed(@)] ELSE row
  /\ obs' = NoSample
  /\ Calm /\ UNCHANGED <<herdrVars, op, h, lane, history>>

\* What was sampled is applied if the binding is still the same and the worker not over.
observeWorker ==
  /\ obs.worker # None
  /\ LET w == obs.worker IN
     row' = IF sameSessionBinding(obs.row, row[w]) /\ sessionActive(w)
            THEN [row EXCEPT ![w] = Observed(@)] ELSE row
  /\ obs' = NoSample
  /\ Calm /\ UNCHANGED <<herdrVars, op, h, lane, history>>

\* offlineSession: the session is not reached.
Outage ==
  /\ Disturb("outage") /\ obs = NoSample
  /\ row' = [w \in Workers |-> IF sessionActive(w) THEN [row[w] EXCEPT !.state = "offline"] ELSE row[w]]
  /\ UNCHANGED <<herdrVars, op, h, lane, obs, history>>

-----------------------------------------------------------------------------
(* The daemon dies: handlers, lanes and samples are gone; a launch command *)
(* that was running goes on. And a person settles what was left.           *)

Crash ==
  /\ Occurs("crash") /\ cleared' = {}
  /\ late' = late \cup {<<h[r].worker, h[r].row.pane>> : r \in {q \in Requests : h[q].step = "start"}}
  /\ h' = [r \in Requests |-> Free] /\ lane' = [w \in Workers |-> None] /\ obs' = NoSample
  /\ stale' = {}
  /\ UNCHANGED <<pane, fg, name, alive, row, op, moved, overlapped, resolved>>

\* operation.resolve asks whether a handler is in flight first, and opens its transaction
\* later: a request that arrives in between is resolved while it is carried out.
ResolveLooks(r) ==
  /\ h[r] = Free /\ Occurs("resolve")
  /\ cleared' = cleared \cup {r}
  /\ UNCHANGED <<herdrVars, row, op, h, lane, obs, history>>

\* A launch on record without evidence of an agent may be declared failed; anything else
\* changes only its receipt.
Unsettled(r) == op[r].state \in {"accepted", "uncertain"}
recorded(r) == op[r].kind = "spawn" /\ row[op[r].worker] # NoRow
unbound(l) == l.proc = 0 /\ l.state \in {"starting", "lost", "offline"}
mayFail(r) == row[op[r].worker].op = r /\ unbound(row[op[r].worker])

\* The transaction of a resolution.
Resolve(r) ==
  /\ r \in cleared /\ cleared' = cleared \ {r} /\ UNCHANGED hits
  /\ Unsettled(r)
  /\ LET w == op[r].worker IN
     \/ /\ recorded(r) /\ mayFail(r)
        /\ row' = [row EXCEPT ![w].state = "failed"]
        /\ resolved' = resolved \cup {w}
        /\ overlapped' = IF \E q \in Requests : Launching(q, w) THEN overlapped \cup {w} ELSE overlapped
        /\ op' = [op EXCEPT ![r].state = "failed"]
     \/ /\ ~recorded(r)
        /\ op' = [op EXCEPT ![r].state = "failed"]
        /\ UNCHANGED <<row, resolved, overlapped>>
     \/ op' = [op EXCEPT ![r].state = "completed"] /\ UNCHANGED <<row, resolved, overlapped>>
  /\ UNCHANGED <<herdrVars, h, lane, obs, moved, stale>>

\* No receipt yet, or a final one; or a launch whose worker is bound or has a newer operation.
ResolveRejected(r) ==
  /\ r \in cleared /\ cleared' = cleared \ {r} /\ UNCHANGED hits
  /\ ~Unsettled(r) \/ (recorded(r) /\ ~mayFail(r))
  /\ UNCHANGED <<herdrVars, row, op, h, lane, obs, history>>

-----------------------------------------------------------------------------
Launch(r) == Record(r) \/ NewTab(r) \/ NoTab(r) \/ Route(r) \/ waitShellReady(r) \/ AgentStart(r)
             \/ Confirm(r) \/ Capture(r) \/ Commit(r) \/ launchFailure(r)
Bind(r) == AdoptLook(r) \/ AdoptCapture(r) \/ AdoptCommit(r)
Cleanup(r) == Inspect(r) \/ Recheck(r) \/ Close(r) \/ Signal(r) \/ Verify(r) \/ Unsure(r)
              \/ Seal(r) \/ Retire(r) \/ RetireCommit(r)
Request(r) == \E w \in Workers :
  \/ Spawn(r, w) \/ Release(r, w) \/ \E p \in Panes : SpawnInPane(r, w, p) \/ Adopt(r, w, p)
Environment == OpenTab \/ StartByHand \/ ClosePane \/ ExitAgent \/ MovePane \/ StartLate
Session == (\E w \in Workers : Sample(w)) \/ observeWorker \/ Outage

Resolution(r) == ResolveLooks(r) \/ Resolve(r) \/ ResolveRejected(r)

Next ==
  \/ Environment \/ Session \/ Crash
  \/ \E r \in Requests : Request(r) \/ Launch(r) \/ Bind(r) \/ Cleanup(r) \/ End(r) \/ Resolution(r)

Spec == Init /\ [][Next]_vars

-----------------------------------------------------------------------------
(* Types.                                                                  *)

Standing == {"starting", "live", "lost", "offline"}
RowIn(S) == [state: S, pane: Panes \cup {None}, term: Terms \cup {0}, proc: Agents \cup {0},
             name: Names \cup {None}, attach: Requests \cup {None}, op: Requests \cup {None}]
Steps == {"tab", "record", "route", "shell", "start", "confirm", "capture", "commit", "failing",
          "look", "take", "bind", "inspect", "recheck", "close", "signal", "verify", "seal",
          "unsure", "retire", "retired", "ending"}
Handler == [step: Steps, worker: Workers, row: RowIn(Standing),
            answer: {"none", "ok", "refused", "lost"}]
Receipt == [state: {"accepted", "uncertain", "completed", "failed"},
            kind: {"spawn", "adopt", "release"}, worker: Workers]

\* Every variable has its type; terminals and processes are known, who executes a request has
\* its receipt, and who binds to or closes a pane names it and its terminal.
TypeOK ==
  /\ pane \in [Panes -> 0..Len(fg)] /\ fg \in Seq(0..Len(name)) /\ name \in Seq(Names)
  /\ alive \subseteq Agents /\ late \subseteq Workers \X (Panes \cup {None})
  /\ row \in [Workers -> RowIn(Standing \cup Final \cup {"none"})]
  /\ op \in [Requests -> Receipt \cup {NoOp}] /\ h \in [Requests -> Handler \cup {Free}]
  /\ cleared \subseteq Requests /\ hits \subseteq Kinds
  /\ lane \in [Workers -> Requests \cup {None}]
  /\ obs \in [worker: Workers \cup {None}, row: RowIn(Standing \cup Final \cup {"none"}),
              pane: Panes \cup {None}, term: Terms \cup {0}, name: Names \cup {None}]
  /\ moved \subseteq Terms /\ stale \subseteq Requests
  /\ overlapped \subseteq Workers /\ resolved \subseteq Workers
  /\ \A r \in Requests : h[r] # Free => op[r] # NoOp
  /\ \A r \in Requests : h[r].step \in {"recheck", "close", "capture", "take"} =>
       h[r].row.pane # None /\ h[r].row.term # 0

-----------------------------------------------------------------------------
(* Properties.                                                             *)

\* The row is evidence for its process: one under another name is verified by nobody, and is
\* found lost by the next observation.
Bound(w) == Owned(w) /\ row[w].proc # 0 /\ name[row[w].proc] = row[w].name

\* workers.go, adoption: "live pane already belongs to worker". An agent that belongs to two
\* workers is prompted for both, and neither's lane knows of the other.
AgentHasOneWorker ==
  \A v, w \in Workers : v # w /\ Bound(v) /\ Bound(w) => row[v].proc # row[w].proc

\* It holds as long as no pane moved and no worker was adopted, or declared failed by a person,
\* during its own launch, whose last step writes the row over whatever is there.
OneWorkerPerAgent ==
  \A v, w \in Workers :
    v # w /\ Bound(v) /\ Bound(w) /\ row[v].proc = row[w].proc
      => row[v].term \in moved \/ {v, w} \cap overlapped # {}

\* A released worker's agent does not run any more, and its terminal is gone, whatever was
\* lost, survived, closed by hand or put into the pane meanwhile.
ReleasedIsGone ==
  \A w \in Workers : row[w].state = "released" =>
    row[w].proc \notin alive /\ (row[w].term \in moved \/ \A p \in Panes : pane[p] # row[w].term)

\* A launch that is on record as failed never started an agent, and never will, unless a
\* person said that it failed.
FailedNeverRan ==
  \A w \in Workers : row[w].state = "failed" /\ w \notin resolved =>
    (\A b \in Agents : name[b] # w) /\ (\A p \in Panes : <<w, p>> \notin late)

\* A release closes the pane of the worker's own process, unless something happened in the
\* pane after the last check.
ClosesOwn ==
  [][\A r \in Requests : h[r].step = "close" /\ h'[r].step \in {"signal", "unsure"} =>
       LET p == h[r].row.pane
       IN pane'[p] = pane[p] \/ r \in stale \/ AgentIn(p) = h[r].row.proc]_vars

\* What is over comes back only by an explicit adoption, unless the worker was adopted, or
\* declared failed by a person, while its own launch was still under way.
FinalIsFinal ==
  [][\A w \in Workers : row[w].state \in Final /\ row'[w].state \notin Final =>
       w \in overlapped \/ \E r \in Requests : h[r].step = "bind" /\ h[r].worker = w]_vars
=============================================================================
