------------------------------ MODULE Service ------------------------------
(***************************************************************************)
(* How a request finds a daemon and what its sender may conclude. Clients  *)
(* start the daemon when they cannot reach one, several of them at once,   *)
(* while an older one still drains; `woof daemon restart` stops one and    *)
(* waits for the next. Each daemon takes the ownership lock, replaces the  *)
(* socket, serves, drains its handlers, and gives everything back in order.*)
(* Processes may be killed, and connections cut, between any two steps.    *)
(*                                                                         *)
(* A file lock is held by an open file of a process and goes with it. A    *)
(* socket path names the listener that was bound there last, also when     *)
(* nobody listens any more. A request waits in the listener's queue until  *)
(* it is accepted. A ping is one step, at the moment it is answered.       *)
(***************************************************************************)
EXTENDS Naturals, FiniteSets

CONSTANTS
  Callers,     \* clients that send one mutation, each with its own request ID
  Restarters,  \* clients that run `woof daemon restart`
  Daemons,     \* woofd processes; one that ended may be started anew
  None,        \* no process
  Kinds,       \* the disturbances a behaviour may contain, each once
  MaxFaults    \* bound: disturbances in one behaviour

Clients == Callers \cup Restarters
Attempts == {1, 2}   \* the request, and a repeat of it by somebody

ASSUME ProcessesAssumption ==
  /\ Callers \cap Restarters = {} /\ Clients \cap Daemons = {}
  /\ Daemons # {} /\ None \notin Clients \cup Daemons
ASSUME BoundsAssumption == MaxFaults \in Nat

VARIABLES
  st,       \* where Run of each daemon stands
  lock,     \* who holds the ownership lock
  sock,     \* the daemon whose socket the path names
  boot,     \* the client that holds bootstrap.lock
  pc,       \* where each client stands
  rounds,   \* how often the client has been through EnsureDaemon
  told,     \* what the client reported at the end
  conn,     \* the attempt whose answer the client waits for
  hd,       \* the handler of each attempt: its state and its daemon
  receipt,  \* the operation row of each request
  old,      \* the daemon whose stop was acknowledged to a restarter
  by,       \* the daemon that answered its status call
  hits,     \* disturbances so far
  applied,  \* history: how often the request took effect
  down      \* history: a daemon has been told to stop, or was killed

daemonVars == <<st, lock, sock>>
clientVars == <<boot, pc, rounds, told, conn, old, by>>
requestVars == <<hd, receipt, applied>>
vars == <<st, lock, sock, boot, pc, rounds, told, conn, hd, receipt, old, by, hits,
          applied, down>>

-----------------------------------------------------------------------------
DaemonState == {"off", "start", "owner", "open", "serving", "stopping", "drain", "closing"}
ClientStep == {"idle", "wait", "drained", "ping", "boot", "probe", "try", "held", "spawn",
               "await", "call", "end"}
Told == {"none", "ok", "failed", "rejected", "uncertain", "unknown", "unavailable", "quit"}
HandlerState == {"none", "queued", "look", "claim", "apply", "ok", "failed", "rejected",
                 "uncertain", "done", "refused", "over", "broken"}
Receipt == {"none", "accepted", "completed", "failed"}

Accepting == {"serving", "stopping"}
HasDatabase == {"open", "serving", "stopping", "drain", "closing"}
Ensuring == {"ping", "boot", "probe", "try", "held", "spawn", "await"}
Executing == {"apply", "done", "refused"}
NoHandler == [st |-> "none", at |-> None]
Running == HandlerState \ {"none", "over", "broken"}

Disturb(kind) == /\ kind \in Kinds \ hits /\ Cardinality(hits) < MaxFaults
                 /\ hits' = hits \cup {kind}
Calm == UNCHANGED <<hits, down>>

\* Somebody answers at the socket; nobody listens there.
Answers(d) == sock = d /\ st[d] \in Accepting
Answered == \E d \in Daemons : Answers(d)
Refused == \A d \in Daemons : ~Answers(d)

\* One process may exist already; all are alike.
First == CHOOSE d \in Daemons : TRUE

Init ==
  /\ \E first \in {"off", "start", "serving", "drain"}, stale \in BOOLEAN :
       /\ st = [d \in Daemons |-> IF d = First THEN first ELSE "off"]
       /\ lock = IF first \in HasDatabase THEN First ELSE None
       /\ sock = IF first \in HasDatabase \/ (first = "off" /\ stale) THEN First ELSE None
  /\ boot = None /\ pc = [c \in Clients |-> "idle"]
  /\ rounds = [c \in Clients |-> 0]
  /\ told = [c \in Clients |-> "none"] /\ conn = [c \in Clients |-> 1]
  /\ hd = [c \in Clients |-> [i \in Attempts |-> NoHandler]]
  /\ receipt = [c \in Clients |-> "none"] /\ applied = [c \in Clients |-> 0]
  /\ old = [c \in Clients |-> None] /\ by = [c \in Clients |-> None]
  /\ hits = {} /\ down = FALSE

-----------------------------------------------------------------------------
(* The daemon.                                                             *)

\* What was not accepted when the listener closes, or what a dead process held, is lost.
Break(d, states) ==
  hd' = [c \in Clients |-> [i \in Attempts |->
          IF hd[c][i].at = d /\ hd[c][i].st \in states THEN [hd[c][i] EXCEPT !.st = "broken"]
          ELSE hd[c][i]]]

Become(d, state) == st' = [st EXCEPT ![d] = state]
OnlyDaemon == UNCHANGED <<clientVars, requestVars>> /\ Calm

\* A process that is not referred to any more may get a new life, with a new PID.
Fresh(d) == st[d] = "off" /\ sock # d /\ \A c \in Clients : old[c] # d
Starts == LET d == CHOOSE x \in Daemons : Fresh(x)
          IN (\E x \in Daemons : Fresh(x)) /\ Become(d, "start")

TakeLock(d) ==
  /\ st[d] = "start"
  /\ IF lock = None THEN Become(d, "owner") /\ lock' = d ELSE Become(d, "off") /\ UNCHANGED lock
  /\ UNCHANGED sock /\ OnlyDaemon

\* Only the owner removes what is at the path, then opens the database.
RemoveStale(d) ==
  /\ st[d] = "owner" /\ Become(d, "open") /\ sock' = None
  /\ UNCHANGED lock /\ OnlyDaemon

Listen(d) ==
  /\ st[d] = "open" /\ Become(d, "serving") /\ sock' = d
  /\ UNCHANGED lock /\ OnlyDaemon

\* SIGTERM, or daemon.stop through its handler: the listener is about to close.
Stop(d) ==
  /\ st[d] = "serving" /\ Disturb("stop") /\ Become(d, "stopping") /\ down' = TRUE
  /\ UNCHANGED <<lock, sock, clientVars, requestVars>>

\* Mutant: connections that were not accepted stay open.
LeavesQueued(d) ==
  /\ st[d] = "stopping" /\ Become(d, "drain") /\ UNCHANGED <<lock, sock>> /\ OnlyDaemon

CloseListener(d) ==
  /\ st[d] = "stopping" /\ Become(d, "drain") /\ Break(d, {"queued"})
  /\ UNCHANGED <<lock, sock, clientVars, receipt, applied>> /\ Calm

\* Mutant: nobody waits for the handlers.
LeavesHandlers(d) == TRUE
Drained(d) == \A c \in Clients, i \in Attempts : hd[c][i].at = d => hd[c][i].st \notin Running

\* Mutant: ownership ends before the database is closed.
UnlocksFirst(d) ==
  /\ st[d] = "drain" /\ Drained(d) /\ Become(d, "closing")
  /\ sock' = IF sock = d THEN None ELSE sock
  /\ lock' = None /\ OnlyDaemon

\* Handlers and background work have ended: the daemon removes the socket if it is
\* still its own.
Unlink(d) ==
  /\ st[d] = "drain" /\ Drained(d) /\ Become(d, "closing")
  /\ sock' = IF sock = d THEN None ELSE sock
  /\ UNCHANGED lock /\ OnlyDaemon

\* The database is closed, the lock given back, and the process ends with its connections.
Unlock(d) ==
  /\ st[d] = "closing" /\ Become(d, "off")
  /\ lock' = IF lock = d THEN None ELSE lock
  /\ Break(d, Running) /\ UNCHANGED <<sock, clientVars, receipt, applied>> /\ Calm

Kill(d) ==
  /\ st[d] # "off" /\ Disturb("kill") /\ Become(d, "off") /\ down' = TRUE
  /\ lock' = IF lock = d THEN None ELSE lock
  /\ Break(d, Running)
  /\ UNCHANGED <<sock, clientVars, receipt, applied>>

\* Somebody starts woofd by hand.
StartByHand ==
  /\ Starts /\ Disturb("manual")
  /\ UNCHANGED <<lock, sock, clientVars, requestVars, down>>

-----------------------------------------------------------------------------
(* The handler of attempt i of c's request, as handleConn and Handle run it. *)

Step(c, i, state) == hd' = [hd EXCEPT ![c][i].st = state]
OnlyHandler == UNCHANGED <<daemonVars, clientVars>> /\ Calm

Take(c, i) ==
  /\ hd[c][i].st = "queued" /\ st[hd[c][i].at] \in Accepting /\ Step(c, i, "look")
  /\ OnlyHandler /\ UNCHANGED <<receipt, applied>>

\* receiptResult
answer(r) == CASE r = "completed" -> "ok" [] r = "failed" -> "failed" [] OTHER -> "uncertain"

\* A receipt that exists answers the request.
Look(c, i) ==
  /\ hd[c][i].st = "look"
  /\ Step(c, i, IF receipt[c] = "none" THEN "claim" ELSE answer(receipt[c]))
  /\ OnlyHandler /\ UNCHANGED <<receipt, applied>>

\* Before there is a receipt: the caller or its scope is not accepted any more, Herdr cannot
\* say whose pane it is, or the database does not take the receipt.
Reject(c, i) ==
  /\ hd[c][i].st = "claim" /\ Step(c, i, "rejected")
  /\ OnlyHandler /\ UNCHANGED <<receipt, applied>>

inFlight(c, i) == \E j \in Attempts \ {i} : hd[c][j].at = hd[c][i].at /\ hd[c][j].st \in Executing

\* Mutant: the receipt is not read again.
ClaimsBlindly(c, i) ==
  /\ hd[c][i].st = "claim"
  /\ IF inFlight(c, i) THEN Step(c, i, "uncertain") /\ UNCHANGED receipt
     ELSE receipt' = [receipt EXCEPT ![c] = "accepted"] /\ Step(c, i, "apply")
  /\ OnlyHandler /\ UNCHANGED applied

\* The transaction that accepts the request reads the receipt again.
Claim(c, i) ==
  /\ hd[c][i].st = "claim"
  /\ \/ inFlight(c, i) /\ Step(c, i, "uncertain") /\ UNCHANGED receipt
     \/ /\ ~inFlight(c, i) /\ receipt[c] # "none"
        /\ Step(c, i, answer(receipt[c])) /\ UNCHANGED receipt
     \/ /\ ~inFlight(c, i) /\ receipt[c] = "none"
        /\ receipt' = [receipt EXCEPT ![c] = "accepted"] /\ Step(c, i, "apply")
  /\ OnlyHandler /\ UNCHANGED applied

\* mutate: the request takes effect, or is refused, or nobody can tell. A receipt marked
\* uncertain then is as open as an accepted one.
Apply(c, i) ==
  /\ hd[c][i].st = "apply"
  /\ \/ Step(c, i, "done") /\ applied' = [applied EXCEPT ![c] = @ + 1]
     \/ Step(c, i, "refused") /\ UNCHANGED applied
     \/ Step(c, i, "uncertain") /\ applied' \in {applied, [applied EXCEPT ![c] = @ + 1]}
  /\ OnlyHandler /\ UNCHANGED receipt

Finish(c, i) ==
  /\ hd[c][i].st \in {"done", "refused"}
  /\ LET final == IF hd[c][i].st = "done" THEN "completed" ELSE "failed"
     IN receipt' = [receipt EXCEPT ![c] = final] /\ Step(c, i, answer(final))
  /\ OnlyHandler /\ UNCHANGED applied

Listens(c, i) == pc[c] = "wait" /\ conn[c] = i
Go(c, step) == pc' = [pc EXCEPT ![c] = step]
End(c, what) == Go(c, "end") /\ told' = [told EXCEPT ![c] = what]

\* The answer is written; daemon.stop then closes the listener. To the client "failed" and
\* "rejected" are both an error; the operation row, which the first has, tells them apart.
Respond(c, i) ==
  /\ hd[c][i].st \in {"ok", "failed", "rejected", "uncertain"} /\ Step(c, i, "over")
  /\ LET h == hd[c][i]
         stops == c \in Restarters /\ h.st = "ok" /\ st[h.at] = "serving"
     IN /\ CASE ~Listens(c, i) -> UNCHANGED <<pc, told, old>>
            [] Listens(c, i) /\ c \in Restarters /\ h.st = "ok" ->
                 Go(c, "drained") /\ old' = [old EXCEPT ![c] = h.at] /\ UNCHANGED told
            [] OTHER -> End(c, h.st) /\ UNCHANGED old
        /\ st' = IF stops THEN [st EXCEPT ![h.at] = "stopping"] ELSE st
        /\ down' = (down \/ stops)
  /\ UNCHANGED <<lock, sock, boot, rounds, conn, by, receipt, applied, hits>>

-----------------------------------------------------------------------------
(* The client.                                                             *)

OnlyClient == UNCHANGED <<st, requestVars, by, old>> /\ Calm
Submit(c, i, d) == hd' = [hd EXCEPT ![c][i] = [st |-> "queued", at |-> d]]

\* What c holds goes with it.
Drops(c) == /\ boot' = IF boot = c THEN None ELSE boot
            /\ lock' = IF lock = c THEN None ELSE lock

\* Call and daemonControl: the first attempt.
Send(c) ==
  /\ pc[c] = "idle"
  /\ \/ \E d \in Daemons : Answers(d) /\ Submit(c, 1, d) /\ Go(c, "wait")
     \/ Refused /\ Go(c, IF c \in Restarters THEN "drained" ELSE "ping") /\ UNCHANGED hd
  /\ UNCHANGED <<daemonVars, boot, rounds, told, conn, old, by, receipt, applied>> /\ Calm

\* Mutant: a connection that is lost counts as never made.
LostIsUnavailable(c) ==
  /\ pc[c] = "wait" /\ hd[c][conn[c]].st = "broken" /\ End(c, "unavailable")
  /\ UNCHANGED <<lock, sock, boot, rounds, conn>> /\ OnlyClient

\* The connection is gone without an answer: outcome_unknown.
Lost(c) ==
  /\ pc[c] = "wait" /\ hd[c][conn[c]].st = "broken" /\ End(c, "unknown")
  /\ UNCHANGED <<lock, sock, boot, rounds, conn>> /\ OnlyClient

\* waitDaemonDrain: nobody answers, or somebody else than the one that was stopped.
Gone(c) == Refused \/ \E d \in Daemons : Answers(d) /\ old[c] # None /\ old[c] # d
WaitDrain(c) ==
  /\ pc[c] = "drained" /\ Gone(c) /\ Go(c, "ping")
  /\ UNCHANGED <<lock, sock, boot, rounds, told, conn>> /\ OnlyClient

\* EnsureDaemon has found a daemon.
Ensured(c) ==
  /\ Go(c, "call") /\ rounds' = [rounds EXCEPT ![c] = @ + 1]
  /\ boot' = IF boot = c THEN None ELSE boot

Ping(c) ==
  /\ pc[c] = "ping"
  /\ \/ Answered /\ Ensured(c)
     \/ Refused /\ Go(c, "boot") /\ UNCHANGED <<rounds, boot>>
  /\ UNCHANGED <<lock, sock, told, conn>> /\ OnlyClient

LockBootstrap(c) ==
  /\ pc[c] = "boot" /\ boot = None /\ boot' = c /\ Go(c, "probe")
  /\ UNCHANGED <<lock, sock, rounds, told, conn>> /\ OnlyClient

\* waitOwnership: ping, then try the ownership lock, and give it back at once.
Probe(c) ==
  /\ pc[c] = "probe"
  /\ \/ Answered /\ Ensured(c)
     \/ Refused /\ Go(c, "try") /\ UNCHANGED <<rounds, boot>>
  /\ UNCHANGED <<lock, sock, told, conn>> /\ OnlyClient

\* Mutant: a daemon that does not answer is taken to be gone.
TrustsSilence(c) ==
  /\ pc[c] = "try" /\ Go(c, "spawn") /\ UNCHANGED lock
  /\ UNCHANGED <<sock, boot, rounds, told, conn>> /\ OnlyClient

TryLock(c) ==
  /\ pc[c] = "try"
  /\ IF lock = None THEN lock' = c /\ Go(c, "held") ELSE Go(c, "probe") /\ UNCHANGED lock
  /\ UNCHANGED <<sock, boot, rounds, told, conn>> /\ OnlyClient

ReleaseLock(c) ==
  /\ pc[c] = "held" /\ lock' = None /\ Go(c, "spawn")
  /\ UNCHANGED <<sock, boot, rounds, told, conn>> /\ OnlyClient

Spawn(c) ==
  /\ pc[c] = "spawn" /\ Starts /\ Go(c, "await")
  /\ UNCHANGED <<lock, sock, boot, rounds, told, conn, requestVars, by, old>> /\ Calm

Await(c) ==
  /\ pc[c] = "await" /\ Answered /\ Ensured(c)
  /\ UNCHANGED <<lock, sock, told, conn>> /\ OnlyClient

\* A caller sends its request, with the same ID, once more; a restarter asks for the
\* status, and may ensure a daemon once more for that.
Resend(c) ==
  /\ pc[c] = "call" /\ c \in Callers
  /\ \/ \E d \in Daemons : Answers(d) /\ Submit(c, 1, d) /\ Go(c, "wait") /\ UNCHANGED told
     \/ Refused /\ End(c, "unavailable") /\ UNCHANGED hd
  /\ UNCHANGED <<daemonVars, boot, rounds, conn, old, by, receipt, applied>> /\ Calm

Status(c) ==
  /\ pc[c] = "call" /\ c \in Restarters
  /\ \/ \E d \in Daemons : Answers(d) /\ by' = [by EXCEPT ![c] = d] /\ End(c, "ok")
     \/ Refused /\ rounds[c] = 1 /\ Go(c, "ping") /\ UNCHANGED <<by, told>>
     \/ Refused /\ rounds[c] > 1 /\ End(c, "unavailable") /\ UNCHANGED by
  /\ UNCHANGED <<daemonVars, boot, rounds, conn, old, requestVars>> /\ Calm

\* The limits of eight and fifteen seconds.
Expire(c) ==
  /\ End(c, "unavailable") /\ Drops(c)
  /\ UNCHANGED <<st, sock, rounds, conn, requestVars, by, old, down>>

TimeOut(c) == pc[c] \in Ensuring \cup {"drained"} /\ Disturb("timeout") /\ Expire(c)

\* What c waits for does not come: no process is left that might answer, or one
\* answers that nobody has stopped.
GiveUp(c) ==
  /\ \/ pc[c] = "await" /\ \A d \in Daemons : st[d] = "off"
     \/ pc[c] = "drained" /\ old[c] = None /\ Answered
  /\ UNCHANGED hits /\ Expire(c)

\* The client is interrupted.
Quit(c) ==
  /\ pc[c] \notin {"idle", "end"} /\ Disturb("quit") /\ End(c, "quit") /\ Drops(c)
  /\ UNCHANGED <<st, sock, rounds, conn, requestVars, by, old, down>>

\* The connection breaks; the daemon goes on with the request.
Cut(c) ==
  /\ pc[c] = "wait" /\ Disturb("cut") /\ End(c, "unknown")
  /\ UNCHANGED <<daemonVars, boot, rounds, conn, old, by, requestVars, down>>

\* Somebody sends a request whose outcome is unknown again, under its ID.
Repeat(c) ==
  /\ c \in Callers /\ told[c] = "unknown" /\ conn[c] = 1 /\ Disturb("repeat")
  /\ \E d \in Daemons : Answers(d) /\ Submit(c, 2, d)
  /\ Go(c, "wait") /\ told' = [told EXCEPT ![c] = "none"] /\ conn' = [conn EXCEPT ![c] = 2]
  /\ UNCHANGED <<daemonVars, boot, rounds, old, by, receipt, applied, down>>

-----------------------------------------------------------------------------
Starting(d) == TakeLock(d) \/ RemoveStale(d) \/ Listen(d)
Ending(d) == CloseListener(d) \/ Unlink(d) \/ Unlock(d)
Handle(c, i) == \/ Take(c, i) \/ Look(c, i) \/ Reject(c, i) \/ Claim(c, i) \/ Apply(c, i)
                \/ Finish(c, i) \/ Respond(c, i)
Client(c) == \/ Lost(c) \/ WaitDrain(c) \/ Ping(c) \/ LockBootstrap(c) \/ Probe(c)
             \/ TryLock(c) \/ ReleaseLock(c) \/ Spawn(c) \/ Await(c) \/ Resend(c)
             \/ Status(c) \/ GiveUp(c)

Next ==
  \/ \E d \in Daemons : Starting(d) \/ Ending(d) \/ Stop(d) \/ Kill(d)
  \/ StartByHand
  \/ \E c \in Clients, i \in Attempts : Handle(c, i)
  \/ \E c \in Clients : Send(c) \/ Client(c) \/ TimeOut(c) \/ Quit(c) \/ Cut(c) \/ Repeat(c)

Spec == Init /\ [][Next]_vars

\* Processes run. Nothing is assumed of people and faults.
Fairness == /\ \A d \in Daemons : WF_vars(Starting(d)) /\ WF_vars(Ending(d))
            /\ \A c \in Clients : WF_vars(Client(c))
            /\ \A c \in Clients, i \in Attempts : WF_vars(Handle(c, i))
FairSpec == Spec /\ Fairness

-----------------------------------------------------------------------------
(* Properties                                                              *)

Handlers == [Clients -> [Attempts -> [st: HandlerState, at: Daemons \cup {None}]]]

TypeOK ==
  /\ st \in [Daemons -> DaemonState]
  /\ lock \in Daemons \cup Clients \cup {None} /\ sock \in Daemons \cup {None}
  /\ boot \in Clients \cup {None} /\ pc \in [Clients -> ClientStep]
  /\ rounds \in [Clients -> Nat] /\ told \in [Clients -> Told] /\ conn \in [Clients -> Attempts]
  /\ hd \in Handlers
  /\ receipt \in [Clients -> Receipt] /\ applied \in [Clients -> Nat]
  /\ old \in [Clients -> Daemons \cup {None}] /\ by \in [Clients -> Daemons \cup {None}]
  /\ hits \subseteq Kinds /\ down \in BOOLEAN

\* server.go: "a second process never opens or migrates the canonical DB", also while
\* the first one drains, and whoever else probes the lock; and the path names the
\* daemon that serves: none that starts or ends takes away the socket of a live one, so
\* that clients would find nobody and the lock taken.
OneOwner ==
  /\ \A d, x \in Daemons : st[d] \in HasDatabase /\ st[x] \in HasDatabase => d = x
  /\ \A d \in Daemons : st[d] \in Accepting => sock = d

\* A request takes effect at most once, also when it is repeated while its first
\* handler is still at work, and across restarts.
AppliedOnce == \A c \in Clients : applied[c] <= 1

\* What the client reports is true for good: "ok" took effect; "failed", "rejected" and
\* "unavailable" did not, and no handler is left that still could make it. Only one
\* rejection says nothing of the request: that of a repeat whose first send was cut off,
\* since that send may still be on its way. The status a restart reports is not that of
\* the daemon it stopped (README: "restart waits for drain before bootstrapping").
AnswersAreTrue ==
  /\ \A c \in Callers :
       LET states == {hd[c][i].st : i \in Attempts}
       IN /\ told[c] = "ok" => applied[c] = 1
          /\ told[c] = "failed" =>
               applied[c] = 0 /\ receipt[c] = "failed" /\ states \cap Executing = {}
          /\ told[c] = "rejected" =>
               \/ applied[c] = 0 /\ receipt[c] = "none" /\ states \cap Running = {}
               \/ conn[c] = 2 /\ "cut" \in hits
          /\ told[c] = "unavailable" => applied[c] = 0 /\ states \cap Running = {}
  /\ \A c \in Restarters : told[c] = "ok" => by[c] # old[c]

\* README: "Stop drains Woof RPC": while nobody is killed and no connection is cut, the
\* client of a request that took effect hears of it.
DrainLosesNothing ==
  \A c \in Clients :
    told[c] = "unknown" /\ applied[c] > 0 => hits \cap {"kill", "cut"} # {}

\* Starting clients, their probes of the lock and daemons started by hand do not defeat
\* each other: a caller ends without a daemon only if one was stopped or killed
\* meanwhile, or time ran out.
NotDefeated ==
  \A c \in Callers : told[c] = "unavailable" => down \/ "timeout" \in hits

\* A client that began comes to an end.
CallEnds == \A c \in Clients : pc[c] # "idle" ~> pc[c] = "end"
=============================================================================
