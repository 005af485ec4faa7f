# Specifications of Woof

Woof (`woofd`, `woof`) hands work to coding agents that run in Herdr panes. One daemon per
machine owns a SQLite database; everything it promises — a prompt typed at most once, a
dispatch settled only on evidence, mail that is delivered and not repeated — has to hold
while clients retry, agents act on their own, Herdr restarts and the daemon dies. This
directory holds TLA+ models of those protocols, the TLC configurations that check them, and
TLAPS proofs.

1. [The system](#1-the-system) — inventory: parts, state, operations, what is hard
2. [The modules](#2-the-modules) — what models what, and how it corresponds to the code
3. [The runs](#3-the-runs) — what each shows, bounds, fairness
4. [The proofs](#4-the-proofs)
5. [Disagreements found](#5-disagreements-found)
6. [What is not modelled](#6-what-is-not-modelled)
7. [The plan](#7-the-plan)

Paths are relative to `src/internal/` unless they say otherwise. `PROJECT.json` maps every
definition to its source lines and lists the hazards with the properties that cover them.

## 1. The system

### How the parts interact

Clients (the command line, the terminal interface, agents that call `woof done`) send one
request per connection over a Unix socket. `Engine.Handle` (`daemon/core.go`) writes a
receipt for a mutation before it runs the handler. All writes go through `Engine.write`,
which holds one mutex around one SQLite transaction and then publishes the committed events
to the hub; so **a transaction is the unit of atomicity**, and everything between two
transactions — a call to Herdr, a read, the gap between a check and the transaction that
relies on it — is a place where something else can happen.

Two kinds of lanes order work. The **worker lane**, a mutex per worker, is held by a
dispatch, by `processInbox`, and by release, stop, retain and adopt, over their external
calls. The **session lane** (`refreshSession`, `sessionEvent`, `offlineSession`) is held
while an agent is sampled with `agent.get` and the sample applied. The two exclude nothing
of each other; `done`, `fail`, `ack`, `send` and `operation.resolve` hold no lane at all.
Goroutines, lanes, subscriptions and the `inFlight` set die with the daemon; rows do not.

Herdr is outside: it types text into panes (`agent.prompt`), says what an agent does
(`agent.get`: status, a sequence that grows with each change, a completion counter that some
agents do not have) and streams lifecycle events, which only hint that there is something to
sample. Its calls can be refused, or lost with unknown effect.

### Inventory

| Component | State | Operations | What is hard | What makes it correct |
|---|---|---|---|---|
| dispatch (`daemon/dispatch.go`) | `dispatches`, `runs` of ad hoc dispatches | dispatch, done, fail, nudge, `observeWorker` | the prompt is outside every transaction; report and turn end come in any order from handlers without a common lane; results arrive after the dispatch ended | one active dispatch per worker; a prompt at most once and never denied; settled only on report and own turn end; terminal rows never change |
| mailbox (`daemon/messaging.go`, `inbox_recovery.go`) | `messages`, `deliveries`, a receipt per wake attempt | send, ask, reply, ack, consume, `processInbox`, `observeDeliveriesTx`, read recovery | four writers of one delivery in any order; crash between intent and result; lost triggers | typed at most once; one unresolved prompt in the agent; receipt and wake agree; nothing seen is unseen; no message waits for ever |
| receipts (`daemon/core.go`, `mutations.go`) | `operations`, `inFlight` | acceptance, replay of a receipt, conflict, `operation.resolve` | a repeat while the first is running; check and transaction apart | a request ID takes effect once; a final receipt stays |
| attachment (`daemon/attachment.go`) | binding fields of `workers`, `held` | verification, native continuity, recovery hold | evidence of one process or pane applied to another | evidence counts only for the binding it was sampled on |
| sessions (`daemon/sessions.go`) | `sessions`, `workspaces`, `worktrees`, the subscription and what it is ready for | refresh, sample on event, reconnect, offline | a refresh and a stream of an older generation at once; a sample in hand while the binding changes | nothing is sent before the subscription is ready; what the agent does is eventually seen |
| worker lifecycle (`daemon/workers.go`) | `workers`, leases on worktrees | spawn, adopt, retain, release, stop, retire | whole rows written back after external calls; pane references that move and are used again; a launch or a close whose answer is lost | an agent belongs to one worker; released means gone; failed means it never ran; only the own pane is closed |
| journal (`daemon/hub.go`, `events.go`, `store`) | `events`, subscriber buffers | publish, follow, wait, question's wait | buffer overflow; commits between read and wait; a daemon that dies between commit and publication | every follower sees each event once, in order; a wait takes the first |
| scheduler (`daemon/schedule.go`, `schedule/`) | `schedules`, `schedule_runs` | add, enable, disable, remove, run by hand, claim, execute, recover | claim, submit and record are three transactions; restarts; settlement before the dispatch ID is known | an occurrence is claimed once, submitted at most once, and ends |
| watchdog (`daemon/watchdog.go`) | alert marks, block episodes | tick, escalate, fallback to the human | retries of half-done escalations; two paths to the human | one alert per episode and reason; never silent |
| schedule arithmetic (`schedule/`) | — | fields, next occurrence, what is due | clocks that skip and repeat, months of uneven length, long outages, the width of durations | the first occurrence after an instant; all that are due, counted |
| ownership (`daemon/server.go`, `client/client.go`, `rpc`, `cli/execute.go`) | lock file, socket, `bootstrap.lock`, the operation rows | start, drain, stop, restart, ensure, call with one retry | several clients start a daemon while an old one drains; lost answers; processes killed between any two steps | one owner of the database; no request executed twice; true answers |
| terminal interface (`tui/backend.go`, `tui/model.go`) | snapshot, cursor, readiness | load, follow, refresh | a load that runs while the stream breaks | stale rows are never acted on; the screen catches up |
| store (`store/`) | the database | transactions, cursors | — | assumed: atomic, durable transactions |
| the rest | — | prompt text, artifacts, profiles, OS identity and notifications, argument parsing, forms and rendering | — | pure functions, file reads and presentation |

## 2. The modules

| Module | What it is |
|---|---|
| `Settlement` | the abstract promise: jobs of one worker, open one at a time, closed on two halves of evidence or failed, never reopened |
| `Dispatch` | the dispatch protocol in full; carries the refinement mapping to `Settlement` |
| `DispatchProofs` | type correctness, the inductive invariant `IInv`, five safety theorems, that `Dispatch` implements `Settlement`; turn ends on record are real; what a dispatch settles on and beside |
| `MCDispatch` | TLC definitions for `Dispatch` (symmetry of requests) |
| `Inbox` | the mailbox of one worker, and a dispatch as a competitor for the agent |
| `InboxProofs` | type correctness, the inductive invariants, and what wakes and their receipts say |
| `MCInbox` | TLC module for `Inbox` |
| `Occurrences` | the abstract promise of a schedule: an occurrence waits, is submitted once or given up, and never waits again |
| `Scheduler` | one schedule, its occurrences and their attempts; carries the refinement mapping to `Occurrences` |
| `SchedulerProofs` | type correctness, the inductive invariant, five safety theorems, and that `Scheduler` implements `Occurrences`; that `Intervals` is right, for all integers |
| `MCScheduler` | TLC module for `Scheduler` |
| `Intervals` | the arithmetic of `@every` |
| `Cron` | fields of cron expressions, wall clocks, the search for occurrences |
| `CronProofs` | that `Cron` computes what it is meant to, in every calendar, zone and expression |
| `MCArithmetic` | named assumptions in which TLC compares `Cron` and `Intervals` with their definitions |
| `MCOccurrences` | TLC module for `Scheduler` together with `MCArithmetic` |
| `Service` | daemons, clients, the lock, the socket and the receipts of requests |
| `ServiceProofs` | type correctness, one owner, one effect, and that clients are told the truth |
| `MCService` | TLC module for `Service` |
| `Journal` | the abstract promise of reading events: every later event once, in order |
| `EventStream` | journal, hub, the handlers that read and the clients that reconnect; carries the refinement mapping to `Journal` |
| `View` | the terminal interface, composed with `EventStream` |
| `ViewProofs` | that `EventStream` implements `Journal`, and what the screen shows and allows |
| `MCView` | TLC module for `View` |
| `BlockedAlerts` | the watchdog's reports of a blocked worker |
| `AlertProofs` | that alerts are not repeated and are true when they are sent |
| `MCBlockedAlerts` | TLC module for `BlockedAlerts` |
| `Lifecycle` | workers come and go: spawn, adopt, release and stop, retirement, resolution of launches |
| `LifecycleProofs` | type correctness, released workers stay gone, failed launches never ran, releases close their own pane, what is over stays over, agents belong to one worker |
| `MCLifecycle` | TLC definitions for `Lifecycle` (symmetry of requests, workers and panes) |

### Dispatch

One worker. Each request of `Requests` has its own stable request ID. A handler is a program
counter `pc[r]` and walks through `dispatch` as the code does: `TakeLane` (lane, row,
subscription), `Probe` (agent.get: the baselines), `Intent` (row, run and preconditions in one
transaction), `Prompt` (agent.prompt: accepted, refused or lost), `Result`. `Refuse` collects
the early returns, all of which come after `lane.Lock`: until the lane is free, a waiting handler has
no step at all, not even a refusal. `End` writes the receipt, `Accept` begins with `Handle`'s lookup.

| Variable | In the code |
|---|---|
| `disp`, `run`, `op` | the `dispatches` row, its run, the `operations` row of each request |
| `w` | the `workers` row: attachment, process (`inc`), conversation (`conv`), `state`, `raw`, sequences, `held` |
| `ready`, `online`, `notify` | `sessionRuntime.readyAttachments`, the event stream, a lifecycle event in it |
| `obs` | what the session lane read and is about to apply: sample and application are two steps |
| `pc`, `snap`, `answer`, `lane` | the locals of handlers that hold the lane: lost in a crash |
| `cleared` | `operation.resolve`s between their look at `inFlight` and their transaction |
| `agent`, `turn`, `queue` | the agent and Herdr |
| `landed`, `ownEnded`, `intruded`, `turnOver` | history for the properties |

`observeWorker` is `DropSample`, `Lose`, `Unverified` and `Observe`, the outcomes of one
transaction; `Observe` is the whole of it: the continuity decision, a new attachment where
counters went back or the agent was replaced, the fence of the old one's dispatches, work and
turn-end evidence, and settlement. `Done`, `Fail` and `Resolve` are one transaction each, and
release, stop, adopt and retain are split where the code leaves the database. `AgentStatus`
"idle" stands for idle and done, which the code treats alike (`idle`); "released" for released,
stopped and failed. The status "cancelled" exists in the data model and nothing sets it.

`Sessions` says whether the worker's agent reports a native session (1), by which a conversation
is recognised after a restart, or not (0); a behaviour picks one.

Things that may go wrong or are done from outside are **disturbances**: a step of kind `k` needs
`k \in Kinds` and costs one of `MaxFaults`.

### Inbox

The mailbox of one worker. `processInbox` is entered (`Enter`) by a background call (`kicks`)
or by the watchdog's read recovery (`recovering`), takes the lane, and runs through
`HoldBack`/`Pick`/`NothingToDo` (everything decided from the database), `Probe`/`ProbeHeld`
(agent.get and agent.read), `Intent`/`IntentGivenUp`, `Prompt` and `Result`. Between any two
come `Ack` (ack, consume, and the reply to a question), `Resolve`, `Observe`
(`observeDeliveriesTx` as part of the observation transaction, and the trigger that follows
it), `Rebind` (adoption, release) and `Crash`.

A delivery is `status` (what the recipient has seen), `wake` (what became of the notice), and
the attempt with its baselines. `receipt[d]` is the operation row of the latest attempt. The
competing dispatch is one abstract `task`: taking the lane, the checks and the prompt are one
step, which is what `processInbox` can see of it, since it holds the same lane; `Dispatch` has
the detail. `unread` is the hold reason that makes a delivery eligible for read recovery; no
other reason is told apart. The recovery's throttle of one second is left out (it only delays).

### Scheduler

One schedule of one worker. The series is the integers 1 to `Last`, and `clock` counts in the
same unit, so "due", "missed" and "no future occurrence" keep their meaning and the arithmetic
of cron fields stays out. `claimDue` is the claiming transaction with everything in it: the
advance (which may end the series and cancel what waits), the missed row, the overlap, the new
row. `Look` is `scheduleOnce` starting `executeRun`, and the rows that goroutine reads before
its first transaction; `pc[k]` says where it stands. `Attempt`, `Refuse`/`Intent`, `Prompt`,
`Result` and `settleAttempt` are its transactions and calls, the middle four being `dispatch`
as the scheduler sees it. A dispatch is its status and `seen`, whether the row shows evidence of
work, a report or a turn end. `Settles`, `Fail`, `TargetGone` and `Resolve` end dispatches and
carry `syncScheduleRunTx` in the same step; a result that refuses the prompt does not, because
`dispatch` does not call it there. `recoverRuns` runs for attempts whose goroutine is gone.

Abstracted: the backoff and the kicks of the loop (a retry may start at any time, so every
timing of them is included); other schedules and other dispatches of the worker (a refusal of
kind "busy" stands for them); evidence comes only from a prompt that landed (`Dispatch` shows
when it does not). A `Due` that counts nothing although the next occurrence has passed, which
needs a changed time zone database, is left out.

### Schedule arithmetic

`Intervals` is `nextEvery` and `dueEvery`, with the width of a duration as a constant. `Cron` is the
rest of `schedule/`: an expression is a set of items per field (its text stays outside), a zone is a
sequence of periods with an offset each, and the calendar — the lengths of minute, hour, day, week,
and the first day of every month — is a parameter. `next`, `Next`, `latest` and `Due` follow the
code's loops as recursive functions. `MCArithmetic` instantiates them with days of two hours of two
minutes, months of two and three days, and clocks that go an hour forward and back, half a minute
forward and a day back, and states as assumptions what they must compute: `resolve` is the earliest
instant whose wall clock has reached a time; `Next` the first of all such instants; `Due` all of a
span, also when the limit is reached and the latest is found by bisection; a field that is accepted
is not empty. The same assumptions say that this calendar, these zones, expressions and spans are such as
`CronProofs` is about. TLC evaluates them whenever the run `occurrences` starts. Whether a day matches is
taken from the code in both, and parts of a second are left out.

### Service

`st[d]` says where `Run` of a daemon process stands: it takes the lock, removes a stale socket, opens
the database, serves, and on SIGTERM or `daemon.stop` closes the listener, drains its handlers,
removes the socket if it is its own, closes the database and gives the lock back. `pc[c]` says where
a client stands in `Call`, `EnsureDaemon` (ping, `bootstrap.lock`, the probe of ownership, which holds
the lock for a moment and makes a daemon that starts just then fail) and `restart`. `hd[c][i]` is the
handler of a request or of its repetition under the same ID: queued in the listener, taken, the look
at the receipt, acceptance, the effect, the final receipt, the answer. Between the look and the
acceptance it may be rejected (`Reject`: the caller, the scope, Herdr's say on whose pane it is, or a
transaction that fails) and leaves no receipt; what is wrong with the request itself (its protocol, its
arguments) is refused before the look, and requests here are well-formed. Killing a process at any
step, cutting a connection, interrupting a client and repeating a request are disturbances.

A process that nothing refers to any more may be started anew, so a few daemons stand for any number
of them. Errors of the file system other than a lock that is taken end a process as a kill does.

### EventStream and View

The journal is a sequence of events, "mine" when the reader's scope and types match. `Commit` appends
one or two, `Publish` hints to the subscription, and closes it when its buffer is full; a daemon
that dies in between publishes nothing. A handler subscribes, reads pages from its cursor, waits for a
hint and reads again; the role of the reader is chosen in `Init`: a follower, `wait`, the wait of a
question, or the screen. `View` adds the load (first the end of the journal, then the rows), the
follower that begins there, and the update loop with its queue; `connected` stands for
the comparison of connection epochs. All of them run concurrently.

### BlockedAlerts

The row of a worker with its block episode (`blockedAt`, `alertedAt`, whether the human was told), the
alerts that were sent, and the watchdog tick as the steps it consists of: listing workers, one
transaction per blocked worker, listing unreached deliveries, one transaction each. Observations,
adoption, and commands that read the row and write it back later (`retain`, `release`) interleave.
Time is only "long enough ago", for the block and for the first alert.

### Lifecycle

Several workers, several panes. A pane is a reference of Herdr: it can be moved, and its name
is used again. The terminal in it and the process of an agent are numbered as they begin and never
come back, like terminal IDs and process births.

| Variable | In the code |
|---|---|
| `pane`, `fg`, `name`, `alive` | Herdr and the operating system: the terminal of a pane, the process in front of a terminal, its agent name, whether it runs |
| `late` | launch commands that nobody waits for any more |
| `row` | `workers`: state, pane, terminal, process, agent name, `AttachmentID`, last operation |
| `op`, `h`, `lane` | receipts, the locals and position of each handler, worker lanes |
| `obs` | what the session lane sampled and is about to apply |
| `cleared` | `operation.resolve`s between their look at `inFlight` and their transaction |
| `moved`, `stale`, `overlapped`, `resolved` | history for the properties |

A spawn is accepted (`Spawn`, `SpawnInPane`), records its intent (`Record`), opens a tab (`NewTab`), writes the new pane
(`Route`), waits for the shell, starts the agent, confirms it by name and terminal, captures the
process and commits; `launchFailure` decides whether the row has failed or stays uncertain. An
adoption looks, captures and commits; a release inspects, checks everything again, closes the pane,
signals the process, verifies that both are gone and seals, or retires a worker that is found
absent. What one check reads of Herdr is one step, a transaction is one step, and between the steps
of a handler the session lane, people and the other handlers go on. A behaviour begins with nothing,
or with one worker that was launched before and has its agent. `operation.resolve` looks at `inFlight`
(`ResolveLooks`) before its transaction (`Resolve`, `ResolveRejected`), so a launch that is accepted in
between is resolved while it runs; the launch goes on, writes its row, and leaves the final receipt
(`FinishTx`). Agents have no native session here:
the process is the evidence (`Dispatch` has the other case). Busy workers, Git and archive checks of
a release are refusals, which `Recheck` may always give.

## 3. The runs

All runs check for everything the cfg names; none checks for deadlock, because the system may
come to rest and because the bounds stop turns and disturbances, which is not a deadlock of the
program.

| Run | Instance | Shows |
|---|---|---|
| `single` | 1 request, a worker with or without a native session, every kind but two, 2 disturbances or 1 of six kinds | the prompt lands once (`PromptAtMostOnce`) and is not denied (`PromptAccounted`); a failed receipt frees the worker (`FailedReceiptFreesWorker`); settlement on the own turn unless another intruded (`SettledOnOwnTurn`), on current evidence (`SettlesOnCurrentEvidence`); no turn end is recorded that did not happen (`TurnEvidenceIsReal`) |
| `pair` | 2 requests (symmetric), adopt, overtake, crash | `OneActiveDispatch`; `ImplementsSettlement`, the refinement |
| `live` | 1 request, a worker with or without a native session, 1 disturbance of 11 kinds, fairness | reported and ended dispatches settle (`ReportedTurnSettles`); accepted requests are answered, also those that wait for the lane behind an adoption (`AcceptedIsAnswered`) |
| `mail` | 2 messages and 1 disturbance, or 1 message and 2, every kind, fairness | a notice is typed once (`WokenAtMostOnce`); prompts never overlap (`OneUnresolvedPrompt`); receipt and wake agree (`ReceiptTellsWake`); a wake ends on its own turn (`WakeEndsOnOwnTurn`); no message waits for ever (`QueuedIsWoken`) |
| `occurrences` | 3 occurrences, 1 run by hand, both missed policies, clock set back, 2 disturbances | `OneOutstanding`, `OccurrencesAccounted` (none lost or counted twice), `ImplementsOccurrences`; and the assumptions of `MCArithmetic` |
| `attempts` | 2 occurrences, 1 run by hand, messages and dispatches, 16 kinds, 2 disturbances, fairness | `SubmittedOnce`, `RunTellsDispatch`, `ReceiptIsEvidence`, `OutstandingEnds` |
| `service` | a caller with a mutation, a client that restarts the daemon, up to 3 daemons at once, 2 disturbances of 7 kinds, fairness | one owner, whom the socket names (`OneOwner`); one effect (`AppliedOnce`); what a client reports is true, save the rejection of a repeated request whose first send was cut off (`AnswersAreTrue`, section 5); a drain loses nothing (`DrainLosesNothing`); callers, their probes of the lock and daemons started by hand do not defeat each other: a caller ends without a daemon only if one was stopped or killed meanwhile or time ran out (`NotDefeated`); a call ends (`CallEnds`) |
| `events` | each role, 3 events, buffer 1, pages of 2, 2 disturbances, fairness | `ImplementsJournal`, the refinement: nothing skipped or repeated; the screen misses nothing (`NothingUnseen`), acts on nothing stale (`ReadyIsConnected`), and everybody catches up (`CatchesUp`) |
| `alerts` | 2 block episodes, each kind once, 2 disturbances, fairness | one alert per episode and addressee (`NoRepeats`), of what is so when it is said (`ReportsThePresent`); a lasting block is told to the human (`BlockIsTold`) |
| `workers` | 2 requests, 2 workers, 2 panes, 3 terminals, 3 agents, 11 kinds, 2 disturbances | an agent belongs to one worker (`OneWorkerPerAgent`); a released worker's agent and terminal are gone (`ReleasedIsGone`); a failed launch never ran and never will (`FailedNeverRan`); a release closes its own pane (`ClosesOwn`); what is over comes back only by adoption (`FinalIsFinal`); the first and the last except workers adopted or declared failed while their launch runs |
| `removed` | 1 occurrence, remove and busy | counterexample, see section 5 |
| `moved` | 2 requests, 2 workers, 2 panes, one move | counterexample, see section 5 |

**Bounds.** `MaxFaults` bounds disturbances; in `Inbox`, `MaxEvents` bounds messages and
disturbances together. Kinds in `Alone` happen alone or not at all: `single` combines what
changes the binding or cuts a call off (a foreign turn, a replaced or closed agent, outage,
release, adoption, retention, crash) in pairs, and leaves alone what changes only what a sample
shows; in `mail` what only delays a message (a draft, an unreadable screen, an outage) or ends
its worker comes alone. `MaxSeq` (Dispatch) the sequence from which no
turn begins, `MaxKicks` (Inbox) the triggers told apart while they wait. Two disturbances
reach what needs a coincidence (a lost answer and a crash, a re-adoption during an outage);
`MaxSeq = 4` leaves room for one turn of the dispatch and a second, foreign one. One request
is enough for what a handler, its observers and its resolvers do to each other, two for
competition: the code compares a dispatch with the other rows of the worker pairwise. In
`Inbox` every kind may happen once and `MaxKicks = 1`: a call that waits for the lane sees the
database as it is when it enters, so a second waiting call matters only for what changes
without a trigger of its own. Fewer calls make `QueuedIsWoken` harder to satisfy. In
`Scheduler`, three occurrences are one that is outstanding, one that overlaps it and the end of
the series; with the clock set back and the schedule enabled again the series returns to
occurrences it has rows for. `DueLimit` is reached in `attempts` and out of reach in
`occurrences`, whose accounting property speaks of uncapped counts. In `Service`, three daemons are
one that drains, one that starts and one more that is started by hand or in place of one that was
killed; a caller and a restarter are the two ways a daemon comes about, and they compete for the
lock, the socket and `bootstrap.lock`. In `EventStream`, a buffer of one event and commits of two
overflow at once and three events are more than a page. In `BlockedAlerts`, the second episode is
the one that a record of the first may hide. In `Lifecycle`, two requests are
any two of spawn, adopt and release, of one worker or of two: the code compares a row with the others
pairwise. Two panes are one that is left and one that is moved to, and three terminals are enough for
a reference to be used again twice, or once by a launch and once by a person. Panes, workers and
requests are interchangeable. Every kind of disturbance happens once at most. The proofs of section 4 need none of these bounds.

**Fairness.** `Dispatch`: a followed stream delivers its event, a sample in hand is applied, a
refresh is retried until the subscription is ready (`reconnectSession`), a broken stream is
noticed, held workers are read again by the watchdog tick, handlers and lifecycle operations in
the lane go on, and an agent that works comes to the end of its turn. Nothing is assumed of
people, clients or faults. A handler that waits for the lane goes on only when the lane is free:
`AcceptedIsAnswered` depends on every holder giving it back. Weak fairness is enough for that: within
the bounds only finitely many others take the lane first, and in the code a `sync.Mutex` does not
starve who waits. The `live` run leaves out release, retain and forget: a release whose close is
uncertain leaves the row offline with nothing that refreshes the session, so a dispatch with both
halves of the evidence waits for an unrelated event there (listed under hazards). `Inbox`: the same for the lane, the session and the watchdog; a prompt that was typed
begins, and its turn ends. `Scheduler`: the loop, which never sleeps longer than thirty
seconds, claims and recovers, and a goroutine it started runs to its end. Nothing is assumed of
people, of the target or of the end of dispatches: `OutstandingEnds` speaks of a target that
can be reached and is not busy. `Service`: daemon and client processes and handlers run; their
deadlines are disturbances. `EventStream` and `View`: the goroutines of daemon, client and screen
run; nothing is assumed of writers. `BlockedAlerts`: the watchdog ticks and time passes; nothing is
assumed of the agent, the requester or commands.

**What `QueuedIsWoken` leaves out.** A lane occupied by a wake that no agent will ever begin
(a lost prompt, or one acknowledged while its refusal was on the way) waits for a person; that
is `Stuck`. And five events leave a queued message waiting for the next lifecycle event because
nothing triggers `processInbox` again (`NotRetried`): a refused prompt, a draft on the screen,
an acknowledgment that races the pick (the call returns without going on to the next message),
a wake resolved by hand, a dispatch failed by hand. Without them, no message waits for ever.

Every property has a mutant in the same module — a dropped check, a stale baseline, a result
that overwrites — under which its run fails; they stand beside the definitions they change.

## 4. The proofs

Every theorem is proved for any values of the constants, from the named assumptions on them
alone: any number of requests, deliveries, occurrences, workers, clients and daemons, any disturbances and any number
of them, with or without a native session, any width of a duration, any calendar and zone.

| Module | Theorem | Statement |
|---|---|---|
| `DispatchProofs` | `TypeCorrect` | `Spec => []TypeOK` |
| | `Invariance` | `Spec => []IInv` |
| | `OneActive` | `Spec => []OneActiveDispatch` |
| | `PromptOnce` | `Spec => []PromptAtMostOnce` |
| | `PromptOnRecord` | `Spec => []PromptAccounted` |
| | `RunClosesWithDispatch` | `Spec => []RunFollowsDispatch` |
| | `FailureFreesWorker` | `Spec => []FailedReceiptFreesWorker` if `"overtake" \notin Kinds` |
| | `TerminalFinal` | `Spec => TerminalIsFinal` |
| | `Refinement` | `Spec => ImplementsSettlement` |
| | `EvidenceInvariance` | `Spec => [](IInv /\ RowInv /\ (CountersRun => EInv))` |
| | `TurnEndsAreReal` | `Spec => [](CountersRun => TurnEvidenceIsReal)` |
| | `SettlesOnItsTurn` | `Spec => [](CountersRun => SettledOnOwnTurn)` |
| | `SettlesOnIdleWorker` | `Spec => [][\A r \in Requests : SettlesIdle(r)]_vars` |
| | `SettlementIsCurrent` | `Spec => SettlesOnCurrentEvidence` if `"reset" \notin Kinds` |
| `InboxProofs` | `TypeCorrect` | `Spec => []TypeOK` |
| | `NoticeTypedOnce` | `Spec => []WokenAtMostOnce` |
| | `ReceiptsAgree` | `Spec => []ReceiptTellsWake` |
| | `PromptsNeverMeet` | `Spec => []OneUnresolvedPrompt` |
| | `SeenStaysSeen` | `Spec => ReceiptsProgress` |
| | `OverStaysOver` | `Spec => WakesStayOver` |
| | `WakesEndOnTheirTurn` | `Spec => []WakeEndsOnOwnTurn` |
| `LifecycleProofs` | `TypeCorrect` | `Spec => []TypeOK` |
| | `GoneInvariant` | `Spec => []GoneInv` |
| | `ReleasedStaysGone` | `Spec => []ReleasedIsGone` |
| | `ReleaseClosesOwn` | `Spec => ClosesOwn` |
| | `FailedLaunchesNeverRan` | `Spec => []FailedNeverRan` |
| | `WhatIsOverStaysOver` | `Spec => FinalIsFinal` |
| | `AgentsHaveOneWorker` | `Spec => []OneWorkerPerAgent` |
| `SchedulerProofs` | `TypeCorrect` | `Spec => []TypeOK` |
| | `Invariance` | `Spec => []IInv` |
| | `OneOutstandingHolds` | `Spec => []OneOutstanding` |
| | `SubmittedOnceHolds` | `Spec => []SubmittedOnce` |
| | `HistoryIsTrue` | `Spec => []RunTellsDispatch` |
| | `ReceiptsAreEvidence` | `Spec => []ReceiptIsEvidence` |
| | `EveryOccurrenceCounts` | `Spec => []OccurrencesAccounted` if `Manual` is finite |
| | `Refinement` | `Spec => ImplementsOccurrences` |
| | `NextIsFirst`, `NextFits`, `DueIsExact` | `nextEvery` and `dueEvery` are what their definitions in terms of occurrences say |
| `CronProofs` | `SearchFindsFirst` | `next` is the first match at or after a minute, up to a year, or there is none |
| | `ResolvesToEarliest` | `resolve` is the earliest instant whose wall clock has reached a time |
| | `NextIsFirstAfter` | `Next(s, zone, after) = FirstAfter(Occurrences(s, zone), after)` |
| | `DueSummarizes` | `Due(s, zone, from, now, limit) = Summary(Occurrences(s, zone), from, now, limit)` |
| | `ParsedIsExpression` | fields that are accepted have values, all within their bounds |
| `ServiceProofs` | `TypeCorrect` | `Spec => []TypeOK` |
| | `OneOwnerHolds` | `Spec => []OneOwner` |
| | `AppliedOnceHolds` | `Spec => []AppliedOnce` |
| | `AnswerInvariance` | `Spec => [](TypeOK /\ Ownership /\ Effects /\ AnswerInv)` |
| | `AnswersHold` | `Spec => []AnswersAreTrue` |
| | `DrainKeepsAnswers` | `Spec => []DrainLosesNothing` |
| | `StartersSucceed` | `Spec => []NotDefeated` |
| `ViewProofs` | `Invariance` | `Spec => [](StreamInv /\ ViewInv)` |
| | `NothingStaysUnseen` | `Spec => []NothingUnseen` |
| | `ReadyMeansConnected` | `Spec => []ReadyIsConnected` |
| | `Refinement` | `Spec => ImplementsJournal` |
| `AlertProofs` | `AlertsDoNotRepeat` | `Spec => []NoRepeats` |
| | `ReportsAreCurrent` | `Spec => ReportsThePresent` |

**Dispatch.** None of the safety properties is inductive. That a prompt lands once depends
on where its handler stands, on what the receipt says and on which row exists: `IInv` is
`TypeOK`, `OneActiveDispatch` and, for each request, `HandlerInv`, which says for every value of
`pc[r]` what the row, the receipt and `landed` may be. For example, at "prompt" the row exists
and nothing has landed; a handler that died leaves a receipt that is still accepted, so the
repeat finds it and does not start again. The steps of `Next` fall into four groups, each with
a lemma: those that touch no row (`QuietKeepsInv`), those that advance rows or end them from
outside a handler (`MoveKeepsInv`: whoever it is, a row only gains evidence or closes), the
handlers themselves (`HandlerKeepsInv`, one step per action), and the crash. `InvStep` puts
them together. `RetainWrite`, which writes a stale worker row, is harmless to all of this,
because nothing above reads the worker row except through a row's attachment.

The refinement maps a row to its phase and its two halves of evidence. A handler's `Intent` is
`Open`; results, reports and observations are `Record`; refusals, `Fail`, fences and
resolutions are `Fail` or stutter. That `Open` finds no other open job is `OneActiveDispatch`
at the intent; that nothing moves a closed job is `RowSteps`.

`FailureFreesWorker` excludes the kind "overtake", because with it the property is false:
`operation.resolve` looks at `inFlight` before its transaction, and a request accepted in
between is resolved while its handler executes and goes on to prompt.

**Evidence.** What a dispatch may settle on is decided by samples that were taken earlier, by
rows that a lane may still write back, and by counters that are Herdr's. `Rows` are the worker's row
and the copy the lane holds. `RowInv` says of all of them what no disturbance can change: an
attachment that a dispatch or a row names has been given out, and a row that speaks of an agent
speaks of a process there was. `EInv` compares with the agent's true state: no sample, row or
baseline is ahead of the counters; and as long as no turn has ended since a dispatch's baselines, the
completion counter stands at its baseline, a busy sample and recorded work mean that the same
process is still in that turn, and an idle sample newer than the work belongs to another process,
which is no evidence. So the first recorded end is a real one. `SettlingStep` then looks at the three
places where a dispatch settles. `EInv` needs `CountersRun`, that Herdr's counters do not start again
(`"reset" \notin Kinds`): with it the three properties are false after three or four disturbances
(section 5), and hold within the two of the runs. That a dispatch settles on its report and a turn end,
on the current attachment and an idle row that is neither lost, offline nor released
(`SettlesIdle`), holds whatever Herdr does.

**Inbox.** `IInv` has three parts besides the types. `MailInv`: what a receipt says follows from
the wake of its delivery, a claim that was not typed has not landed, and no wake belongs to an
attachment still to come. `LaneInv`: from the checks to the claim nothing else occupies the
worker — anything that could would have had to take the lane — and after the claim the delivery
in the lane is sending, or was acknowledged or ended meanwhile with its receipt completed.
`PromptInv`: at most one wake of this attachment is unresolved, and none while the dispatch
runs. What everybody else does to a row is captured by one relation (`Eases`: seen more, the
wake over or as before), which ack, observation, holding back and resolution satisfy; only the
claim and the result of the lane's holder need arguments of their own.

That a wake ends on its own turn needs what the agent and the sample in hand show beyond the
baseline. `TurnInv`: while a wake is awaited and no other turn has begun since its baselines
(`Open`), the agent is idle at or below the baseline, or works, for that wake. So an idle sample
beyond the baseline, the only thing that ends a wake by observation, is of a turn that
is over or comes after another one's begin. It holds from the probe on, where the agent is idle and its
counter is the baseline, and until Herdr's counters start again, after which nothing is said.

**Scheduler.** For each occurrence, `IInv` says where its goroutine may stand given the row
(`HandlerInv`: from its attempt on the row is dispatching, and nobody but the goroutine, or the
recovery after a crash, ends that), what the row says of the dispatch and how many intents there were
(`RowInv`), and what dispatch and receipt say of the prompt (`EvidenceInv`); and that one
occurrence is outstanding and one dispatch busy. `SubmittedOnce` rests on `RowInv` tying intents to
the dispatch row: a retry starts only from a row without a dispatch, because an attempt with one is
classified by it and never becomes blocked again. Steps are claims and cancellations (`ClaimsForm`:
something is created only when nothing is outstanding any more), execution (`ExecKey`, one step per
transaction or call), and the ends of dispatches (`EndsKey`). `OccurrencesAccounted` balances the
occurrences the series has passed by against rows, those counted as missed and those counted as
skipped. For it `AccountInv` says what keeps a claim from counting one twice or none: all that was passed
by lies in the past and before the next one, and only what was passed by has a row or is counted. A claim
takes the span from the next occurrence to the clock, which is therefore new, and gives every member of it
one place. `missed` and `skipped` are sums over finite sets, which the lemmas add up by induction over
the parts of a set. For the refinement, each kind maps to
`Claim`, `Submit` or `Close`; that a claim gives up all that waits is the invariant's one
outstanding occurrence again.

**Service.** `Ownership` ties the lock to where a process stands: a daemon from its start-up to its
cleanup, or a client that probes, is the one the lock names, and a daemon that accepts
connections is the one the socket names. `Effects` follows a request through all of its handlers:
without a receipt nobody executes it and it had no effect, whoever is about to apply it finds it
unapplied, and only one handler is ever between acceptance and the final receipt, also after the
daemon that accepted it was killed. `AnswerInv` adds, for each client, what its own position says: only
an accepted request executes, and a handler answers what the receipt says (`ReceiptInv`); a handler runs at
a daemon that serves it or waits for it (`PlaceInv`); who was told "unavailable" sent nothing
(`CallInv`); a daemon that acknowledged its stop never serves again under its PID (`OldInv`); while
nobody is killed and nothing cut, only what nobody had accepted breaks (`UnhurtInv`); a request that was not
repeated, or whose first connection is known to be lost, has one handler only, so that one that is rejected
has no receipt and nobody else will write one (`WholeInv`). `AnswersAreTrue` needs the exception that `WholeInv`
makes: a repeat that follows a cut connection may be rejected while the first send is still in the
listener's queue. That starters do not defeat each other is mutual exclusion twice over (`LockHeld`, `WillMeet`): who waits for a
daemon holds `bootstrap.lock`, so nobody else probes; it has seen the ownership lock free, so nobody drains
any more; a daemon that finds the lock taken leaves it to one that comes up.

**Lifecycle.** That a released worker's agent and terminal are gone is decided long before the row
says so, from what each check of the release saw. `GoneInv` has three parts besides the types.
`Place`: a terminal is in one pane at most, an agent in front of one terminal, and both only while
they are there; terminals and processes never come back, so what is gone stays gone. The
bindings (`Tied`): the process that a row or a handler names runs in front of no terminal but the one
it names, and that terminal is in no pane but the named one unless it moved. And the positions of
a release (`HandlerSafe`): what each has already shown to be gone, up to `Left`, where process and
terminal are. `CloseInv` says of a release that
is about to close that the pane still has the worker's process in front, or something
happened in the pane since it was looked at; a close takes the pane by its reference, so this is
all that stands between `pane.close` and a stranger's work. `LaunchInv` is about launches: one at a
time creates a worker (`SoleLaunch`, since its name must be free in the table and with every handler);
up to its `agent.start`, and after one that Herdr refused, it has started nothing and nothing of it
is on its way (`LaunchSoFar`); and so it is with a worker whose row is missing or says failed
(`FailedSoFar`). A row says failed only if the handler of that launch wrote it, which knew the answer to be
certain, or a person said so. `OverInv` is about writing back a row that is over meanwhile. A handler
holds a row that it read many steps ago, so what protects the row in the table is who else may write it: a
release that has found a process holds the lane of its worker to its end, and the row still names that
process (`InLane`); so does an adoption, unless nobody knows its worker (`AdoptLane`); a launch holds no lane,
and until it is over its row has no process and is not over (`Apart`), unless the worker is `overlapped`: adopted
during its own launch, or declared failed by a resolution that overtook it. The launch then writes its row
over whatever is there. `LinkInv` gives each agent one worker. The check that the
code makes is by pane and by what is in front of it, the property is by process. Between them are
`OneSpot` and `OneSeat`: whoever knows a terminal that did not move, be it Herdr, a row, a handler or the sample of a
refresh, knows it in the same pane, and whoever knows a process knows it in the same terminal. Then two
workers of one agent would have the pane, the terminal and the name in common, which an adoption looks for in
the table. A launch does not look, and needs not: its name is its own (`Named`), its pane is on record
before its agent starts (`InPlace`), and nobody else claims an agent of that name there (`Unclaimed`).

**Event stream and screen.** `StreamInv` follows an event from the journal to the reader. `ClientInv`: the
client's cursor is the last event it was given. `HandlerInv`: a handler stands at the last event it
sent. `LinkInv`: what is on its way goes on from the cursor without a gap, a `slow_subscriber` at its end
at most. A step of the reader is then the abstract one, because the first event on its way is the least
that lies ahead. Commits only append, so what followed still follows (`StillFollows`). The order in
which the store returns a page is `After`, defined by what it is (the events ahead, increasing) and not by a
sorting operator, whose definition the prover does not have. That such an enumeration exists is itself an
invariant (`Enumerable`): each commit adds to the end of one. `ViewInv` is about the
screen: the update loop knows of the follower until it hears of its end, which is the last message
before the next follower starts (`FollowerInv`); a load follows from no later than where it reads
and knows no less than the screen (`LoadInv`); and an event that is not on the screen is somewhere
(`SeenInv`). That last part is stronger than `NothingUnseen`: what lies after the cursor of a load
counts as still to come only while no follower runs, since a follower reads from a place of its own.

**BlockedAlerts.** `NoRepeats` counts what was said, but what decides whether something is said again is
the record on the row, which commands overwrite with what they read before. `Inv` counts what can still be
said: the first alerts of an episode, plus one while the worker's row is in that episode and has recorded
none; and the alerts of the episode that are not escalated (the human's among them, which never are), plus
the same one (`Tallied`). A first alert turns the row's one into an alert; an escalation, from the row or
from the fallback, takes one alert to a worker out and puts one to the human in; only a row put back makes a
new one, and that is what `putBacks` counts. For this the alert that a row names must be of its episode and,
unless the row is escalated, have gone to a worker (`Kept`), which must hold of the rows that commands hold
as well as of the one in the table. `ReportsThePresent` follows from `Kept` too.

**Intervals.** An occurrence of `@every` is the base plus a multiple of the interval. `nextEvery`
is the first after the instant unless it reports an error (`NextIsFirst`), it exceeds no duration's
width on the way (`NextFits`), and `dueEvery` names the earliest and the latest occurrence of the
span, counts up to the limit and says whether there were more (`DueIsExact`), for any integers,
also for a clock set back before the base.

**Cron.** The code's loops are recursive functions, and what such a function computes for every argument
takes induction over its arguments, made here of the fact that a set of natural numbers has a
least one. `Step`, `TryStep`, `BisectStep` and `DueStep` are one round of each loop. The meant result is
shown to satisfy the equation of the rounds; so there is a function that does, which is what the
definition names; and if two did and differed, they would differ at an argument of least rank, but a
round either ends there or goes on from a smaller one. For `next` the result is the first of the
matches that lie `Ahead`, and the rank is the number of minutes to the end of the calendar (`Skips`: what a
round skips has no match). A date past its month, where the code may stand for a moment, counts as
the midnight after it (`floor`). For `Next` it matters that `resolve` keeps the order of times
(`ResolveKeepsOrder`), though not strictly, since an hour that a clock skips resolves to one instant; and
that the readings of a clock which is up to a day ahead or behind still begin the search before the
first occurrence and end it after the limit (`NextIsFirstAfter`). For `latest`, the instants whose successor
is due are those before the greatest due occurrence, so the bisection ends just before it.

The calendar (`Calendar`) is any in which years have two days or more and a month differs by a day at
most from year to year; a zone (`Zone`) any sequence of periods with offsets of a day at most. The
instants must lie so far before the last year that the search stays in the calendar (`Searched`). `Due`
needs in addition that no two successive occurrences are further apart than the search goes (`NoGap`):
where they are, as for 29 February around 2100, the search ends without an answer and `Due` with what it
has counted so far, which is what the code does.

`RunFollowsDispatch`, `TerminalIsFinal`, `ReceiptsProgress`, `WakesStayOver` and the `TypeOK` of
`Dispatch` and `Inbox` are proved and checked by no run any more; the others that name a property of a
run were checked by it first.

**Only model-checked:** liveness under fairness, which is outside what the prover handles; and in
`Dispatch`, the properties that `CountersRun` and `"reset" \notin Kinds` qualify, when Herdr restarts.

## 5. Disagreements found

| Run | What |
|---|---|
| `removed` | The scheduler's page says a blocked occurrence stays until it runs or the schedule is disabled or removed, which cancels it. Removal cancels what is claimed or blocked at that moment; an attempt in flight that is refused afterwards becomes blocked under the removed schedule, is retried, and cannot be cancelled any more, since a removed schedule refuses every mutation. |
| `moved` | An adoption is refused when a live worker has the pane, by pane reference and terminal. A moved pane has a new reference that the rows learn of with the next refresh; an adoption by the new reference before that binds the same agent, terminal and process to a second worker. |

Weaknesses seen while modelling that contradict nothing the repository says, and that the models
contain as behaviours:

- `worker.retain` writes back the row it read before its transaction; a loss or a block recorded
  in between is undone. So do `release` and `adopt` with the block record, which then hides an
  alert or repeats one (`NoRepeats` and `BlockIsTold` except it).
- `operation.resolve` may overtake a request (section 4). In `Lifecycle` it may declare a launch failed that
  is under way: the launch goes on and writes its row back, live and with a failed receipt. While the row
  says failed, the check of `adopt` (`workers.go:530`) does not count it, so that the agent may be given
  to a second worker (`FinalIsFinal` and `OneWorkerPerAgent` except such a worker).
- An error that is answered before there is a receipt (`core.go:513`-`555`) looks like one that ended the
  request. When a connection was cut and the request is repeated under its ID, the repeat may be rejected
  so while the first send is still queued, and takes effect afterwards. The repository's README says never
  to resend blindly (line 288); only `operation show` tells the two apart, and not before the
  first send has been accepted (`AnswersAreTrue` excepts it).
- The fallback that tells the human of an unreachable requester does not look at the wake again.
- `woof restart` that met a daemon not yet serving waits for its whole deadline.
- `spawn` commits its row without the worker lane: what a re-adoption, a resolution or `retain` wrote while
  the spawn was on its way is overwritten (`OneWorkerPerAgent` and `FinalIsFinal` except it).
- The repository's README says (line 262) that a later unrelated turn is insufficient for settlement.
  The baselines are taken before the prompt is sent, and any turn that ends after them counts: a turn
  that a person starts at the keyboard may settle a reported dispatch whose own turn has not begun.
  `SettledOnOwnTurn` states what does hold.
- Herdr's counters start again when Herdr restarts, and the code tells by nothing but their values. A
  sample that was taken before the restart and is applied after a dispatch took its baselines from the new
  counters passes for a turn end; and a `worker.retain` that writes back a row from before a turn
  end makes the first sample of the new counters settle the dispatch, whatever its number.
- A launch that failed, but whose daemon died before the receipt, can only be resolved as completed.
- `pane.close` and `agent.start` name the pane and not the terminal: what takes its place between the
  last check and the call is closed, or started in, instead (`ClosesOwn` excepts it).

## 6. What is not modelled

Text (prompts, screens, messages, the names, descriptors and local zone of cron expressions),
layout, forms and rendering; SQL (a transaction is a step); the operating system (process birth,
notifications, files); profiles and configuration; artifacts. Of the modelled components: `nudge`,
question and reply rows, broadcast snapshots and human deliveries, the reasons for which the
watchdog escalates a dispatch (each is recorded once in one transaction), worktree leases, Git checks
and the record of workspaces, the timeouts that end `wait` and `follow`, the terminal
interface's change of scope and its actions. `PROJECT.json` has a status and a reason for each
component.

Simplifications that a reader should know: one worker and one session
(`Lifecycle`, which is about several workers, has no work); identities are numbers;
timeouts are nondeterministic failures; a handler's reads between two external calls are one
step where no other writer can tell the difference; `Inbox` has no `lost` state (for the mailbox
it is the same as offline) and no replaced agent processes, both of which `Dispatch` has.

## 7. The plan

In order, the most important behaviour first.

| # | Modules | Status | Content and properties |
|---|---|---|---|
| 1 | `Settlement`, `Dispatch`, proofs | done | evidence across restarts of Herdr stays with TLC |
| 2 | `Inbox`, `InboxProofs` | done | liveness stays with TLC |
| 3 | `Journal`, `EventStream`, `View`, `ViewProofs` | done | liveness stays with TLC |
| 4 | `Occurrences`, `Scheduler`, `SchedulerProofs` | done | liveness stays with TLC |
| 5 | `Intervals`, `Cron`, `CronProofs` | done | both arithmetics are proved and compared by TLC |
| 6 | `Service`, `ServiceProofs` | done | liveness stays with TLC |
| 7 | `BlockedAlerts`, `AlertProofs` | done | liveness stays with TLC |
| 8 | `Lifecycle`, `LifecycleProofs` | done | left: leases on worktrees |
| 9 | `Questions` | planned | one reply per question, waiting for it |
