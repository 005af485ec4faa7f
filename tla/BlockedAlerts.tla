--------------------------- MODULE BlockedAlerts ---------------------------
(***************************************************************************)
(* How the watchdog reports a blocked worker: a block that lasts goes to   *)
(* the requester, and to the human when it goes on or the requester cannot *)
(* be reached. What was reported is on the worker's row and on the alert's *)
(* delivery, while observations, adoptions and commands that write whole   *)
(* rows change the same row, and the requester's mailbox the delivery.     *)
(*                                                                         *)
(* One worker is watched. A block episode is a number, given when it       *)
(* starts and kept in blockedAt; alertedAt is the delivery of the first    *)
(* alert; "due" says which timeouts have passed since these two. How a     *)
(* queued alert is typed is the module Inbox.                              *)
(***************************************************************************)
EXTENDS Naturals, Sequences, FiniteSets

CONSTANTS
  DispatchInvoker,  \* the invoker of the active dispatch's run, and of the run the
  HomeInvoker,      \* worker belongs to: the requester, the worker itself or nobody
  Kinds,        \* the disturbances a behaviour may contain, each once
  MaxEpisodes,  \* bound: block episodes
  MaxFaults     \* bound: disturbances

ASSUME BlockedBounds == MaxEpisodes \in Nat /\ MaxFaults \in Nat
ASSUME InvokersAssumption == {DispatchInvoker, HomeInvoker} \subseteq {"requester", "self", "nobody"}

VARIABLES
  row,        \* the worker: its state and its block episode
  held,       \* a row a command has read and will write back, or adopt from
  requester,  \* the requesting worker can be reached
  dispatch,   \* the worker has an active dispatch
  deliveries, \* every alert, in order
  pc,         \* where the watchdog's tick stands
  todo,       \* what it found to do in the list it read last
  episodes,   \* episodes so far
  faults,     \* disturbances so far
  putBacks    \* history: block records overwritten with older ones

workerVars == <<row, held, episodes, putBacks>>
dispatchVars == <<requester, dispatch>>
tickVars == <<pc, todo>>
vars == <<workerVars, dispatchVars, tickVars, deliveries, faults>>

-----------------------------------------------------------------------------
\* clearBlocked, and a worker with no episode in this state.
Clear(state) == [state |-> state, blockedAt |-> 0, alertedAt |-> 0, alertId |-> 0,
                 escalated |-> FALSE, due |-> {}]
Episode(r) == [r EXCEPT !.state = "blocked"]
Nobody == [kind |-> "none", row |-> Clear("working")]
sessionActive(r) == r.state # "lost"

Disturb(kind) == /\ kind \in Kinds \ faults /\ Cardinality(faults) < MaxFaults
                 /\ faults' = faults \cup {kind}

Init ==
  /\ row = Clear("working") /\ held = Nobody
  /\ requester = TRUE /\ dispatch = TRUE /\ deliveries = <<>>
  /\ pc = "rest" /\ todo = {} /\ episodes = 0 /\ faults = {} /\ putBacks = 0

-----------------------------------------------------------------------------
(* The worker, its requester and its dispatch.                             *)

\* blocked continues the episode of the row given, or starts one.
Blocks(r) ==
  IF r.blockedAt # 0 THEN row' = Episode(r) /\ UNCHANGED episodes
  ELSE /\ episodes < MaxEpisodes /\ episodes' = episodes + 1
       /\ row' = [Episode(r) EXCEPT !.blockedAt = episodes + 1]

Unblocks == /\ sessionActive(row) /\ row.state # "working" /\ row' = Clear("working")
            /\ UNCHANGED <<held, episodes, putBacks, dispatchVars, tickVars, deliveries, faults>>
Observe == /\ sessionActive(row) /\ row.state # "blocked" /\ Blocks(row)
           /\ UNCHANGED <<held, putBacks, dispatchVars, tickVars, deliveries, faults>>

\* The session goes offline, the pane is missing: only the state changes.
Detach == /\ sessionActive(row)
          /\ \E state \in {"offline", "lost"} \ {row.state} : row' = [row EXCEPT !.state = state]
          /\ Disturb("detach")
          /\ UNCHANGED <<held, episodes, putBacks, dispatchVars, tickVars, deliveries>>

Inherited == IF row.state = "blocked" THEN row ELSE Clear("working")

\* retain, release and adopt read the row before they write it; adopt, what is inherited.
ReadRow == /\ held.kind = "none"
           /\ \E command \in {[kind |-> "rewrite", row |-> row], [kind |-> "adopt", row |-> Inherited]} :
                Disturb(command.kind) /\ held' = command
           /\ UNCHANGED <<row, episodes, putBacks, dispatchVars, tickVars, deliveries>>

Record(r) == [r EXCEPT !.state = "", !.due = {}]
Overwrites(r) == putBacks' = IF Record(r) = Record(row) THEN putBacks ELSE putBacks + 1

\* retain puts the row back; a release whose close is uncertain does so as offline.
Rewrite ==
  /\ held.kind = "rewrite" /\ held' = Nobody
  /\ \E state \in {held.row.state, "offline"} : row' = [held.row EXCEPT !.state = state]
  /\ Overwrites(held.row) /\ UNCHANGED <<episodes, dispatchVars, tickVars, deliveries, faults>>

Adopt ==
  /\ held.kind = "adopt" /\ held' = Nobody
  /\ \/ row' = Clear("working") /\ UNCHANGED <<episodes, putBacks>>
     \/ Blocks(held.row) /\ IF held.row.blockedAt = 0 THEN UNCHANGED putBacks ELSE Overwrites(held.row)
  /\ dispatch' = FALSE
  /\ UNCHANGED <<requester, tickVars, deliveries, faults>>

Change == /\ \/ requester' = ~requester /\ Disturb("requester") /\ UNCHANGED dispatch
             \/ dispatch /\ dispatch' = FALSE /\ UNCHANGED <<requester, faults>>
          /\ UNCHANGED <<workerVars, tickVars, deliveries>>

ToWorker(i) == deliveries[i].to # "human"

\* The alert is typed into the requester's pane, or the requester checks its mailbox.
Wake == /\ \E i \in DOMAIN deliveries :
             /\ deliveries[i].wake = "queued" /\ requester
             /\ deliveries' = [deliveries EXCEPT ![i].wake = "taken"]
        /\ UNCHANGED <<workerVars, dispatchVars, tickVars, faults>>

\* blockedAt, or alertedAt, is long enough ago.
Elapse == /\ \E t \in (IF row.alertedAt = 0 THEN {"block"} ELSE {"block", "alert"}) \ row.due :
               row.blockedAt # 0 /\ row' = [row EXCEPT !.due = @ \cup {t}]
          /\ UNCHANGED <<held, episodes, putBacks, dispatchVars, tickVars, deliveries, faults>>

-----------------------------------------------------------------------------
(* The watchdog.                                                           *)

Go(state, work) == pc' = state /\ todo' = work
Sent == Len(deliveries)

\* escalationTx: to the candidate when it can be reached, to the human otherwise.
Addressee(candidate) == IF candidate = "requester" /\ requester THEN "requester" ELSE "human"
Alert(about, why, to) == [about |-> about, why |-> why, to |-> to, escalated |-> FALSE,
                          wake |-> IF to = "human" THEN "human" ELSE "queued"]
Send(about, why, to) == deliveries' = Append(deliveries, Alert(about, why, to))

blockedDue ==
  IF row.state # "blocked" \/ "block" \notin row.due THEN "nothing"
  ELSE IF row.alertedAt = 0 THEN "first"
  ELSE IF ~row.escalated /\ "alert" \in row.due THEN "human" ELSE "nothing"

LookAtWorkers == /\ pc = "rest"
                 /\ Go(IF blockedDue = "nothing" THEN "deliveries" ELSE "worker", {})
                 /\ UNCHANGED <<workerVars, dispatchVars, deliveries, faults>>

\* A worker is never told of its own block.
Requester == Addressee(IF dispatch THEN DispatchInvoker ELSE HomeInvoker)

\* Mutant: a first alert to a worker counts as the escalation.
FirstIsFinal ==
  /\ Send(row.blockedAt, "first", Requester)
  /\ row' = [row EXCEPT !.alertedAt = Sent + 1, !.alertId = Sent + 1, !.escalated = TRUE]
FirstAlert ==
  /\ Send(row.blockedAt, "first", Requester)
  /\ row' = IF Requester = "human" THEN [row EXCEPT !.alertedAt = Sent + 1, !.escalated = TRUE]
            ELSE [row EXCEPT !.alertedAt = Sent + 1, !.alertId = Sent + 1]

\* Mutant: does not look whether the human was told that the requester is unreachable.
TellsAgain ==
  /\ row' = [row EXCEPT !.escalated = TRUE]
  /\ Send(row.blockedAt, "still", "human")
StillBlocked ==
  /\ row' = [row EXCEPT !.escalated = TRUE]
  /\ IF deliveries[row.alertId].escalated THEN UNCHANGED deliveries
     ELSE deliveries' = Append([deliveries EXCEPT ![row.alertId].escalated = TRUE],
                               Alert(row.blockedAt, "still", "human"))

\* Mutant: acts on the row the tick has listed.
TrustsTheList == IF row.alertedAt = 0 THEN FirstAlert ELSE StillBlocked
TellBlocked == CASE blockedDue = "first" -> FirstAlert
                 [] blockedDue = "human" -> StillBlocked
                 [] OTHER -> UNCHANGED <<row, deliveries>>

EscalateBlocked == /\ pc = "worker" /\ Go("deliveries", {}) /\ TellBlocked
                   /\ UNCHANGED <<held, episodes, putBacks, dispatchVars, faults>>

Unreached == {i \in DOMAIN deliveries : deliveries[i].wake = "queued" /\ ~deliveries[i].escalated}

\* Some of them for longer than the quiet timeout.
LookAtDeliveries == /\ pc = "deliveries"
                    /\ \E late \in SUBSET Unreached : Go(IF late = {} THEN "rest" ELSE "tell", late)
                    /\ UNCHANGED <<workerVars, dispatchVars, deliveries, faults>>

\* The fallback reads only whether the alert was escalated again, not its wake.
TellHuman ==
  /\ pc = "tell" /\ \E i \in todo :
       /\ Go(IF todo = {i} THEN "rest" ELSE "tell", todo \ {i})
       /\ IF deliveries[i].escalated THEN UNCHANGED deliveries
          ELSE deliveries' = Append([deliveries EXCEPT ![i].escalated = TRUE],
                                    Alert(deliveries[i].about, "unreachable", "human"))
  /\ UNCHANGED <<workerVars, dispatchVars, faults>>

\* A transaction fails and the tick is given up, or the daemon dies: rows and
\* deliveries stay. A command that fails, or dies with it, never writes.
Stop == /\ pc # "rest" /\ Disturb("stop") /\ Go("rest", {})
        /\ UNCHANGED <<workerVars, dispatchVars, deliveries>>

Watchdog == \/ LookAtWorkers \/ EscalateBlocked \/ LookAtDeliveries \/ TellHuman
Worker == \/ Unblocks \/ Observe \/ Detach \/ ReadRow \/ Rewrite \/ Adopt

Next == Worker \/ Change \/ Wake \/ Watchdog \/ Stop \/ Elapse

Spec == Init /\ [][Next]_vars
FairSpec == Spec /\ WF_vars(Watchdog) /\ WF_vars(Elapse)

-----------------------------------------------------------------------------
(* What the alerts promise.                                                *)

Count(about, Is(_)) == Cardinality({i \in DOMAIN deliveries : deliveries[i].about = about /\ Is(deliveries[i])})

\* A block episode is reported to its requester once and to the human once,
\* whichever of the escalation, the fallback and a first alert to the human says
\* it, across restarts and adoptions. Only a command that overwrites the record
\* with an older row can repeat it (a known weakness of retain, release and adopt).
NoRepeats ==
  LET IsFirst(a) == a.why = "first"
      ToHuman(a) == a.to = "human"
  IN \A about \in 1..episodes :
       /\ Count(about, IsFirst) <= 1 + putBacks
       /\ Count(about, ToHuman) <= 1 + putBacks

\* An alert says what is so: the worker is blocked, in the episode the alert is about.
\* "Still blocked after worker X was notified" needs that X was told of this episode
\* and had its time.
TrueWhenSaid(a) ==
  /\ a.why \in {"first", "still"} => row.state = "blocked" /\ a.about = row.blockedAt
  /\ a.why = "still" => /\ "alert" \in row.due /\ ToWorker(row.alertedAt)
                       /\ deliveries[row.alertedAt].about = a.about

\* The watchdog works on lists that were read before: what it reports of a block
\* is nevertheless true when it is said.
ReportsThePresent ==
  [][\A i \in DOMAIN deliveries' \ DOMAIN deliveries : TrueWhenSaid(deliveries'[i])]_vars

\* A block that does not end is told to the human in the end, whoever was told first.
\* Without this the alerts would be silent when the requester never looks.
Told(e) == \E i \in DOMAIN deliveries : deliveries[i].about = e /\ deliveries[i].to = "human"
BlockIsTold == (row.state = "blocked") ~> (row.state # "blocked" \/ Told(row.blockedAt))
=============================================================================
