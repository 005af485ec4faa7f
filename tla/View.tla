-------------------------------- MODULE View --------------------------------
(***************************************************************************)
(* The terminal user interface over the event stream. It loads a snapshot: *)
(* first the journal's end, then the rows; follows the journal from there; *)
(* takes every event as a reason to load again; and allows actions only    *)
(* while no interruption was noticed since the load began whose rows it    *)
(* shows. The load, the follower and the update loop run concurrently.     *)
(***************************************************************************)
EXTENDS EventStream

VARIABLES
  shown,      \* the snapshot: which events its rows reflect; connected: nothing was
              \* noticed of an interruption since its load began (connection.epoch)
  load,       \* the load in progress
  dirty,      \* the snapshot may be out of date
  scheduled,  \* a refresh is due
  following,  \* a follower was started
  ready,      \* actions are allowed
  queue       \* stream messages the update loop has not handled

viewVars == <<shown, load, dirty, scheduled, following, ready, queue>>
vars == <<streamVars, viewVars>>

NoLoad == [st |-> "none", cursor |-> 0, rows |-> 0, connected |-> FALSE]
Starts == [NoLoad EXCEPT !.st = "tail", !.connected = TRUE]
Loading == load.st # "none"

VInit ==
  /\ Init /\ shown = [rows |-> 0, connected |-> FALSE]
  /\ load = IF role = "view" THEN Starts ELSE NoLoad
  /\ dirty = FALSE /\ scheduled = FALSE /\ following = FALSE /\ ready = FALSE /\ queue = <<>>

-----------------------------------------------------------------------------
(* The load, in the background.                                            *)

\* Mutant: the rows are read before the journal's end.
RowsFirst ==
  /\ \/ load.st = "tail" /\ load' = [load EXCEPT !.st = "rows", !.rows = Len(journal)]
     \/ load.st = "rows" /\ load' = [load EXCEPT !.st = "done", !.cursor = Len(journal)]
  /\ UNCHANGED <<streamVars, shown, dirty, scheduled, following, ready, queue>>

\* The replay boundary before any row.
Load ==
  /\ \/ load.st = "tail" /\ load' = [load EXCEPT !.st = "rows", !.cursor = Len(journal)]
     \/ load.st = "rows" /\ load' = [load EXCEPT !.st = "done", !.rows = Len(journal)]
  /\ UNCHANGED <<streamVars, shown, dirty, scheduled, following, ready, queue>>

LoadFails ==
  /\ load.st \in {"tail", "rows"} /\ Disturb("unread") /\ load' = [load EXCEPT !.st = "failed"]
  /\ UNCHANGED <<journal, fresh, role, from, cur, out, pc, h, chan, link,
                 shown, dirty, scheduled, following, ready, queue>>

-----------------------------------------------------------------------------
(* The follower.                                                           *)

TakeEvent == /\ role = "view" /\ Receive /\ queue' = Append(queue, "event")
             /\ UNCHANGED <<shown, load, dirty, scheduled, following, ready>>

\* The end of a stream is reported before the next attempt.
Invalidate(messages) ==
  /\ ready' = FALSE /\ load' = [load EXCEPT !.connected = FALSE]
  /\ shown' = [shown EXCEPT !.connected = FALSE] /\ queue' = queue \o messages
  /\ UNCHANGED <<dirty, scheduled, following>>

Reconnect == role = "view" /\ Again /\ Invalidate(<<"lost">>)

\* An error that a new attempt would not mend ends the follower.
FollowEnds ==
  /\ role = "view" /\ pc = "lost" /\ pc' = "off" /\ Disturb("ended")
  /\ Invalidate(<<"lost", "ended">>)
  /\ UNCHANGED <<journal, fresh, role, from, cur, out, h, chan, link>>

-----------------------------------------------------------------------------
(* The update loop.                                                        *)

\* Mutant: the load that ends makes the screen ready.
AnySnapshot == TRUE

\* Nothing was noticed of an interruption since the load began.
fresher == load.connected

\* A follower is started where the snapshot begins, unless one runs.
Follow ==
  IF following THEN UNCHANGED <<following, pc, cur>>
  ELSE following' = TRUE /\ pc' = "dial" /\ cur' = load.cursor

\* A refresh is due after a load during which something changed.
refreshDue(changed) == scheduled \/ changed

Loaded ==
  /\ load.st = "done" /\ load' = NoLoad /\ shown' = [rows |-> load.rows, connected |-> load.connected]
  /\ ready' = fresher /\ dirty' = (dirty \/ ~fresher) /\ scheduled' = refreshDue(dirty')
  /\ Follow
  /\ UNCHANGED <<journal, fresh, role, from, out, h, chan, link, hits, queue>>

LoadFailed ==
  /\ load.st = "failed" /\ load' = NoLoad /\ ready' = FALSE /\ scheduled' = TRUE
  /\ UNCHANGED <<streamVars, shown, dirty, following, queue>>

Refresh ==
  /\ scheduled /\ scheduled' = FALSE
  /\ IF Loading THEN dirty' = TRUE /\ UNCHANGED load ELSE load' = Starts /\ dirty' = FALSE
  /\ UNCHANGED <<streamVars, shown, following, ready, queue>>

\* Every message of the stream makes the snapshot dirty and a refresh due.
Update ==
  /\ queue # <<>> /\ queue' = Tail(queue) /\ dirty' = TRUE /\ scheduled' = TRUE
  /\ ready' = (ready /\ Head(queue) = "event")
  /\ following' = (following /\ Head(queue) # "ended")
  /\ UNCHANGED <<streamVars, shown, load>>

-----------------------------------------------------------------------------
Plain == role # "view" /\ (AskCursor \/ Receive \/ Again) /\ UNCHANGED viewVars
Stream == (Dial \/ ReceiveSlow) /\ UNCHANGED viewVars
Screen == TakeEvent \/ Reconnect \/ Loaded \/ LoadFailed \/ Refresh \/ Update \/ Load

Next == \/ (Writer \/ Daemon \/ Break) /\ UNCHANGED viewVars
        \/ Plain \/ Stream \/ Screen \/ LoadFails \/ FollowEnds

Spec == VInit /\ [][Next]_vars

\* Goroutines run; nothing is assumed of writers and faults.
Fairness == /\ WF_vars(Daemon /\ UNCHANGED viewVars) /\ WF_vars(Plain) /\ WF_vars(Stream)
            /\ WF_vars(TakeEvent) /\ WF_vars(Reconnect) /\ WF_vars(Load)
            /\ WF_vars(Loaded) /\ WF_vars(LoadFailed) /\ WF_vars(Refresh) /\ WF_vars(Update)
FairSpec == Spec /\ Fairness

-----------------------------------------------------------------------------
(* Properties                                                              *)

\* "follow replay invalidates it without losing commits" (backend.go): an event whose
\* effect is not on the screen is still to come, waits in the queue, or a load that will
\* see it is under way or due.
NothingUnseen ==
  role = "view" =>
    \A s \in Matching :
      \/ s <= shown.rows
      \/ following /\ pc # "off" /\ s > cur
      \/ queue # <<>> \/ scheduled
      \/ Loading /\ (dirty \/ load.st \in {"tail", "rows", "failed"} \/ s <= load.rows \/ s > load.cursor)

\* Actions are allowed only while no interruption was noticed since the load of the
\* rows on the screen began ("the UI remains stale until a separate canonical reload
\* succeeds", backend.go).
ReadyIsConnected == ready => shown.connected

\* When writers rest, every reader gets what is there: a follower all of it, a wait its
\* answer, the screen the latest rows, ready for actions.
CatchesUp ==
  <>[] CASE role = "follow" -> from # None /\ out = After(from)
         [] Single -> from # None /\ (pc = "done" \/ After(from) = <<>>)
         [] role = "view" -> ready /\ ~dirty /\ \A s \in Matching : s <= shown.rows
=============================================================================
