---------------------------- MODULE EventStream ----------------------------
(***************************************************************************)
(* How events reach a reader. Transactions append to the journal and then  *)
(* publish to the hub, which hints to every subscription that there is     *)
(* something to read and drops one whose buffer is full. The handler of    *)
(* events.follow subscribes, then reads pages from its cursor; the handlers *)
(* of wait and question.wait do so until they have their answer. The       *)
(* client keeps the cursor and connects again when it loses the stream.    *)
(*                                                                         *)
(* Readers do not interact, so one is enough; its role is chosen at the    *)
(* beginning. The role "view" belongs to View, which extends this module.  *)
(* A handler whose connection is gone has no effect any more and vanishes. *)
(***************************************************************************)
EXTENDS Naturals, Sequences, FiniteSetsExt, SequencesExt

CONSTANTS
  Roles,      \* the roles a behaviour may give its reader
  Kinds,      \* the disturbances a behaviour may contain, each once
  Buffer,     \* events a subscription holds (256)
  Page,       \* events the store returns at once (256)
  None,       \* no cursor
  MaxEvents,  \* bound: events in the journal
  MaxFaults   \* bound: disturbances in one behaviour

ASSUME BoundsAssumption ==
  /\ Buffer \in Nat \ {0} /\ Page \in Nat \ {0} /\ MaxEvents \in Nat /\ MaxFaults \in Nat
  /\ None \notin Nat

VARIABLES
  journal,  \* committed events: "mine" matches the reader's scope and types
  fresh,    \* how many of them the hub has not been told of
  role,     \* "follow", "wait", "question" or "view"
  from,     \* where the reader began
  cur,      \* the client's cursor
  out,      \* what the client took from the stream (a view keeps snapshots instead)
  pc,       \* where the client stands
  h,        \* the handler of its request
  chan,     \* the handler's subscription
  link,     \* answers on their way to the client
  hits      \* disturbances so far

streamVars == <<journal, fresh, role, from, cur, out, pc, h, chan, link, hits>>

Slow == 0   \* the answer slow_subscriber; an event travels as its number

Matching == {s \in DOMAIN journal : journal[s] = "mine"}
Off == [st |-> "off", cur |-> 0]
Closed == [open |-> FALSE, n |-> 0]
Single == role \in {"wait", "question"}   \* readers that want one answer

Init ==
  /\ journal = <<>> /\ fresh = 0 /\ role \in Roles
  /\ cur \in (IF role \in {"follow", "wait"} THEN {None, 0} ELSE {IF role = "view" THEN None ELSE 0})
  /\ from = cur /\ out = <<>>
  /\ pc = IF role = "view" THEN "off" ELSE IF cur = None THEN "ask" ELSE "dial"
  /\ h = Off /\ chan = Closed /\ link = <<>> /\ hits = {}

Disturb(kind) == /\ kind \in Kinds \ hits /\ Cardinality(hits) < MaxFaults
                 /\ hits' = hits \cup {kind}

-----------------------------------------------------------------------------
(* Journal and hub.                                                        *)

\* Engine.write holds its mutex from the transaction to the end of publish.
Commit(events) ==
  /\ fresh = 0 /\ Len(journal) + Len(events) <= MaxEvents
  /\ journal' = journal \o events /\ fresh' = Len(events)
  /\ UNCHANGED <<role, from, cur, out, pc, h, chan, link, hits>>

\* Mutant: a full buffer is emptied instead of closed.
EmptiesBuffer ==
  [open |-> chan.open, n |-> IF chan.open /\ chan.n + fresh <= Buffer THEN chan.n + fresh ELSE 0]

\* A subscription that cannot hold all of them is closed; what it holds stays readable.
hinted == [open |-> chan.open /\ chan.n + fresh <= Buffer,
           n |-> IF chan.open THEN Min({Buffer, chan.n + fresh}) ELSE chan.n]

Publish ==
  /\ fresh > 0 /\ fresh' = 0 /\ chan' = hinted
  /\ UNCHANGED <<journal, role, from, cur, out, pc, h, link, hits>>

-----------------------------------------------------------------------------
(* The handler.                                                            *)

\* The events of interest after a cursor, in the order of the journal.
Ahead(cursor) == {s \in Matching : s > cursor}
Increasing(q) == \A i, j \in DOMAIN q : i < j => q[i] < q[j]
After(cursor) == CHOOSE q \in [1..Cardinality(Ahead(cursor)) -> Ahead(cursor)] : Increasing(q)
subscribed == [open |-> TRUE, n |-> 0]

\* A page is read from the cursor and sent, each event moving the cursor; a full page is
\* followed by another. The first event ends a wait.
Read ==
  /\ h.st = "read"
  /\ LET found == After(h.cur)
         page == SubSeq(found, 1, Min({IF Single THEN 1 ELSE Page, Len(found)}))
     IN /\ link' = link \o page
        /\ IF Single /\ page # <<>> THEN h' = Off /\ chan' = Closed
           ELSE /\ h' = [st |-> IF Len(page) = Page THEN "read" ELSE "wait",
                         cur |-> IF page = <<>> THEN h.cur ELSE Last(page)]
                /\ UNCHANGED chan
  /\ UNCHANGED <<journal, fresh, role, from, cur, out, pc, hits>>

Hear ==
  /\ h.st = "wait" /\ chan.n > 0
  /\ chan' = [chan EXCEPT !.n = @ - 1] /\ h' = [h EXCEPT !.st = "read"]
  /\ UNCHANGED <<journal, fresh, role, from, cur, out, pc, link, hits>>

\* The subscription was dropped: a follower is told to connect again, a wait begins
\* anew with the cursor it was given.
Overflow ==
  /\ h.st = "wait" /\ chan.n = 0 /\ ~chan.open
  /\ IF Single THEN /\ h' = [st |-> "read", cur |-> cur]
                    /\ chan' = subscribed /\ UNCHANGED link
     ELSE h' = Off /\ chan' = Closed /\ link' = Append(link, Slow)
  /\ UNCHANGED <<journal, fresh, role, from, cur, out, pc, hits>>

-----------------------------------------------------------------------------
(* The client.                                                             *)

\* Without a cursor of the user's, the client asks for the current one, once.
AskCursor ==
  /\ pc = "ask" /\ cur' = Len(journal) /\ from' = cur' /\ pc' = "dial"
  /\ UNCHANGED <<journal, fresh, role, out, h, chan, link, hits>>

\* The request reaches the daemon, whose handler subscribes before it reads.
Dial ==
  /\ pc = "dial" /\ pc' = "stream"
  /\ h' = [st |-> "read", cur |-> cur] /\ chan' = subscribed /\ link' = <<>>
  /\ UNCHANGED <<journal, fresh, role, from, cur, out, hits>>

Receive ==
  /\ pc = "stream" /\ link # <<>> /\ Head(link) # Slow
  /\ link' = Tail(link) /\ out' = IF role = "view" THEN out ELSE Append(out, Head(link))
  /\ IF Single THEN pc' = "done" /\ UNCHANGED cur ELSE cur' = Head(link) /\ UNCHANGED pc
  /\ UNCHANGED <<journal, fresh, role, from, h, chan, hits>>

\* slow_subscriber ends the stream.
ReceiveSlow ==
  /\ pc = "stream" /\ link # <<>> /\ Head(link) = Slow
  /\ link' = <<>> /\ pc' = "lost"
  /\ UNCHANGED <<journal, fresh, role, from, cur, out, h, chan, hits>>

\* Mutant: it connects again with the cursor it began with.
AgainFromStart ==
  /\ pc = "lost" /\ pc' = "dial" /\ cur' = IF role = "view" THEN cur ELSE from
  /\ UNCHANGED <<journal, fresh, role, from, out, h, chan, link, hits>>

\* After a pause the client connects again, with the cursor it has.
Again ==
  /\ pc = "lost" /\ pc' = "dial"
  /\ UNCHANGED <<journal, fresh, role, from, cur, out, h, chan, link, hits>>

\* The connection breaks with whatever is on its way, or the daemon dies and is started
\* again: the journal is what remains.
Break ==
  /\ pc = "stream" /\ pc' = "lost" /\ h' = Off /\ chan' = Closed /\ link' = <<>>
  /\ Disturb("break") /\ fresh' \in {fresh, 0}
  /\ UNCHANGED <<journal, role, from, cur, out>>

-----------------------------------------------------------------------------
\* A transaction may append several events.
Writer == \/ \E e \in {"mine", "other"} : Commit(<<e>>)
          \/ \E e, f \in {"mine", "other"} : Commit(<<e, f>>)
Daemon == Publish \/ Read \/ Hear \/ Overflow

Promise == INSTANCE Journal WITH log <- journal, read <- out,
                                 single <- Single

\* For a follower and a wait, overflow, lost connections and restarts neither skip nor
\* repeat an event; a wait answers with the first one after its cursor.
ImplementsJournal == Promise!Spec
=============================================================================
