-------------------------- MODULE LifecycleProofs --------------------------
(***************************************************************************)
(* Proofs about the lifecycle of workers, for any number of requests,      *)
(* workers and panes and any disturbances: types, released workers that    *)
(* are gone, launches on record as failed that never ran, releases that    *)
(* close the pane of their own worker, workers whose end is final, and     *)
(* agents that belong to one worker.                                       *)
(***************************************************************************)
EXTENDS Lifecycle, SequenceTheorems, TLAPS

AnyState == Standing \cup Final \cup {"none"}
AnyRow == RowIn(AnyState)

\* A handler that is somewhere has a worker, and a row that stands.
LEMMA BusyHandler ==
  ASSUME TypeOK, NEW r \in Requests, h[r].step \in Steps
  PROVE  /\ h[r] \in Handler /\ h[r] # Free /\ h[r].worker \in Workers
         /\ h[r].row \in RowIn(Standing) /\ h[r].row \in AnyRow /\ op[r] \in Receipt
<1>1. Free.step \notin Steps
  BY DEF Free, Steps
<1>2. h[r] \in Handler
  BY <1>1 DEF TypeOK
<1>3. op[r] \in Receipt
  BY <1>1 DEF TypeOK
<1> QED
  BY <1>1, <1>2, <1>3 DEF Handler, RowIn, AnyRow, AnyState

-----------------------------------------------------------------------------
(* Herdr: what may happen to panes, terminals and processes.               *)

Herdr ==
  /\ pane \in [Panes -> 0..Len(fg)] /\ fg \in Seq(0..Len(name)) /\ name \in Seq(Names)
  /\ alive \subseteq Agents /\ moved \subseteq Terms

Fading ==
  /\ UNCHANGED <<name, moved>> /\ alive' \subseteq alive
  /\ fg' \in Seq(0..Len(name)) /\ Len(fg') = Len(fg) /\ \A t \in Terms : fg'[t] \in {0, fg[t]}
  /\ pane' \in [Panes -> 0..Len(fg)] /\ \A p \in Panes : pane'[p] \in {0, pane[p]}
Opening == \E p \in Panes : Opens(p) /\ UNCHANGED <<name, alive, moved>>
Starting == \E n \in Names, p \in Panes : Starts(n, p) /\ UNCHANGED <<pane, moved>>
Moving == \E p, q \in Panes :
  /\ pane[p] # 0 /\ pane[q] = 0
  /\ pane' = [pane EXCEPT ![p] = 0, ![q] = pane[p]] /\ moved' = moved \cup {pane[p]}
  /\ UNCHANGED <<fg, name, alive>>
Moves == Fading \/ Opening \/ Starting \/ Moving

\* Terminals and processes are the numbers up to those that began last.
LEMMA Numbers ==
  ASSUME Herdr
  PROVE  /\ Len(fg) \in Nat /\ Len(name) \in Nat /\ Terms = 1..Len(fg) /\ Agents = 1..Len(name)
         /\ \A t \in Terms : fg[t] \in 0..Len(name)
         /\ \A p \in Panes : pane[p] # 0 => pane[p] \in Terms
  BY DEF Herdr, Terms, Agents

\* Nothing happens.
LEMMA StillFades == Herdr /\ UNCHANGED <<pane, fg, name, alive, moved>> => Fading
  BY DEF Herdr, Fading, Terms

\* A pane is closed.
LEMMA CloseFades ==
  ASSUME Herdr, NEW p \in Panes, NEW S, Closes(p, S), UNCHANGED <<name, moved>>
  PROVE  Fading
<1>1. pane[p] \in 1..Len(fg) /\ 0 \in 0..Len(name)
  BY DEF Herdr, Closes
<1>2. /\ fg' \in Seq(0..Len(name)) /\ Len(fg') = Len(fg)
      /\ \A t \in 1..Len(fg) : fg'[t] = IF t = pane[p] THEN 0 ELSE fg[t]
  BY <1>1, ExceptSeq DEF Herdr, Closes
<1> QED
  BY <1>2, Numbers DEF Herdr, Fading, Closes

\* An agent exits.
LEMMA ExitFades == Herdr /\ ExitAgent => Fading
<1> SUFFICES ASSUME Herdr, ExitAgent PROVE Fading
  OBVIOUS
<1>1. PICK p \in Panes :
        /\ HasAgent(p) /\ alive' = alive \ {AgentIn(p)} /\ fg' = [fg EXCEPT ![pane[p]] = 0]
        /\ UNCHANGED <<pane, name, moved>>
  BY DEF ExitAgent
<1>2. pane[p] \in 1..Len(fg) /\ 0 \in 0..Len(name)
  BY <1>1 DEF Herdr, HasAgent
<1>3. /\ fg' \in Seq(0..Len(name)) /\ Len(fg') = Len(fg)
      /\ \A t \in 1..Len(fg) : fg'[t] = IF t = pane[p] THEN 0 ELSE fg[t]
  BY <1>1, <1>2, ExceptSeq DEF Herdr
<1> QED
  BY <1>1, <1>3, Numbers DEF Herdr, Fading

\* A process is signalled.
LEMMA SignalFades ==
  ASSUME Herdr, NEW r \in Requests, Signal(r)
  PROVE  Fading
<1>1. CASE UNCHANGED herdrVars
  BY <1>1, StillFades DEF Signal, herdrVars
<1>2. CASE ~UNCHANGED herdrVars
  <2> DEFINE b == h[r].row.proc
  <2>1. /\ alive' = alive \ {b} /\ fg' = [t \in Terms |-> IF fg[t] = b THEN 0 ELSE fg[t]]
        /\ UNCHANGED <<pane, name, moved>>
    BY <1>2 DEF Signal
  <2> HIDE DEF b
  <2>2. fg' \in [1..Len(fg) -> 0..Len(name)]
    BY <2>1, Numbers
  <2>3. fg' \in Seq(0..Len(name)) /\ Len(fg') = Len(fg)
    BY <2>2, Numbers
  <2> QED
    BY <2>1, <2>3 DEF Herdr, Fading
<1> QED
  BY <1>1, <1>2

\* What a request does in Herdr.
LEMMA RequestMoves ==
  ASSUME TypeOK, NEW r \in Requests,
         Request(r) \/ Launch(r) \/ Bind(r) \/ Cleanup(r) \/ End(r) \/ Resolution(r)
  PROVE  Moves
<1>h. Herdr
  BY DEF TypeOK, Herdr
<1>1. CASE NewTab(r)
  BY <1>1 DEF NewTab, Moves, Opening
<1>2. CASE AgentStart(r)
  <2>1. CASE Starts(h[r].worker, h[r].row.pane) /\ UNCHANGED <<pane, moved>>
    <3>1. h[r].step \in Steps
      BY <1>2 DEF AgentStart, Steps
    <3>2. h[r].worker \in Names /\ h[r].row.pane \in Panes
      BY <2>1, <3>1, BusyHandler DEF RowIn, Starts, Startable, Names
    <3> QED
      BY <2>1, <3>2 DEF Moves, Starting
  <2>2. CASE UNCHANGED <<pane, fg, name, alive, moved>>
    BY <1>h, <2>2, StillFades DEF Moves
  <2> QED
    BY <1>2, <2>1, <2>2 DEF AgentStart, herdrVars
<1>3. CASE Close(r)
  <2>1. h[r].step \in Steps
    BY <1>3 DEF Close, Steps
  <2>2. h[r].row.pane \in Panes
    BY <1>3, <2>1, BusyHandler DEF Close, TypeOK, RowIn
  <2>3. CASE UNCHANGED herdrVars
    BY <1>h, <1>3, <2>3, StillFades DEF Close, Moves, herdrVars
  <2>4. CASE ~UNCHANGED herdrVars
    BY <1>h, <1>3, <2>2, <2>4, CloseFades DEF Close, Moves
  <2> QED
    BY <2>3, <2>4
<1>4. CASE Signal(r)
  BY <1>h, <1>4, SignalFades DEF Moves
<1>5. CASE UNCHANGED <<pane, fg, name, alive, moved>>
  BY <1>h, <1>5, StillFades DEF Moves
<1>6. \/ NewTab(r) \/ AgentStart(r) \/ Close(r) \/ Signal(r)
      \/ UNCHANGED <<pane, fg, name, alive, moved>>
  BY DEF Request, Spawn, SpawnInPane, Adopt, Release, Launch, Record, NoTab, Route, Put,
     waitShellReady, Confirm, Unconfirmed, Capture, Commit, Completes, launchFailure, Bind,
     AdoptLook, AdoptCapture, AdoptCommit, Refuse, Unread, GiveUp, Cleanup, Inspect, Recheck,
     Verify, Unsure, Seal, Retire, RetireCommit, End,
     Resolution, ResolveLooks, Resolve, ResolveRejected, herdrVars, history
<1> QED
  BY <1>1, <1>2, <1>3, <1>4, <1>5, <1>6

\* What anything does in Herdr.
LEMMA NextMoves == TypeOK /\ [Next]_vars => Moves
<1> SUFFICES ASSUME TypeOK, [Next]_vars PROVE Moves
  OBVIOUS
<1>h. Herdr
  BY DEF TypeOK, Herdr
<1>1. CASE Environment
  <2>1. ByHand \in Names
    BY DEF Names
  <2>2. CASE OpenTab
    BY <2>2 DEF OpenTab, Moves, Opening
  <2>3. CASE StartByHand
    BY <2>1, <2>3 DEF StartByHand, Moves, Starting
  <2>4. CASE ClosePane
    BY <1>h, <2>4, CloseFades DEF ClosePane, Moves
  <2>5. CASE ExitAgent
    BY <1>h, <2>5, ExitFades DEF Moves
  <2>6. CASE MovePane
    BY <2>6 DEF MovePane, Moves, Moving
  <2>7. CASE StartLate
    <3>1. PICK l \in late : Starts(l[1], l[2])
      BY <2>7 DEF StartLate
    <3>2. l[1] \in Names /\ l[2] \in Panes
      BY <3>1 DEF TypeOK, Starts, Startable, Names
    <3> QED
      BY <2>7, <3>1, <3>2 DEF StartLate, Moves, Starting
  <2> QED
    BY <1>1, <2>2, <2>3, <2>4, <2>5, <2>6, <2>7 DEF Environment
<1>2. CASE Session \/ Crash \/ UNCHANGED vars
  <2>1. UNCHANGED <<pane, fg, name, alive, moved>>
    BY <1>2 DEF Session, Sample, observeWorker, Outage, Crash, vars, herdrVars, history
  <2> QED
    BY <1>h, <2>1, StillFades DEF Moves
<1>3. CASE \E r \in Requests :
             Request(r) \/ Launch(r) \/ Bind(r) \/ Cleanup(r) \/ End(r) \/ Resolution(r)
  BY <1>3, RequestMoves
<1> QED
  BY <1>1, <1>2, <1>3 DEF Next

-----------------------------------------------------------------------------
(* Types.                                                                  *)

\* What may happen in Herdr leaves the types, and numbers stay numbers.
LEMMA MovesType ==
  ASSUME Herdr, Moves
  PROVE  Herdr' /\ Terms \subseteq Terms' /\ Agents \subseteq Agents'
<1>1. CASE Fading
  BY <1>1, Numbers DEF Herdr, Fading, Terms, Agents
<1>2. CASE Opening
  <2>1. PICK p \in Panes : Opens(p) /\ UNCHANGED <<name, alive, moved>>
    BY <1>2 DEF Opening
  <2>2. 0 \in 0..Len(name)
    BY Numbers
  <2>3. fg' \in Seq(0..Len(name)) /\ Len(fg') = Len(fg) + 1
    BY <2>1, <2>2, AppendProperties DEF Herdr, Opens
  <2> QED
    BY <2>1, <2>3, Numbers DEF Herdr, Opens, Terms, Agents
<1>3. CASE Starting
  <2>1. PICK n \in Names, p \in Panes : Starts(n, p) /\ UNCHANGED <<pane, moved>>
    BY <1>3 DEF Starting
  <2>2. name' \in Seq(Names) /\ Len(name') = Len(name) + 1
    BY <2>1, AppendProperties DEF Herdr, Starts
  <2>3. fg \in Seq(0..Len(name')) /\ pane[p] \in 1..Len(fg) /\ Len(name') \in 0..Len(name')
    <3>1. 0..Len(name) \subseteq 0..Len(name')
      BY <2>2, Numbers
    <3> QED
      BY <2>1, <2>2, <3>1, SeqMonotonic, Numbers DEF Herdr, Starts, Startable
  <2>4. fg' = [fg EXCEPT ![pane[p]] = Len(name')]
    BY <2>1, <2>2 DEF Starts
  <2>5. fg' \in Seq(0..Len(name')) /\ Len(fg') = Len(fg)
    BY <2>3, <2>4, ExceptSeq
  <2> QED
    BY <2>1, <2>2, <2>5, Numbers DEF Herdr, Starts, Terms, Agents
<1>4. CASE Moving
  BY <1>4, Numbers DEF Herdr, Moving, Terms, Agents
<1> QED
  BY <1>1, <1>2, <1>3, <1>4 DEF Moves

\* So rows, handlers and samples stay what they are.
LEMMA RowsStay ==
  ASSUME TypeOK, Moves
  PROVE  /\ Herdr' /\ Terms \subseteq Terms' /\ Agents \subseteq Agents'
         /\ RowIn(Standing) \subseteq RowIn(Standing)' /\ AnyRow \subseteq AnyRow'
         /\ Handler \subseteq Handler'
<1>1. Herdr' /\ Terms \subseteq Terms' /\ Agents \subseteq Agents'
  BY MovesType DEF TypeOK, Herdr
<1>2. RowIn(Standing) \subseteq RowIn(Standing)' /\ AnyRow \subseteq AnyRow'
  BY <1>1 DEF RowIn, AnyRow
<1>3. Handler \subseteq Handler'
  BY <1>2 DEF Handler
<1> QED
  BY <1>1, <1>2, <1>3

\* What the types say of rows, lanes and samples, and of requests.
Tables ==
  /\ late \subseteq Workers \X (Panes \cup {None})
  /\ row \in [Workers -> AnyRow]
  /\ lane \in [Workers -> Requests \cup {None}]
  /\ obs \in [worker: Workers \cup {None}, row: AnyRow,
              pane: Panes \cup {None}, term: Terms \cup {0}, name: Names \cup {None}]
  /\ stale \subseteq Requests /\ overlapped \subseteq Workers /\ resolved \subseteq Workers
Binds == {"recheck", "close", "capture", "take"}
Handlers ==
  /\ op \in [Requests -> Receipt \cup {NoOp}] /\ h \in [Requests -> Handler \cup {Free}]
  /\ \A r \in Requests : h[r] # Free => op[r] # NoOp
  /\ \A r \in Requests : h[r].step \in Binds => h[r].row.pane # None /\ h[r].row.term # 0

\* And of the disturbances and the resolutions in progress.
Marks == cleared \subseteq Requests /\ hits \subseteq Kinds

\* The types are these parts.
LEMMA TypeParts == TypeOK <=> Herdr /\ Tables /\ Handlers /\ Marks
  BY DEF TypeOK, Herdr, Tables, Handlers, Marks, Binds, AnyRow, AnyState

\* No row, and no handler.
LEMMA Nothing == NoRow \in AnyRow /\ Free \notin Handler /\ NoOp \notin Receipt
  BY DEF NoRow, AnyRow, AnyState, RowIn, Free, Handler, Steps, NoOp, Receipt

\* The tables stay, except for what a step changes.
LEMMA TablesStay ==
  ASSUME TypeOK, Moves, late' \subseteq Workers \X (Panes \cup {None}),
         row' \in [Workers -> AnyRow'] \/ row' = row,
         lane' \in [Workers -> Requests \cup {None}] \/ lane' = lane, obs' \in {obs, NoSample},
         stale' \subseteq Requests, overlapped' \subseteq Workers, resolved' \subseteq Workers
  PROVE  Tables'
<1>1. row' \in [Workers -> AnyRow'] /\ lane' \in [Workers -> Requests \cup {None}]
  BY TypeParts, RowsStay DEF Tables
<1>2. obs' \in [worker: Workers \cup {None}, row: AnyRow', pane: Panes \cup {None},
                term: Terms' \cup {0}, name: Names \cup {None}]
  <2>1. CASE obs' = obs
    BY <2>1, TypeParts, RowsStay DEF Tables
  <2>2. CASE obs' = NoSample
    <3>1. NoRow \in AnyRow'
      BY Nothing, RowsStay
    <3> QED
      BY <2>2, <3>1 DEF NoSample
  <2> QED
    BY <2>1, <2>2
<1> QED
  BY <1>1, <1>2 DEF Tables

\* A handler that goes on.
LEMMA GoesOn ==
  ASSUME TypeOK, Moves, NEW r \in Requests, h[r].step \in Steps,
         NEW x \in Handler', h' = [h EXCEPT ![r] = x], op' = op,
         x.step \in Binds => x.row.pane # None /\ x.row.term # 0
  PROVE  Handlers'
<1>1. h' \in [Requests -> (Handler \cup {Free})']
  BY TypeParts, RowsStay DEF Handlers, Free
<1> QED
  BY <1>1, TypeParts, BusyHandler, Nothing DEF Handlers, Free

\* A receipt that is written is a receipt.
LEMMA WrittenReceipt ==
  ASSUME TypeOK, NEW r \in Requests, op[r] \in Receipt,
         NEW s \in {"completed", "failed", "uncertain"},
         FinishTx(r, s) \/ op' = [op EXCEPT ![r].state = s]
  PROVE  /\ op'[r] \in Receipt /\ op' \in [Requests -> Receipt \cup {NoOp}]
         /\ \A q \in Requests \ {r} : op'[q] = op[q]
<1>1. CASE op' = op
  BY <1>1 DEF TypeOK
<1>2. CASE op' = [op EXCEPT ![r].state = s]
  <2>1. op'[r] = [op[r] EXCEPT !.state = s]
    BY <1>2 DEF TypeOK
  <2>2. op'[r] \in Receipt
    BY <2>1 DEF Receipt
  <2> QED
    BY <1>2, <2>2 DEF TypeOK
<1> QED
  BY <1>1, <1>2 DEF FinishTx

\* A handler that ends.
LEMMA Ends ==
  ASSUME TypeOK, Moves, NEW r \in Requests, h[r].step \in Steps,
         NEW s \in {"completed", "failed", "uncertain"},
         h' = [h EXCEPT ![r] = Free], FinishTx(r, s)
  PROVE  Handlers'
<1>1. /\ op'[r] \in Receipt /\ op' \in [Requests -> Receipt \cup {NoOp}]
      /\ \A q \in Requests \ {r} : op'[q] = op[q]
  BY BusyHandler, WrittenReceipt
<1>4. h' \in [Requests -> (Handler \cup {Free})']
  BY TypeParts, RowsStay DEF Handlers, Free
<1>5. Free.step \notin Binds
  BY DEF Free, Binds
<1> QED
  BY <1>1, <1>4, <1>5, TypeParts, Nothing DEF Handlers

\* A step of a handler is a change of its step, its answer or its row.
LEMMA Moved ==
  ASSUME TypeOK, Moves, NEW r \in Requests, h[r].step \in Steps,
         NEW s \in Steps, NEW a \in {"none", "ok", "refused", "lost"}, NEW l \in RowIn(Standing)'
  PROVE  /\ [h[r] EXCEPT !.step = s] \in Handler'
         /\ [h[r] EXCEPT !.step = s, !.answer = a] \in Handler'
         /\ [h[r] EXCEPT !.step = s, !.row = l] \in Handler'
         /\ [h[r] EXCEPT !.step = s, !.row = l, !.answer = a] \in Handler'
  BY RowsStay, BusyHandler DEF Handler

\* A step that only moves the handler on.
LEMMA GoType ==
  ASSUME TypeOK, Moves, NEW r \in Requests, h[r].step \in Steps,
         NEW s \in Steps, NEW a \in {"none", "ok", "refused", "lost"},
         Go(r, s) \/ Answered(r, a, s), op' = op,
         s \in Binds => h[r].row.pane # None /\ h[r].row.term # 0
  PROVE  Handlers'
<1>1. h[r] \in Handler
  BY BusyHandler
<1>2. CASE Go(r, s)
  <2> DEFINE x == [h[r] EXCEPT !.step = s]
  <2>1. x \in Handler'
    BY Moved, RowsStay, BusyHandler
  <2>2. x.row = h[r].row /\ x.step = s
    BY <1>1 DEF Handler
  <2>3. h' = [h EXCEPT ![r] = x]
    BY <1>2, Zenon DEF Go
  <2> QED
    BY <2>1, <2>2, <2>3, GoesOn
<1>3. CASE Answered(r, a, s)
  <2> DEFINE x == [h[r] EXCEPT !.step = s, !.answer = a]
  <2>1. x \in Handler'
    BY Moved, RowsStay, BusyHandler
  <2>2. x.row = h[r].row /\ x.step = s
    BY <1>1 DEF Handler
  <2>3. h' = [h EXCEPT ![r] = x]
    BY <1>3 DEF Answered, TypeOK
  <2> QED
    BY <2>1, <2>2, <2>3, GoesOn
<1> QED
  BY <1>2, <1>3

\* A row is written.
LEMMA RowType ==
  ASSUME TypeOK, Moves, NEW w \in Workers, NEW x \in AnyRow', row' = [row EXCEPT ![w] = x]
  PROVE  row' \in [Workers -> AnyRow']
  BY TypeParts, RowsStay DEF Tables

\* A row with another state, operation or pane is a row.
LEMMA RowChanges ==
  ASSUME TypeOK, Moves, NEW l \in AnyRow, NEW s \in AnyState, NEW r \in Requests,
         NEW p \in Panes \cup {None}
  PROVE  /\ [l EXCEPT !.state = s] \in AnyRow' /\ [l EXCEPT !.op = r] \in AnyRow'
         /\ [l EXCEPT !.state = s, !.op = r] \in AnyRow'
         /\ [l EXCEPT !.state = s, !.pane = p] \in AnyRow'
<1>1. l \in AnyRow'
  BY RowsStay
<1> QED
  BY <1>1 DEF AnyRow, RowIn

\* The binding that is captured.
LEMMA CapturedType ==
  ASSUME TypeOK, Moves, NEW l \in RowIn(Standing), l.pane # None, l.term # 0
  PROVE  Captured(l) \in RowIn(Standing)'
<1>1. l.term \in Terms
  BY DEF RowIn
<1>2. fg[l.term] \in Agents \cup {0}
  BY <1>1, Numbers, TypeParts
<1>3. Captured(l) \in RowIn(Standing)
  BY <1>2 DEF Captured, RowIn, Standing
<1> QED
  BY <1>3, RowsStay

\* The tables stay when none of them is written.
LEMMA StillTables ==
  ASSUME TypeOK, Moves, UNCHANGED <<late, row, lane, obs, overlapped, resolved>>,
         stale' \subseteq Requests
  PROVE  Tables'
  BY TablesStay, TypeParts DEF Tables

\* Looking at a pane is what a request does.
LEMMA OutdatesType == TypeOK => \A p : stale \cup LookedAt(p) \subseteq Requests
  BY DEF TypeOK, LookedAt

\* Fields of a handler's record are changed one after the other.
LEMMA HandlerFields ==
  ASSUME TypeOK, NEW r \in Requests, NEW s, NEW l, NEW a
  PROVE  /\ [h EXCEPT ![r].step = s, ![r].row = l]
              = [h EXCEPT ![r] = [h[r] EXCEPT !.step = s, !.row = l]]
         /\ [h EXCEPT ![r].step = s, ![r].row = l, ![r].answer = a]
              = [h EXCEPT ![r] = [h[r] EXCEPT !.step = s, !.row = l, !.answer = a]]
<1>1. \E Z : h \in [Requests -> Z]
  BY DEF TypeOK
<1> QED
  BY <1>1

\* The steps of a launch.
LEMMA LaunchType ==
  ASSUME TypeOK, Moves, NEW r \in Requests, Launch(r)
  PROVE  Tables' /\ Handlers'
<1>s. stale \subseteq Requests /\ late \subseteq Workers \X (Panes \cup {None})
      /\ overlapped \subseteq Workers /\ resolved \subseteq Workers
  BY DEF TypeOK
<1>1. CASE Record(r) \/ Route(r)
  <2>1. h[r].step \in Steps /\ {"shell", "tab"} \subseteq Steps \ Binds
    BY <1>1 DEF Record, Route, Steps, Binds
  <2>2. row' \in [Workers -> AnyRow']
    BY <1>1, <2>1, BusyHandler, RowsStay, RowType DEF Record, Route, Put
  <2>3. Tables'
    BY <1>1, <1>s, <2>2, TablesStay DEF Record, Route, Put, herdrVars, history
  <2>4. (Go(r, "shell") \/ Go(r, "tab")) /\ op' = op
    BY <1>1 DEF Record, Route, Put
  <2> QED
    BY <2>1, <2>3, <2>4, GoType
<1>2. CASE NewTab(r)
  <2>1. /\ h[r].step \in Steps /\ {"failing", "route"} \subseteq Steps \ Binds
    BY <1>2 DEF NewTab, Steps, Binds
  <2>2. Tables'
    BY <1>2, <1>s, StillTables, OutdatesType DEF NewTab, Outdates
  <2>3. PICK p \in Panes :
          /\ Opens(p)
          /\ \/ h' = [h EXCEPT ![r].step = "route",
                               ![r].row = [h[r].row EXCEPT !.pane = p, !.term = Len(fg) + 1]]
             \/ Answered(r, "lost", "failing")
    BY <1>2 DEF NewTab
  <2>4. CASE h' = [h EXCEPT ![r].step = "route",
                               ![r].row = [h[r].row EXCEPT !.pane = p, !.term = Len(fg) + 1]]
    <3> DEFINE l == [h[r].row EXCEPT !.pane = p, !.term = Len(fg) + 1]
               x == [h[r] EXCEPT !.step = "route", !.row = l]
    <3>1. Len(fg) + 1 \in Terms'
      BY <2>3, TypeParts, Numbers, AppendProperties DEF Herdr, Opens, Terms
    <3>2. l \in RowIn(Standing)'
      BY <2>1, <3>1, BusyHandler, RowsStay DEF RowIn
    <3>3. x \in Handler'
      BY <2>1, <3>2, Moved
    <3>4. x.step = "route"
      BY <2>1, BusyHandler DEF Handler
    <3>5. h' = [h EXCEPT ![r].step = "route", ![r].row = l] /\ op' = op
      BY <1>2, <2>4, Zenon DEF NewTab
    <3> HIDE DEF l
    <3>6. h' = [h EXCEPT ![r] = x]
      BY <3>5, HandlerFields
    <3> HIDE DEF x
    <3> QED
      BY <2>1, <2>2, <3>3, <3>4, <3>5, <3>6, GoesOn
  <2>5. CASE Answered(r, "lost", "failing")
    <3>1. op' = op
      BY <1>2 DEF NewTab
    <3> QED
      BY <2>1, <2>2, <2>5, <3>1, GoType
  <2> QED
    BY <2>3, <2>4, <2>5
<1>3. CASE NoTab(r)
  <2>1. h[r].step \in Steps /\ "failing" \in Steps \ Binds
    BY <1>3 DEF NoTab, Steps, Binds
  <2>2. Tables'
    BY <1>3, <1>s, StillTables DEF NoTab, herdrVars, history
  <2>3. op' = op /\ \E a \in {"lost", "refused"} : Answered(r, a, "failing")
    BY <1>3 DEF NoTab
  <2> QED
    BY <2>1, <2>2, <2>3, GoType
<1>4. CASE waitShellReady(r)
  <2>1. h[r].step \in Steps /\ {"start", "failing"} \subseteq Steps \ Binds
    BY <1>4 DEF waitShellReady, Steps, Binds
  <2>2. Tables'
    BY <1>4, <1>s, StillTables DEF waitShellReady, herdrVars, history
  <2>3. op' = op /\ (Go(r, "start") \/ Answered(r, "refused", "failing"))
    BY <1>4 DEF waitShellReady
  <2> QED
    BY <2>1, <2>2, <2>3, GoType
<1>5. CASE AgentStart(r)
  <2>1. h[r].step \in Steps /\ "confirm" \in Steps \ Binds
    BY <1>5 DEF AgentStart, Steps, Binds
  <2>2. h[r].worker \in Workers /\ h[r].row.pane \in Panes \cup {None}
    BY <2>1, BusyHandler DEF RowIn
  <2>3. late' \subseteq Workers \X (Panes \cup {None}) /\ stale' \subseteq Requests
    BY <1>5, <1>s, <2>2, OutdatesType DEF AgentStart, Outdates, herdrVars
  <2>4. Tables'
    BY <1>5, <1>s, <2>3, TablesStay DEF AgentStart
  <2>5. op' = op /\ \E a \in {"ok", "lost", "refused"} : Answered(r, a, "confirm")
    BY <1>5 DEF AgentStart
  <2> QED
    BY <2>1, <2>4, <2>5, GoType
<1>6. CASE Confirm(r)
  <2>1. h[r].step \in Steps /\ "capture" \in Steps /\ "failing" \in Steps \ Binds
    BY <1>6 DEF Confirm, Steps, Binds
  <2>2. Tables'
    BY <1>6, <1>s, StillTables DEF Confirm, herdrVars, history
  <2>3. op' = op /\ \/ Own(r) /\ Go(r, "capture")
                    \/ \E a \in {"lost", "refused"} : Answered(r, a, "failing")
    BY <1>6 DEF Confirm, Unconfirmed
  <2>4. Own(r) => h[r].row.pane # None /\ h[r].row.term # 0
    BY DEF Own, HasAgent
  <2> QED
    BY <2>1, <2>2, <2>3, <2>4, GoType
<1>7. CASE Capture(r)
  <2>1. /\ h[r].step \in Steps /\ {"failing", "commit"} \subseteq Steps \ Binds
        /\ h[r].row.pane # None /\ h[r].row.term # 0
    BY <1>7, TypeParts DEF Capture, Steps, Binds, Handlers
  <2>2. Tables'
    BY <1>7, <1>s, StillTables DEF Capture, herdrVars, history
  <2>3. Captured(h[r].row) \in RowIn(Standing)'
    BY <2>1, BusyHandler, CapturedType
  <2>4. CASE Answered(r, "lost", "failing")
    BY <1>7, <2>1, <2>2, <2>4, GoType DEF Capture
  <2>5. ASSUME NEW x \in Handler', h' = [h EXCEPT ![r] = x], x.step \notin Binds
        PROVE  Handlers'
    BY <1>7, <2>1, <2>5, GoesOn DEF Capture
  <2>6. CASE h' = [h EXCEPT ![r].step = "commit", ![r].row = Captured(h[r].row)]
    <3> DEFINE x == [h[r] EXCEPT !.step = "commit", !.row = Captured(h[r].row)]
    <3>1. x \in Handler'
      BY <2>1, <2>3, Moved
    <3>2. x.step = "commit"
      BY <2>1, BusyHandler DEF Handler
    <3>3. h' = [h EXCEPT ![r] = x]
      BY <2>6, HandlerFields
    <3> QED
      BY <2>1, <2>2, <2>5, <3>1, <3>2, <3>3
  <2>7. CASE h' = [h EXCEPT ![r].step = "failing", ![r].row = Captured(h[r].row), ![r].answer = "lost"]
    <3> DEFINE x == [h[r] EXCEPT !.step = "failing", !.row = Captured(h[r].row), !.answer = "lost"]
    <3>1. x \in Handler'
      BY <2>1, <2>3, Moved
    <3>2. x.step = "failing"
      BY <2>1, BusyHandler DEF Handler
    <3>3. h' = [h EXCEPT ![r] = x]
      BY <2>7, HandlerFields
    <3> QED
      BY <2>1, <2>2, <2>5, <3>1, <3>2, <3>3
  <2> QED
    BY <1>7, <2>4, <2>6, <2>7 DEF Capture
<1>8. CASE Commit(r)
  <2>1. h[r].step \in Steps
    BY <1>8 DEF Commit, Steps
  <2>2. row' \in [Workers -> AnyRow']
    BY <1>8, <2>1, BusyHandler, RowsStay, RowType DEF Commit
  <2>3. Tables'
    BY <1>8, <1>s, <2>2, TablesStay DEF Commit, herdrVars, history
  <2> QED
    BY <1>8, <2>1, <2>3, Ends DEF Commit, Completes
<1>9. CASE launchFailure(r)
  <2>1. h[r].step \in Steps /\ "ending" \in Steps \ Binds
    BY <1>9 DEF launchFailure, Steps, Binds
  <2>2. \E s \in AnyState : row' = [row EXCEPT ![h[r].worker] = [h[r].row EXCEPT !.state = s]]
    BY <1>9 DEF launchFailure, AnyState, Standing, Final
  <2>3. row' \in [Workers -> AnyRow']
    BY <2>1, <2>2, BusyHandler, RowChanges, RowType
  <2>4. Tables'
    BY <1>9, <1>s, <2>3, TablesStay DEF launchFailure, herdrVars, history
  <2>5. Go(r, "ending") /\ op' = op
    BY <1>9 DEF launchFailure
  <2> QED
    BY <2>1, <2>4, <2>5, GoType
<1> QED
  BY <1>1, <1>2, <1>3, <1>4, <1>5, <1>6, <1>7, <1>8, <1>9 DEF Launch

\* A request that ends without writing a row.
LEMMA RefusedType ==
  ASSUME TypeOK, Moves, NEW r \in Requests, h[r].step \in Steps,
         NEW s \in {"failed", "uncertain"}, GiveUp(r, s)
  PROVE  Tables' /\ Handlers'
<1>1. lane' \in [Workers -> Requests \cup {None}]
  BY TypeParts DEF GiveUp, Unlock, Tables
<1>2. Tables'
  BY <1>1, TablesStay DEF GiveUp, herdrVars, history, TypeOK
<1> QED
  BY <1>2, Ends DEF GiveUp

\* The steps of an adoption.
LEMMA BindType ==
  ASSUME TypeOK, Moves, NEW r \in Requests, Bind(r)
  PROVE  Tables' /\ Handlers'
<1>s. stale \subseteq Requests /\ late \subseteq Workers \X (Panes \cup {None})
      /\ overlapped \subseteq Workers /\ resolved \subseteq Workers
  BY DEF TypeOK
<1>1. CASE AdoptLook(r)
  <2>1. h[r].step \in Steps /\ "take" \in Steps
    BY <1>1 DEF AdoptLook, Steps
  <2>2. CASE Refuse(r) \/ Unread(r)
    BY <2>1, <2>2, RefusedType DEF Refuse, Unread
  <2>3. CASE ~(Refuse(r) \/ Unread(r))
    <3> DEFINE p == h[r].row.pane
               l == [h[r].row EXCEPT !.term = pane[p], !.name = name[AgentIn(p)]]
               x == [h[r] EXCEPT !.step = "take", !.row = l]
    <3>1. HasAgent(p) /\ h' = [h EXCEPT ![r].step = "take", ![r].row = l]
      BY <1>1, <2>3 DEF AdoptLook
    <3>2. UNCHANGED <<herdrVars, row, op, lane, obs, history>>
      BY <1>1, <2>3 DEF AdoptLook
    <3>3. p \in Panes /\ pane[p] \in Terms /\ AgentIn(p) \in Agents
      BY <2>1, <3>1, BusyHandler, Numbers, TypeParts DEF RowIn, HasAgent, AgentIn, Herdr
    <3>4. name[AgentIn(p)] \in Names
      BY <3>3, TypeParts DEF Herdr, Agents
    <3>5. l \in RowIn(Standing)' /\ l.pane = p /\ l.term # 0
      <4>1. l \in RowIn(Standing)
        BY <2>1, <3>3, <3>4, BusyHandler DEF RowIn
      <4>2. l.pane = p /\ l.term = pane[p]
        BY <2>1, BusyHandler DEF RowIn
      <4> QED
        BY <3>3, <4>1, <4>2, RowsStay, Numbers, TypeParts
    <3>6. Tables'
      BY <1>s, <3>2, TablesStay DEF herdrVars, history
    <3>7. p # None
      BY <3>1 DEF HasAgent
    <3> HIDE DEF l, p
    <3>8. x \in Handler'
      BY <2>1, <3>5, Moved
    <3>9. x.step = "take" /\ x.row = l
      BY <2>1, BusyHandler DEF Handler
    <3>10. h' = [h EXCEPT ![r] = x] /\ op' = op
      BY <3>1, <3>2, HandlerFields
    <3> HIDE DEF x
    <3> QED
      BY <2>1, <3>5, <3>6, <3>7, <3>8, <3>9, <3>10, GoesOn
  <2> QED
    BY <2>2, <2>3
<1>2. CASE AdoptCapture(r)
  <2>1. h[r].step \in Steps /\ h[r].row.pane # None /\ h[r].row.term # 0
    BY <1>2, TypeParts DEF AdoptCapture, Steps, Binds, Handlers
  <2>2. CASE Refuse(r)
    BY <2>1, <2>2, RefusedType DEF Refuse
  <2>3. CASE ~Refuse(r)
    <3> DEFINE x == [h[r] EXCEPT !.step = "bind", !.row = Captured(h[r].row)]
    <3>1. h' = [h EXCEPT ![r].step = "bind", ![r].row = Captured(h[r].row)]
          /\ UNCHANGED <<herdrVars, row, op, lane, obs, history>>
      BY <1>2, <2>3 DEF AdoptCapture
    <3>2. Tables'
      BY <1>s, <3>1, TablesStay DEF herdrVars, history
    <3>3. Captured(h[r].row) \in RowIn(Standing)' /\ "bind" \in Steps \ Binds
      BY <2>1, BusyHandler, CapturedType DEF Steps, Binds
    <3>4. x \in Handler'
      BY <2>1, <3>3, Moved
    <3>5. x.step = "bind"
      BY <2>1, BusyHandler DEF Handler
    <3>6. h' = [h EXCEPT ![r] = x]
      BY <3>1, HandlerFields
    <3> HIDE DEF x
    <3> QED
      BY <2>1, <3>1, <3>2, <3>3, <3>4, <3>5, <3>6, GoesOn
  <2> QED
    BY <2>2, <2>3
<1>3. CASE AdoptCommit(r)
  <2>1. h[r].step \in Steps
    BY <1>3 DEF AdoptCommit, Steps
  <2>2. CASE Refuse(r)
    BY <2>1, <2>2, RefusedType DEF Refuse
  <2>3. CASE ~Refuse(r)
    <3>1. /\ row' = [row EXCEPT ![h[r].worker] = h[r].row] /\ Completes(r) /\ Unlock(r)
          /\ overlapped' \in {overlapped, overlapped \cup {h[r].worker}}
          /\ UNCHANGED <<herdrVars, obs, moved, stale, resolved>>
      BY <1>3, <2>3 DEF AdoptCommit
    <3>2. row' \in [Workers -> AnyRow']
      BY <2>1, <3>1, BusyHandler, RowsStay, RowType
    <3>3. lane' \in [Workers -> Requests \cup {None}]
      BY <3>1, TypeParts DEF Unlock, Tables
    <3>4. overlapped' \subseteq Workers
      BY <1>s, <2>1, <3>1, BusyHandler
    <3>5. Tables'
      BY <1>s, <3>1, <3>2, <3>3, <3>4, TablesStay DEF herdrVars
    <3> QED
      BY <2>1, <3>1, <3>5, Ends DEF Completes
  <2> QED
    BY <2>2, <2>3
<1> QED
  BY <1>1, <1>2, <1>3 DEF Bind

\* The steps of a release that only move it on.
LEMMA CleanupGoes ==
  ASSUME TypeOK, Moves, NEW r \in Requests,
         Inspect(r) \/ Recheck(r) \/ Close(r) \/ Signal(r) \/ Verify(r) \/ Retire(r)
  PROVE  Tables' /\ Handlers'
<1>s. stale \subseteq Requests /\ late \subseteq Workers \X (Panes \cup {None})
      /\ overlapped \subseteq Workers /\ resolved \subseteq Workers
  BY DEF TypeOK
<1>1. h[r].step \in Steps
  BY DEF Inspect, Recheck, Close, Signal, Verify, Retire, Steps
<1>2. CASE Refuse(r) \/ Unread(r)
  BY <1>1, <1>2, RefusedType DEF Refuse, Unread
<1>3. CASE ~(Refuse(r) \/ Unread(r))
  <2>1. UNCHANGED <<late, row, lane, obs, overlapped, resolved>> /\ op' = op
    BY <1>3 DEF Inspect, Recheck, Close, Signal, Verify, Retire, herdrVars, history
  <2>2. stale' \subseteq Requests
    BY <1>3, <1>s DEF Inspect, Recheck, Close, Signal, Verify, Retire, LookedAt, history
  <2>3. Tables'
    BY <2>1, <2>2, StillTables
  <2>4. \E s \in Steps, a \in {"lost", "refused"} :
          /\ Go(r, s) \/ Answered(r, a, s)
          /\ s \in Binds => h[r].row.pane # None /\ h[r].row.term # 0
    <3>1. CASE Inspect(r) /\ h[r].row.pane # None
      <4>1. verifyAttachment(h[r].row, h[r].row.pane) => h[r].row.term # 0
        BY DEF verifyAttachment, HasAgent
      <4>2. Go(r, IF verifyAttachment(h[r].row, h[r].row.pane) THEN "recheck" ELSE "retire")
        BY <1>3, <3>1 DEF Inspect
      <4> QED
        BY <3>1, <4>1, <4>2 DEF Steps, Binds
    <3>2. CASE Recheck(r)
      <4>1. h[r].row.pane # None /\ h[r].row.term # 0
        BY <3>2, TypeParts DEF Recheck, Binds, Handlers
      <4> QED
        BY <1>3, <3>2, <4>1 DEF Recheck, Steps
    <3>3. CASE Close(r) \/ Signal(r) \/ Verify(r) \/ Retire(r)
      BY <1>3, <3>3 DEF Close, Signal, Verify, Retire, Steps, Binds
    <3> QED
      BY <1>3, <3>1, <3>2, <3>3 DEF Inspect
  <2> QED
    BY <1>1, <2>1, <2>3, <2>4, GoType
<1> QED
  BY <1>2, <1>3

\* The steps of a release that write a row.
LEMMA CleanupWrites ==
  ASSUME TypeOK, Moves, NEW r \in Requests, Unsure(r) \/ Seal(r) \/ RetireCommit(r)
  PROVE  Tables' /\ Handlers'
<1>s. stale \subseteq Requests /\ late \subseteq Workers \X (Panes \cup {None})
      /\ overlapped \subseteq Workers /\ resolved \subseteq Workers
  BY DEF TypeOK
<1>1. h[r].step \in Steps /\ "ending" \in Steps \ Binds /\ {"offline", "released"} \subseteq AnyState
  BY DEF Unsure, Seal, RetireCommit, Steps, Binds, AnyState, Standing, Final
<1>2. CASE Refuse(r)
  BY <1>1, <1>2, RefusedType DEF Refuse
<1>3. CASE ~Refuse(r)
  <2>1. UNCHANGED <<late, obs, stale, overlapped, resolved>>
    BY <1>3 DEF Unsure, Seal, RetireCommit, herdrVars, history
  <2>2. lane' \in [Workers -> Requests \cup {None}]
    BY <1>3, TypeParts DEF Unsure, Seal, RetireCommit, Unlock, Tables
  <2>3. CASE Unsure(r)
    <3>1. row' = [row EXCEPT ![h[r].worker] = [h[r].row EXCEPT !.state = "offline"]]
          /\ Go(r, "ending") /\ op' = op
      BY <2>3 DEF Unsure
    <3>2. row' \in [Workers -> AnyRow']
      BY <1>1, <3>1, BusyHandler, RowChanges, RowType
    <3>3. Tables'
      BY <1>s, <2>1, <2>2, <3>2, TablesStay
    <3> QED
      BY <1>1, <3>1, <3>3, GoType
  <2>4. CASE Seal(r)
    <3>1. row' = [row EXCEPT ![h[r].worker] = [h[r].row EXCEPT !.state = "released"]]
          /\ Completes(r)
      BY <2>4 DEF Seal
    <3>2. row' \in [Workers -> AnyRow']
      BY <1>1, <3>1, BusyHandler, RowChanges, RowType
    <3>3. Tables'
      BY <1>s, <2>1, <2>2, <3>2, TablesStay
    <3> QED
      BY <1>1, <3>1, <3>3, Ends DEF Completes
  <2>5. CASE RetireCommit(r)
    <3> DEFINE w == h[r].worker
               x == [row[w] EXCEPT !.state = "released", !.op = r]
    <3>1. row' = [row EXCEPT ![w] = x] /\ Completes(r)
      <4>1. row' = [row EXCEPT ![w].state = "released", ![w].op = r] /\ Completes(r)
        BY <1>3, <2>5 DEF RetireCommit
      <4>2. \E Z : row \in [Workers -> Z]
        BY TypeParts DEF Tables
      <4> QED
        BY <4>1, <4>2
    <3>2. w \in Workers /\ row[w] \in AnyRow
      BY <1>1, BusyHandler, TypeParts DEF Tables
    <3>3. x \in AnyRow'
      BY <1>1, <3>2, RowChanges
    <3> HIDE DEF x, w
    <3>4. row' \in [Workers -> AnyRow']
      BY <3>1, <3>2, <3>3, RowType
    <3>5. Tables'
      BY <1>s, <2>1, <2>2, <3>4, TablesStay
    <3> QED
      BY <1>1, <3>1, <3>5, Ends DEF Completes
  <2> QED
    BY <2>3, <2>4, <2>5
<1> QED
  BY <1>2, <1>3

\* A receipt that is written at last.
LEMMA EndType ==
  ASSUME TypeOK, Moves, NEW r \in Requests, End(r)
  PROVE  Tables' /\ Handlers'
<1>1. h[r].step \in Steps
  BY DEF End, Steps
<1>2. Tables'
  BY StillTables, TypeParts DEF End, herdrVars, history, Tables
<1>3. \E s \in {"uncertain", "failed"} : FinishTx(r, s)
  BY DEF End
<1>4. h' = [h EXCEPT ![r] = Free]
  BY DEF End
<1> QED
  BY <1>1, <1>2, <1>3, <1>4, Ends

\* A request that begins.
LEMMA BeginType ==
  ASSUME TypeOK, Moves, NEW r \in Requests, NEW w \in Workers,
         NEW kind \in {"spawn", "adopt", "release"}, NEW l \in RowIn(Standing)',
         NEW s \in Steps \ Binds, Begin(r, kind, w, l, s)
  PROVE  Handlers'
<1> DEFINE x == [step |-> s, worker |-> w, row |-> l, answer |-> "none"]
           y == [state |-> "accepted", kind |-> kind, worker |-> w]
<1>1. h' = [h EXCEPT ![r] = x] /\ op' = [op EXCEPT ![r] = y]
  BY DEF Begin
<1>2. x \in Handler' /\ x.step \notin Binds /\ y \in Receipt
  BY DEF Handler, Receipt
<1> HIDE DEF x, y
<1>3. h' \in [Requests -> (Handler \cup {Free})'] /\ op' \in [Requests -> Receipt \cup {NoOp}]
  BY <1>1, <1>2, TypeParts, RowsStay DEF Handlers, Free
<1> QED
  BY <1>1, <1>2, <1>3, TypeParts, Nothing DEF Handlers

\* The rows with which requests begin.
LEMMA FirstRow ==
  ASSUME TypeOK, Moves, NEW r \in Requests, NEW w \in Workers
  PROVE  [NoRow EXCEPT !.state = "starting", !.name = w, !.attach = r, !.op = r]
           \in RowIn(Standing)'
<1>1. [NoRow EXCEPT !.state = "starting", !.name = w, !.attach = r, !.op = r] \in RowIn(Standing)
  BY DEF NoRow, RowIn, Standing, AnyRow, AnyState, Names
<1> QED
  BY <1>1, RowsStay

LEMMA FirstRows ==
  ASSUME TypeOK, Moves, NEW r \in Requests, NEW w \in Workers, NEW p \in Panes
  PROVE  /\ [NoRow EXCEPT !.state = "starting", !.name = w, !.attach = r, !.op = r,
                          !.pane = p, !.term = pane[p]] \in RowIn(Standing)'
         /\ [NoRow EXCEPT !.state = "live", !.pane = p, !.attach = r, !.op = r]
              \in RowIn(Standing)'
<1>1. pane[p] \in Terms \cup {0}
  BY Numbers, TypeParts DEF Herdr
<1>2. /\ [NoRow EXCEPT !.state = "starting", !.name = w, !.attach = r, !.op = r,
                       !.pane = p, !.term = pane[p]] \in RowIn(Standing)
      /\ [NoRow EXCEPT !.state = "live", !.pane = p, !.attach = r, !.op = r]
           \in RowIn(Standing)
  BY <1>1 DEF NoRow, RowIn, Standing, AnyRow, AnyState, Names
<1> QED
  BY <1>2, RowsStay

\* Requests begin.
LEMMA RequestType ==
  ASSUME TypeOK, Moves, NEW r \in Requests, Request(r)
  PROVE  Tables' /\ Handlers'
<1>s. stale \subseteq Requests /\ late \subseteq Workers \X (Panes \cup {None})
      /\ overlapped \subseteq Workers /\ resolved \subseteq Workers
  BY DEF TypeOK
<1>b. {"tab", "record", "look", "inspect"} \subseteq Steps \ Binds
  BY DEF Steps, Binds
<1>1. PICK w \in Workers :
        \/ Spawn(r, w) \/ Release(r, w) \/ \E p \in Panes : SpawnInPane(r, w, p) \/ Adopt(r, w, p)
  BY DEF Request
<1>2. CASE Spawn(r, w)
  <2> DEFINE l == [NoRow EXCEPT !.state = "starting", !.name = w, !.attach = r, !.op = r]
  <2>1. Begin(r, "spawn", w, l, "record")
    BY <1>2 DEF Spawn
  <2>2. l \in RowIn(Standing)'
    BY FirstRow
  <2>3. Tables'
    BY <1>2, <1>s, TablesStay DEF Spawn, herdrVars, history
  <2> HIDE DEF l
  <2> QED
    BY <1>b, <2>1, <2>2, <2>3, BeginType
<1>3. ASSUME NEW p \in Panes, SpawnInPane(r, w, p)
      PROVE  Tables' /\ Handlers'
  <2> DEFINE l == [NoRow EXCEPT !.state = "starting", !.name = w, !.attach = r, !.op = r,
                                !.pane = p, !.term = pane[p]]
  <2>1. Begin(r, "spawn", w, l, "record")
    BY <1>3 DEF SpawnInPane
  <2>2. l \in RowIn(Standing)'
    BY FirstRows
  <2>3. Tables'
    BY <1>3, <1>s, TablesStay DEF SpawnInPane, herdrVars, history
  <2> HIDE DEF l
  <2> QED
    BY <1>b, <2>1, <2>2, <2>3, BeginType
<1>4. ASSUME NEW p \in Panes, Adopt(r, w, p)
      PROVE  Tables' /\ Handlers'
  <2> DEFINE l == [NoRow EXCEPT !.state = "live", !.pane = p, !.attach = r, !.op = r]
  <2>1. Begin(r, "adopt", w, l, "look")
    BY <1>4 DEF Adopt
  <2>2. l \in RowIn(Standing)'
    BY FirstRows
  <2>3. lane' \in [Workers -> Requests \cup {None}]
    BY <1>4, TypeParts DEF Adopt, Tables
  <2>4. Tables'
    BY <1>4, <1>s, <2>3, TablesStay DEF Adopt, herdrVars, history
  <2> HIDE DEF l
  <2> QED
    BY <1>b, <2>1, <2>2, <2>4, BeginType
<1>5. CASE Release(r, w)
  <2> DEFINE l == [row[w] EXCEPT !.op = r]
  <2>1. Begin(r, "release", w, l, "inspect")
    BY <1>5 DEF Release
  <2>2. row[w] \in AnyRow /\ row[w].state \in Standing
    BY <1>5, TypeParts DEF Release, Owned, Tables, AnyRow, AnyState, RowIn
  <2>3. row' = [row EXCEPT ![w] = l]
    <3>1. row' = [row EXCEPT ![w].op = r]
      BY <1>5 DEF Release
    <3>2. \E Z : row \in [Workers -> Z]
      BY TypeParts DEF Tables
    <3> QED
      BY <3>1, <3>2
  <2>4. l \in AnyRow' /\ l \in RowIn(Standing)'
    BY <2>2, RowsStay DEF AnyRow, RowIn
  <2>5. lane' \in [Workers -> Requests \cup {None}]
    BY <1>5, TypeParts DEF Release, Tables
  <2> HIDE DEF l
  <2>6. row' \in [Workers -> AnyRow']
    BY <2>3, <2>4, RowType
  <2>7. Tables'
    BY <1>5, <1>s, <2>5, <2>6, TablesStay DEF Release, herdrVars, history
  <2> QED
    BY <1>b, <2>1, <2>4, <2>7, BeginType
<1> QED
  BY <1>1, <1>2, <1>3, <1>4, <1>5

\* The transaction of a resolution writes a receipt, and perhaps the state of a row.
LEMMA ResolveType ==
  ASSUME TypeOK, Moves, NEW r \in Requests, Resolve(r)
  PROVE  Tables' /\ Handlers'
<1>s. stale \subseteq Requests /\ late \subseteq Workers \X (Panes \cup {None})
      /\ overlapped \subseteq Workers /\ resolved \subseteq Workers
  BY DEF TypeOK
<1>1. op[r] \in Receipt /\ op[r].worker \in Workers
  BY DEF Resolve, Unsettled, TypeOK, NoOp, Receipt
<1>2. PICK s \in {"failed", "completed"} : op' = [op EXCEPT ![r].state = s]
  BY DEF Resolve
<1>3. op'[r] \in Receipt /\ op' \in [Requests -> Receipt \cup {NoOp}]
  BY <1>1, <1>2, WrittenReceipt
<1>5. h' = h
  BY DEF Resolve
<1>6. h' \in [Requests -> (Handler \cup {Free})']
  BY <1>5, TypeParts, RowsStay DEF Handlers, Free
<1>7. Handlers'
  BY <1>2, <1>3, <1>5, <1>6, TypeParts, Nothing DEF Handlers
<1>8. row' \in [Workers -> AnyRow'] \/ row' = row
  <2>1. ASSUME row' = [row EXCEPT ![op[r].worker].state = "failed"]
        PROVE  row' \in [Workers -> AnyRow']
    <3> DEFINE w == op[r].worker
               x == [row[w] EXCEPT !.state = "failed"]
    <3>1. \E Z : row \in [Workers -> Z]
      BY TypeParts DEF Tables
    <3>2. row' = [row EXCEPT ![w] = x]
      BY <2>1, <3>1
    <3>3. row[w] \in AnyRow /\ "failed" \in AnyState
      BY <1>1, TypeParts DEF Tables, AnyState, Final
    <3>4. x \in AnyRow'
      BY <3>3, RowChanges
    <3> HIDE DEF x
    <3> QED
      BY <1>1, <3>2, <3>4, RowType
  <2> QED
    BY <2>1 DEF Resolve
<1>9. resolved' \subseteq Workers /\ overlapped' \subseteq Workers
  BY <1>1, <1>s DEF Resolve
<1> QED
  BY <1>s, <1>7, <1>8, <1>9, TablesStay DEF Resolve, herdrVars

\* A person settles what was left.
LEMMA ResolutionType ==
  ASSUME TypeOK, Moves, NEW r \in Requests, Resolution(r)
  PROVE  Tables' /\ Handlers'
<1>1. CASE Resolve(r)
  BY <1>1, ResolveType
<1>2. CASE ResolveLooks(r) \/ ResolveRejected(r)
  <2>1. UNCHANGED <<late, row, op, h, lane, obs, stale, overlapped, resolved>>
    BY <1>2 DEF ResolveLooks, ResolveRejected, herdrVars, history
  <2>2. Tables'
    BY <2>1, StillTables DEF TypeOK
  <2> QED
    BY <2>1, <2>2, TypeParts, RowsStay DEF Handlers, Free
<1> QED
  BY <1>1, <1>2 DEF Resolution

\* Disturbances happen once each, and resolutions are of requests.
LEMMA MarksType ==
  ASSUME Marks, [Next]_vars
  PROVE  Marks'
<1>1. CASE Environment \/ Session \/ Crash \/ UNCHANGED vars
  BY <1>1 DEF Marks, Environment, OpenTab, StartByHand, ClosePane, ExitAgent, MovePane, StartLate,
     Outside, Session, Sample, observeWorker, Outage, Crash, Calm, Disturb, Occurs, vars
<1>2. ASSUME NEW r \in Requests, Request(r) \/ Launch(r)
      PROVE  Marks'
  BY <1>2 DEF Marks, Request, Spawn, SpawnInPane, Adopt, Release, Launch, Record, NewTab, NoTab,
     Route, Put, waitShellReady, AgentStart, Confirm, Capture, Commit, launchFailure, Calm, Disturb,
     Occurs
<1>3. ASSUME NEW r \in Requests, Bind(r) \/ Cleanup(r) \/ End(r)
      PROVE  Marks'
  BY <1>3 DEF Marks, Bind, AdoptLook, AdoptCapture, AdoptCommit, Unread, Cleanup, Inspect, Recheck,
     Close, Signal, Verify, Unsure, Seal, Retire, RetireCommit, End, Calm, Disturb, Occurs
<1>4. ASSUME NEW r \in Requests, Resolution(r)
      PROVE  Marks'
  BY <1>4 DEF Marks, Resolution, ResolveLooks, Resolve, ResolveRejected, Occurs
<1> QED
  BY <1>1, <1>2, <1>3, <1>4 DEF Next

\* The steps of the session lane.
LEMMA SessionType ==
  ASSUME TypeOK, Moves, Session
  PROVE  Tables' /\ Handlers'
<1>s. stale \subseteq Requests /\ late \subseteq Workers \X (Panes \cup {None})
      /\ overlapped \subseteq Workers /\ resolved \subseteq Workers
  BY DEF TypeOK
<1>1. UNCHANGED <<late, op, h, lane, stale, overlapped, resolved>>
  BY DEF Session, Sample, observeWorker, Outage, herdrVars, history
<1>2. Handlers'
  BY <1>1, TypeParts, RowsStay DEF Handlers, Free
<1>3. ASSUME NEW w \in Workers, Sample(w)
      PROVE  Tables'
  <2> DEFINE c == Candidate(row[w])
  <2>1. row[w] \in AnyRow /\ row \in [Workers -> AnyRow']
    BY TypeParts, RowsStay DEF Tables
  <2>2. HasAgent(c) => c \in Panes
    <3> DEFINE there == {p \in Panes : /\ row[w].proc # 0 /\ pane[p] = row[w].term
                                       /\ HasAgent(p) /\ name[AgentIn(p)] = row[w].name}
    <3>1. c = IF there # {} THEN CHOOSE p \in there : TRUE ELSE row[w].pane
      BY DEF Candidate
    <3>2. row[w].pane \in Panes \cup {None}
      BY <2>1 DEF AnyRow, RowIn
    <3> QED
      BY <3>1, <3>2 DEF HasAgent
  <2>3. obs' = IF HasAgent(c)
               THEN [worker |-> w, row |-> row[w], pane |-> c, term |-> pane[c],
                     name |-> name[AgentIn(c)]]
               ELSE [worker |-> w, row |-> row[w], pane |-> None, term |-> 0, name |-> None]
    BY <1>3 DEF Sample
  <2> HIDE DEF c
  <2>4. HasAgent(c) => pane[c] \in Terms /\ name[AgentIn(c)] \in Names
    BY <2>2, Numbers, TypeParts DEF HasAgent, AgentIn, Herdr
  <2>5. obs' \in [worker: Workers \cup {None}, row: AnyRow', pane: Panes \cup {None},
                  term: Terms' \cup {0}, name: Names \cup {None}]
    BY <2>1, <2>2, <2>3, <2>4, RowsStay
  <2>6. row' = row
    BY <1>3 DEF Sample
  <2> QED
    BY <1>1, <2>1, <2>5, <2>6, TypeParts DEF Tables
<1>4. CASE observeWorker
  <2> DEFINE w == obs.worker
             l == row[w]
             x == Observed(l)
  <2>1. row' = row \/ (w \in Workers /\ row' = [row EXCEPT ![w] = x])
    BY <1>4, TypeParts DEF observeWorker, Tables
  <2>2. ASSUME w \in Workers
        PROVE  x \in AnyRow'
    <3>1. l \in AnyRow /\ obs.pane \in Panes \cup {None} /\ {"live", "lost"} \subseteq AnyState
      BY <2>2, TypeParts DEF Tables, AnyState, Standing
    <3>2. \/ x = [l EXCEPT !.state = "live", !.pane = obs.pane] \/ x = l
          \/ x = [l EXCEPT !.state = "lost"]
      BY DEF Observed
    <3>3. \E s \in AnyState : x = l \/ x = [l EXCEPT !.state = s, !.pane = obs.pane]
                              \/ x = [l EXCEPT !.state = s]
      BY <3>1, <3>2
    <3> HIDE DEF x, l
    <3>4. /\ \A s \in AnyState : [l EXCEPT !.state = s] \in AnyRow'
          /\ \A s \in AnyState : [l EXCEPT !.state = s, !.pane = obs.pane] \in AnyRow'
      BY <3>1, RowsStay DEF AnyRow, RowIn
    <3> QED
      BY <3>1, <3>3, <3>4, RowsStay
  <2> HIDE DEF x
  <2>3. row' \in [Workers -> AnyRow'] \/ row' = row
    BY <2>1, <2>2, RowType
  <2>4. obs' = NoSample
    BY <1>4 DEF observeWorker
  <2> QED
    BY <1>s, <1>1, <1>2, <2>3, <2>4, TablesStay
<1>5. CASE Outage
  <2>1. "offline" \in AnyState /\ row \in [Workers -> AnyRow]
    BY TypeParts DEF Tables, AnyState, Standing
  <2>2. \A w \in Workers : [row[w] EXCEPT !.state = "offline"] \in AnyRow'
    BY <2>1, RowsStay DEF AnyRow, RowIn
  <2>3. row' \in [Workers -> AnyRow'] /\ obs' = obs
    BY <1>5, <2>1, <2>2, RowsStay DEF Outage
  <2> QED
    BY <1>s, <1>1, <1>2, <2>3, TablesStay
<1> QED
  BY <1>2, <1>3, <1>4, <1>5 DEF Session

\* The steps of Herdr, and a crash.
LEMMA OutsideType ==
  ASSUME TypeOK, Moves, Environment \/ Crash \/ UNCHANGED vars
  PROVE  Tables' /\ Handlers'
<1>s. stale \subseteq Requests /\ late \subseteq Workers \X (Panes \cup {None})
      /\ overlapped \subseteq Workers /\ resolved \subseteq Workers
  BY DEF TypeOK
<1>1. CASE Environment
  <2>1. UNCHANGED <<row, op, h, lane, obs, overlapped, resolved>> /\ late' \subseteq late
    BY <1>1 DEF Environment, OpenTab, StartByHand, ClosePane, ExitAgent, MovePane, StartLate, Outside
  <2>2. stale' \subseteq Requests
    BY <1>1, <1>s DEF Environment, OpenTab, StartByHand, ClosePane, ExitAgent, MovePane, StartLate,
       Outdates, LookedAt
  <2>3. Tables'
    BY <1>s, <2>1, <2>2, TablesStay
  <2>4. Handlers'
    BY <2>1, TypeParts, RowsStay DEF Handlers, Free
  <2> QED
    BY <2>3, <2>4
<1>2. CASE Crash
  <2>1. /\ h' = [r \in Requests |-> Free] /\ lane' = [w \in Workers |-> None] /\ obs' = NoSample
        /\ stale' = {} /\ UNCHANGED <<row, op, overlapped, resolved>>
        /\ late' = late \cup {<<h[r].worker, h[r].row.pane>> : r \in {q \in Requests : h[q].step = "start"}}
    BY <1>2 DEF Crash
  <2>2. \A r \in Requests : h[r].step = "start" =>
          h[r].worker \in Workers /\ h[r].row.pane \in Panes \cup {None}
    BY BusyHandler DEF Steps, RowIn
  <2>3. late' \subseteq Workers \X (Panes \cup {None})
    BY <1>s, <2>1, <2>2
  <2>4. Tables'
    BY <1>s, <2>1, <2>3, TablesStay
  <2>5. Free.step \notin Binds
    BY DEF Free, Binds
  <2>6. Handlers'
    BY <2>1, <2>5, TypeParts DEF Handlers, Free
  <2> QED
    BY <2>4, <2>6
<1>3. CASE UNCHANGED vars
  <2>1. UNCHANGED <<late, row, op, h, lane, obs, stale, overlapped, resolved>>
    BY <1>3 DEF vars, herdrVars, history
  <2>2. Tables'
    BY <1>s, <2>1, TablesStay
  <2> QED
    BY <2>1, <2>2, TypeParts, RowsStay DEF Handlers, Free
<1> QED
  BY <1>1, <1>2, <1>3

\* The first state has its types.
LEMMA InitType == Init => TypeOK
<1> SUFFICES ASSUME Init PROVE TypeOK
  OBVIOUS
<1>1. late = {} /\ op = [r \in Requests |-> NoOp] /\ h = [r \in Requests |-> Free]
      /\ lane = [w \in Workers |-> None] /\ obs = NoSample /\ cleared = {} /\ hits = {}
      /\ moved = {} /\ stale = {} /\ overlapped = {} /\ resolved = {}
  BY DEF Init
<1>2. Handlers
  BY <1>1 DEF Handlers, Binds, Free
<1>3. Herdr /\ row \in [Workers -> AnyRow]
  <2>1. CASE /\ pane = [p \in Panes |-> 0] /\ fg = <<>> /\ name = <<>> /\ alive = {}
             /\ row = [w \in Workers |-> NoRow]
    <3>1. fg \in Seq(0..Len(name)) /\ name \in Seq(Names)
      BY <2>1
    <3> QED
      BY <1>1, <2>1, <3>1, Nothing DEF Herdr, Agents, Terms
  <2>2. ASSUME NEW v \in Workers, NEW p \in Panes,
               pane = [q \in Panes |-> IF q = p THEN 1 ELSE 0],
               fg = << 1 >>, name = <<v>>, alive = {1},
               row = [w \in Workers |-> IF w # v THEN NoRow
                                        ELSE [Established EXCEPT !.pane = p, !.name = v]]
        PROVE  Herdr /\ row \in [Workers -> AnyRow]
    <3>1. Len(fg) = 1 /\ Len(name) = 1 /\ Terms = 1..1 /\ Agents = 1..1
      BY <2>2 DEF Terms, Agents
    <3>2. fg \in Seq(0..Len(name)) /\ name \in Seq(Names)
      BY <2>2, <3>1 DEF Names
    <3>3. [Established EXCEPT !.pane = p, !.name = v] \in AnyRow
      <4>1. Established \in AnyRow
        <5>1. "live" \in AnyState /\ 1 \in Terms /\ 1 \in Agents
          BY <3>1 DEF AnyState, Standing
        <5> QED
          BY <5>1, Nothing DEF Established, AnyRow, RowIn
      <4> QED
        BY <4>1 DEF AnyRow, RowIn, Names
    <3>4. alive \subseteq Agents /\ pane \in [Panes -> 0..Len(fg)]
      BY <2>2, <3>1
    <3>5. row \in [Workers -> AnyRow]
      BY <2>2, <3>3, Nothing
    <3> QED
      BY <1>1, <3>2, <3>4, <3>5 DEF Herdr
  <2> QED
    BY <2>1, <2>2 DEF Init
<1>4. Tables /\ Marks
  BY <1>1, <1>3, Nothing DEF Tables, Marks, NoSample
<1> QED
  BY <1>2, <1>3, <1>4, TypeParts

\* Every step leaves the types.
LEMMA NextType == TypeOK /\ [Next]_vars => TypeOK'
<1> SUFFICES ASSUME TypeOK, [Next]_vars PROVE TypeOK'
  OBVIOUS
<1>1. Moves
  BY NextMoves
<1>2. Herdr'
  BY <1>1, RowsStay
<1>3. Tables' /\ Handlers'
  <2>1. CASE \E r \in Requests :
               Request(r) \/ Launch(r) \/ Bind(r) \/ Cleanup(r) \/ End(r) \/ Resolution(r)
    BY <1>1, <2>1, RequestType, LaunchType, BindType, CleanupGoes, CleanupWrites, EndType,
       ResolutionType DEF Cleanup
  <2>2. CASE Session
    BY <1>1, <2>2, SessionType
  <2>3. CASE Environment \/ Crash \/ UNCHANGED vars
    BY <1>1, <2>3, OutsideType
  <2> QED
    BY <2>1, <2>2, <2>3 DEF Next
<1>m. Marks'
  BY TypeParts, MarksType
<1>4. (Herdr /\ Tables /\ Handlers /\ Marks)'
  BY <1>2, <1>3, <1>m
<1> QED
  BY <1>4, TypeParts, PTL

\* Every variable has its type in every behaviour.
THEOREM TypeCorrect == Spec => []TypeOK
<1>1. Init => TypeOK
  BY InitType
<1>2. TypeOK /\ [Next]_vars => TypeOK'
  BY NextType
<1> QED
  BY <1>1, <1>2, PTL DEF Spec

-----------------------------------------------------------------------------
(* Released workers are gone.                                              *)

\* A terminal is in one pane, and a process in one terminal.
Place ==
  /\ \A p, q \in Panes : pane[p] = pane[q] /\ pane[p] # 0 => p = q
  /\ \A s, t \in Terms : fg[s] = fg[t] /\ fg[s] # 0 => s = t

\* The process of a binding runs in front of no terminal but its own, which is in no pane but
\* its own unless it moved: in panes P, terminals F, moved M.
Tied(l, P, F, M) ==
  /\ l.proc # 0 => l.term # 0 /\ \A t \in DOMAIN F : F[t] = l.proc => t = l.term
  /\ l.term \in M \cup {0} \/ \A p \in Panes : P[p] = l.term => p = l.pane

\* A binding whose process and terminal are gone.
Left(l, P, A, M) ==
  /\ l.proc # 0 /\ l.proc \notin A /\ l.term # 0
  /\ l.term \in M \/ \A p \in Panes : P[p] # l.term

RowSafe(l, P, F, A, M) == Tied(l, P, F, M) /\ (l.state = "released" => Left(l, P, A, M))

\* What a handler that removes a worker knows at each step.
Fresh == {"record", "tab", "look"}
Removing == {"recheck", "close", "signal", "verify", "seal"}
HandlerSafe(x, P, F, A, M) ==
  /\ Tied(x.row, P, F, M)
  /\ x.step \in Fresh => x.row.proc = 0
  /\ x.step \in Removing => x.row.proc # 0
  /\ x.step \in {"verify", "seal"} => x.row.proc \notin A
  /\ x.step \in {"seal", "retired"} => Left(x.row, P, A, M)

RowsSafe == \A w \in Workers : RowSafe(row[w], pane, fg, alive, moved)
HandlersSafe == \A r \in Requests : HandlerSafe(h[r], pane, fg, alive, moved)
GoneInv == TypeOK /\ Place /\ RowsSafe /\ HandlersSafe

\* Terminals and processes keep to their places.
LEMMA PlaceStays ==
  ASSUME TypeOK, Place, Moves
  PROVE  Place'
<1>h. Herdr /\ Herdr'
  BY TypeParts, RowsStay
<1>1. CASE Fading
  <2>1. \A p \in Panes : pane'[p] \in {0, pane[p]}
    BY <1>1 DEF Fading
  <2>2. Terms' = Terms /\ \A t \in Terms : fg'[t] \in {0, fg[t]}
    BY <1>1, <1>h DEF Fading, Herdr, Terms
  <2>3. \A p, q \in Panes : pane'[p] = pane'[q] /\ pane'[p] # 0 => p = q
    BY <2>1 DEF Place
  <2>4. \A s, t \in Terms' : fg'[s] = fg'[t] /\ fg'[s] # 0 => s = t
    BY <2>2 DEF Place
  <2> QED
    BY <2>3, <2>4 DEF Place
<1>2. CASE Opening
  <2>1. PICK p \in Panes : fg' = Append(fg, 0) /\ pane' = [pane EXCEPT ![p] = Len(fg) + 1]
    BY <1>2 DEF Opening, Opens
  <2>2. Terms' = 1..Len(fg) + 1 /\ \A t \in Terms' : fg'[t] = IF t \in Terms THEN fg[t] ELSE 0
    BY <1>h, <2>1, AppendProperties DEF Herdr, Terms
  <2>3. \A q \in Panes : pane[q] # Len(fg) + 1
    BY <1>h DEF Herdr
  <2>4. \A s, t \in Terms' : fg'[s] = fg'[t] /\ fg'[s] # 0 => s = t
    BY <2>2 DEF Place
  <2>5. \A q, s \in Panes : pane'[q] = pane'[s] /\ pane'[q] # 0 => q = s
    BY <1>h, <2>1, <2>3 DEF Place, Herdr
  <2> QED
    BY <2>4, <2>5 DEF Place
<1>3. CASE Starting
  <2>1. PICK p \in Panes : /\ pane[p] # 0 /\ fg' = [fg EXCEPT ![pane[p]] = Len(name) + 1]
                           /\ pane' = pane
    BY <1>3 DEF Starting, Starts, Startable
  <2>2. Terms' = Terms /\ pane[p] \in Terms
    BY <1>h, <2>1 DEF Herdr, Terms
  <2>3. \A t \in Terms : fg'[t] = IF t = pane[p] THEN Len(name) + 1 ELSE fg[t]
    BY <1>h, <2>1 DEF Herdr, Terms
  <2>4. \A t \in Terms : fg[t] # Len(name) + 1
    BY <1>h, Numbers
  <2>5. \A s, t \in Terms' : fg'[s] = fg'[t] /\ fg'[s] # 0 => s = t
    BY <2>2, <2>3, <2>4 DEF Place
  <2> QED
    BY <2>1, <2>5 DEF Place
<1>4. CASE Moving
  <2>1. PICK p, q \in Panes :
          pane[p] # 0 /\ pane[q] = 0 /\ pane' = [pane EXCEPT ![p] = 0, ![q] = pane[p]] /\ fg' = fg
    BY <1>4 DEF Moving
  <2>2. \A s \in Panes : pane'[s] = IF s = q THEN pane[p] ELSE IF s = p THEN 0 ELSE pane[s]
    BY <1>h, <2>1 DEF Herdr
  <2>3. \A s, t \in Panes : pane'[s] = pane'[t] /\ pane'[s] # 0 => s = t
    BY <2>1, <2>2 DEF Place
  <2> QED
    BY <2>1, <2>3 DEF Place, Terms
<1> QED
  BY <1>1, <1>2, <1>3, <1>4 DEF Moves

\* A binding stays tied, and one that is gone stays gone.
LEMMA TiedStays ==
  ASSUME TypeOK, Place, Moves, NEW l \in AnyRow
  PROVE  /\ Tied(l, pane, fg, moved) => Tied(l, pane', fg', moved')
         /\ Left(l, pane, alive, moved) => Left(l, pane', alive', moved')
         /\ l.proc \notin alive => l.proc \notin alive'
<1>h. Herdr /\ Herdr'
  BY TypeParts, RowsStay
<1>n. /\ Len(fg) \in Nat /\ Len(name) \in Nat
      /\ l.term \in 0..Len(fg) /\ l.proc \in 0..Len(name)
  BY <1>h, Numbers DEF AnyRow, RowIn
<1>1. CASE Fading
  <2>1. /\ moved' = moved /\ alive' \subseteq alive /\ DOMAIN fg' = DOMAIN fg
        /\ \A p \in Panes : pane'[p] \in {0, pane[p]}
        /\ \A t \in DOMAIN fg : fg'[t] \in {0, fg[t]}
    BY <1>1, <1>h DEF Fading, Herdr, Terms
  <2> QED
    BY <2>1 DEF Tied, Left
<1>2. CASE Opening
  <2>1. PICK p \in Panes : /\ fg' = Append(fg, 0) /\ pane' = [pane EXCEPT ![p] = Len(fg) + 1]
                           /\ UNCHANGED <<alive, moved>>
    BY <1>2 DEF Opening, Opens
  <2>2. \A t \in DOMAIN fg' : fg'[t] = IF t \in DOMAIN fg THEN fg[t] ELSE 0
    BY <1>h, <2>1, AppendProperties DEF Herdr
  <2>3. \A q \in Panes : pane'[q] = IF q = p THEN Len(fg) + 1 ELSE pane[q]
    BY <1>h, <2>1 DEF Herdr
  <2> QED
    BY <1>n, <2>1, <2>2, <2>3 DEF Tied, Left
<1>3. CASE Starting
  <2>1. PICK p \in Panes : /\ pane[p] # 0 /\ fg' = [fg EXCEPT ![pane[p]] = Len(name) + 1]
                           /\ alive' = alive \cup {Len(name) + 1} /\ UNCHANGED <<pane, moved>>
    BY <1>3 DEF Starting, Starts, Startable
  <2>2. \A t \in DOMAIN fg' : t \in DOMAIN fg /\ fg'[t] \in {fg[t], Len(name) + 1}
    BY <1>h, <2>1 DEF Herdr
  <2> QED
    BY <1>n, <2>1, <2>2 DEF Tied, Left
<1>4. CASE Moving
  <2>1. PICK p, q \in Panes :
          /\ pane[p] # 0 /\ pane[q] = 0 /\ pane' = [pane EXCEPT ![p] = 0, ![q] = pane[p]]
          /\ moved' = moved \cup {pane[p]} /\ UNCHANGED <<fg, alive>>
    BY <1>4 DEF Moving
  <2>2. \A s \in Panes : pane'[s] = IF s = q THEN pane[p] ELSE IF s = p THEN 0 ELSE pane[s]
    BY <1>h, <2>1 DEF Herdr
  <2> QED
    BY <2>1, <2>2 DEF Tied, Left
<1> QED
  BY <1>1, <1>2, <1>3, <1>4 DEF Moves

\* So a row that stays is safe, and so is a handler.
LEMMA SafeStays ==
  ASSUME TypeOK, Place, Moves
  PROVE  /\ \A l \in AnyRow : RowSafe(l, pane, fg, alive, moved)
                                => RowSafe(l, pane', fg', alive', moved')
         /\ \A r \in Requests : HandlerSafe(h[r], pane, fg, alive, moved)
                                => HandlerSafe(h[r], pane', fg', alive', moved')
<1>1. \A r \in Requests : h[r].row \in AnyRow
  <2>1. \A r \in Requests : h[r] = Free \/ h[r].step \in Steps
    BY DEF TypeOK, Handler
  <2>2. Free.row = NoRow
    BY DEF Free
  <2> QED
    BY <2>1, <2>2, BusyHandler, Nothing
<1> QED
  BY <1>1, TiedStays DEF RowSafe, HandlerSafe

\* What is said of a binding is said of its pane, terminal and process.
LEMMA SameBinding ==
  ASSUME NEW l, NEW m, m.pane = l.pane, m.term = l.term, m.proc = l.proc,
         NEW P, NEW F, NEW A, NEW M
  PROVE  (Tied(l, P, F, M) => Tied(m, P, F, M)) /\ (Left(l, P, A, M) => Left(m, P, A, M))
  BY DEF Tied, Left

\* A binding to nothing is tied.
LEMMA NothingTied ==
  ASSUME NEW l, l.term = 0, l.proc = 0, NEW P, NEW F, NEW M
  PROVE  Tied(l, P, F, M)
  BY DEF Tied

\* What is in a pane, with or without the process in front of it, is tied.
LEMMA InPane ==
  ASSUME TypeOK, Place, NEW l, l.pane \in Panes, pane[l.pane] = l.term, l.term # 0,
         l.proc = 0 \/ l.proc = fg[l.term]
  PROVE  Tied(l, pane, fg, moved)
<1>1. l.term \in Terms
  BY TypeParts, Numbers
<1> QED
  BY <1>1 DEF Tied, Place, Terms

\* The binding that is captured is tied.
LEMMA CapturedTied ==
  ASSUME TypeOK, Place, NEW l \in AnyRow, Capturable(l), l.pane # None, l.term # 0
  PROVE  Tied(Captured(l), pane, fg, moved)
<1>1. /\ Captured(l).pane = l.pane /\ Captured(l).term = l.term
      /\ Captured(l).proc = fg[l.term]
  BY DEF Captured, AnyRow, RowIn
<1>2. l.pane \in Panes /\ pane[l.pane] = l.term
  BY DEF Capturable, AnyRow, RowIn
<1> QED
  BY <1>1, <1>2, InPane

\* A handler goes on to what is safe.
LEMMA HandlerGoes ==
  ASSUME GoneInv, Moves, NEW r \in Requests, NEW y, h' = [h EXCEPT ![r] = y],
         HandlerSafe(y, pane', fg', alive', moved')
  PROVE  HandlersSafe'
<1>1. \A q \in Requests : HandlerSafe(h[q], pane', fg', alive', moved')
  BY SafeStays DEF GoneInv, HandlersSafe
<1>2. \A q \in Requests : h'[q] = IF q = r THEN y ELSE h[q]
  BY TypeParts DEF GoneInv, Handlers
<1> QED
  BY <1>1, <1>2 DEF HandlersSafe

\* A step that only moves a handler on.
LEMMA GoSafe ==
  ASSUME GoneInv, Moves, NEW r \in Requests, h[r].step \in Steps,
         NEW s, NEW a, Go(r, s) \/ Answered(r, a, s), s \in Fresh => h[r].row.proc = 0,
         s \in Removing => h[r].row.proc # 0,
         s \in {"verify", "seal"} => h[r].row.proc \notin alive',
         s \in {"seal", "retired"} => Left(h[r].row, pane', alive', moved')
  PROVE  HandlersSafe'
<1>1. HandlerSafe(h[r], pane', fg', alive', moved')
  BY SafeStays DEF GoneInv, HandlersSafe
<1>2. PICK y : h' = [h EXCEPT ![r] = y] /\ y.row = h[r].row /\ y.step = s
  <2>1. h[r] \in Handler
    BY BusyHandler DEF GoneInv
  <2>2. CASE Go(r, s)
    <3> DEFINE x == [h[r] EXCEPT !.step = s]
    <3>1. x.row = h[r].row /\ x.step = s
      BY <2>1 DEF Handler
    <3>2. h' = [h EXCEPT ![r] = x]
      BY <2>2, Zenon DEF Go
    <3> QED
      BY <3>1, <3>2
  <2>3. CASE Answered(r, a, s)
    <3> DEFINE x == [h[r] EXCEPT !.step = s, !.answer = a]
    <3>1. x.row = h[r].row /\ x.step = s
      BY <2>1 DEF Handler
    <3>2. h' = [h EXCEPT ![r] = x]
      BY <2>3 DEF Answered, GoneInv, TypeOK
    <3> QED
      BY <3>1, <3>2
  <2> QED
    BY <2>2, <2>3
<1>3. HandlerSafe(y, pane', fg', alive', moved')
  BY <1>1, <1>2 DEF HandlerSafe
<1> QED
  BY <1>2, <1>3, HandlerGoes

\* A handler that is over.
LEMMA FreeSafe ==
  ASSUME NEW P, NEW F, NEW A, NEW M
  PROVE  HandlerSafe(Free, P, F, A, M)
  BY NothingTied DEF HandlerSafe, Free, NoRow, Fresh, Removing

\* A row is written that is safe, or none is.
LEMMA RowGoes ==
  ASSUME GoneInv, Moves
  PROVE  /\ row' = row => RowsSafe'
         /\ \A w \in Workers : \A l :
              row' = [row EXCEPT ![w] = l] /\ RowSafe(l, pane', fg', alive', moved') => RowsSafe'
<1>1. \A w \in Workers : RowSafe(row[w], pane', fg', alive', moved')
  BY SafeStays, TypeParts DEF GoneInv, RowsSafe, Tables
<1> QED
  BY <1>1, TypeParts DEF GoneInv, RowsSafe, Tables

\* The row of a handler is tied, and stands.
LEMMA HandlerRow ==
  ASSUME GoneInv, Moves, NEW r \in Requests, h[r].step \in Steps
  PROVE  RowSafe(h[r].row, pane', fg', alive', moved') /\ Tied(h[r].row, pane', fg', moved')
<1>1. HandlerSafe(h[r], pane', fg', alive', moved')
  BY SafeStays DEF GoneInv, HandlersSafe
<1>2. h[r].row.state # "released"
  BY BusyHandler DEF GoneInv, RowIn, Standing
<1> QED
  BY <1>1, <1>2 DEF HandlerSafe, RowSafe

\* The steps of a launch.
LEMMA LaunchSafe ==
  ASSUME GoneInv, Moves, NEW r \in Requests, Launch(r)
  PROVE  RowsSafe' /\ HandlersSafe'
<1>t. TypeOK /\ Place
  BY DEF GoneInv
<1>n. {"shell", "failing", "start", "confirm", "capture", "ending", "commit", "route"}
        \cap (Fresh \cup Removing \cup {"retired"}) = {}
  BY DEF Fresh, Removing
<1>1. CASE Record(r) \/ Route(r)
  <2>1. h[r].step \in Steps /\ row' = [row EXCEPT ![h[r].worker] = h[r].row]
    BY <1>1 DEF Record, Route, Put, Steps
  <2>2. RowsSafe'
    BY <1>t, <2>1, HandlerRow, RowGoes, BusyHandler
  <2>3. CASE Go(r, "shell")
    BY <1>n, <2>1, <2>2, <2>3, GoSafe
  <2>4. CASE Record(r) /\ Go(r, "tab")
    <3>1. h[r].row.proc = 0
      BY <2>4 DEF Record, GoneInv, HandlersSafe, HandlerSafe, Fresh
    <3>2. "tab" \notin Removing \cup {"retired"}
      BY DEF Removing
    <3> QED
      BY <2>1, <2>2, <2>4, <3>1, <3>2, GoSafe DEF Removing
  <2> QED
    BY <1>1, <2>3, <2>4 DEF Record, Route, Put
<1>2. CASE NewTab(r)
  <2>1. h[r].step = "tab" /\ h[r].step \in Steps /\ row' = row
    BY <1>2 DEF NewTab, Steps
  <2>2. PICK p \in Panes :
          /\ Opens(p)
          /\ \/ h' = [h EXCEPT ![r].step = "route",
                               ![r].row = [h[r].row EXCEPT !.pane = p, !.term = Len(fg) + 1]]
             \/ Answered(r, "lost", "failing")
    BY <1>2 DEF NewTab
  <2>3. CASE h' = [h EXCEPT ![r].step = "route",
                            ![r].row = [h[r].row EXCEPT !.pane = p, !.term = Len(fg) + 1]]
    <3> DEFINE l == [h[r].row EXCEPT !.pane = p, !.term = Len(fg) + 1]
               y == [h[r] EXCEPT !.step = "route", !.row = l]
    <3>1. h[r].row.proc = 0
      BY <2>1 DEF GoneInv, HandlersSafe, HandlerSafe, Fresh
    <3>2. l.pane = p /\ l.term = Len(fg) + 1 /\ l.proc = 0
      BY <1>t, <2>1, <3>1, BusyHandler DEF RowIn
    <3>3. \A q \in Panes : pane'[q] = Len(fg) + 1 => q = p
      <4>1. Herdr /\ pane' = [pane EXCEPT ![p] = Len(fg) + 1]
        BY <1>t, <2>2, TypeParts DEF Opens
      <4> QED
        BY <4>1 DEF Herdr
    <3> HIDE DEF l
    <3>4. y.step = "route" /\ y.row = l /\ h' = [h EXCEPT ![r] = y]
      <4>1. h[r] \in Handler
        BY <1>t, <2>1, BusyHandler
      <4>2. h' = [h EXCEPT ![r].step = "route", ![r].row = l]
        BY <2>3, Zenon DEF l
      <4>3. y.step = "route" /\ y.row = l
        BY <4>1 DEF Handler
      <4>4. h' = [h EXCEPT ![r] = y]
        BY <1>t, <4>2, HandlerFields
      <4> QED
        BY <4>3, <4>4
    <3> HIDE DEF y
    <3>5. Tied(l, pane', fg', moved')
      BY <3>2, <3>3 DEF Tied
    <3>6. HandlerSafe(y, pane', fg', alive', moved')
      BY <1>n, <3>4, <3>5 DEF HandlerSafe
    <3> QED
      BY <2>1, <3>4, <3>6, HandlerGoes, RowGoes
  <2>4. CASE Answered(r, "lost", "failing")
    BY <1>n, <2>1, <2>4, GoSafe, RowGoes
  <2> QED
    BY <2>2, <2>3, <2>4
<1>3. CASE NoTab(r) \/ waitShellReady(r) \/ AgentStart(r) \/ Confirm(r)
  <2>1. /\ h[r].step \in Steps /\ row' = row
        /\ \E s \in {"failing", "start", "confirm", "capture"}, a \in {"ok", "lost", "refused"} :
             Go(r, s) \/ Answered(r, a, s)
    BY <1>3 DEF NoTab, waitShellReady, AgentStart, Confirm, Unconfirmed, Steps
  <2> QED
    BY <1>n, <2>1, GoSafe, RowGoes
<1>4. CASE Capture(r)
  <2>1. /\ h[r].step \in Steps /\ row' = row /\ UNCHANGED herdrVars /\ moved' = moved
        /\ h[r].row.pane # None /\ h[r].row.term # 0
    BY <1>4, <1>t, TypeParts DEF Capture, Steps, Binds, Handlers, history
  <2> DEFINE l == Captured(h[r].row)
  <2>2. CASE Answered(r, "lost", "failing")
    BY <1>n, <2>1, <2>2, GoSafe, RowGoes
  <2>3. CASE ~Answered(r, "lost", "failing")
    <3>1. /\ Capturable(h[r].row)
          /\ \/ h' = [h EXCEPT ![r].step = "commit", ![r].row = l]
             \/ h' = [h EXCEPT ![r].step = "failing", ![r].row = l, ![r].answer = "lost"]
      BY <1>4, <2>3 DEF Capture
    <3>2. Tied(l, pane', fg', moved')
      BY <1>t, <2>1, <3>1, BusyHandler, CapturedTied DEF herdrVars
    <3> HIDE DEF l
    <3>3. PICK y : h' = [h EXCEPT ![r] = y] /\ y.row = l /\ y.step \in {"commit", "failing"}
      <4> DEFINE y1 == [h[r] EXCEPT !.step = "commit", !.row = l]
                 y2 == [h[r] EXCEPT !.step = "failing", !.row = l, !.answer = "lost"]
      <4>1. /\ y1.row = l /\ y1.step = "commit" /\ y2.row = l /\ y2.step = "failing"
        BY <1>t, <2>1, BusyHandler DEF Handler
      <4>2. [h EXCEPT ![r].step = "commit", ![r].row = l] = [h EXCEPT ![r] = y1]
        BY <1>t, HandlerFields
      <4>3. [h EXCEPT ![r].step = "failing", ![r].row = l, ![r].answer = "lost"] = [h EXCEPT ![r] = y2]
        BY <1>t, HandlerFields
      <4> HIDE DEF y1, y2
      <4> QED
        BY <3>1, <4>1, <4>2, <4>3
    <3>4. HandlerSafe(y, pane', fg', alive', moved')
      BY <1>n, <3>2, <3>3 DEF HandlerSafe
    <3> QED
      BY <2>1, <3>3, <3>4, HandlerGoes, RowGoes
  <2> QED
    BY <2>2, <2>3
<1>5. CASE Commit(r)
  <2>1. /\ h[r].step \in Steps /\ row' = [row EXCEPT ![h[r].worker] = h[r].row]
        /\ h' = [h EXCEPT ![r] = Free]
    BY <1>5 DEF Commit, Completes, Steps
  <2>2. RowsSafe'
    BY <1>t, <2>1, HandlerRow, RowGoes, BusyHandler
  <2> QED
    BY <2>1, <2>2, FreeSafe, HandlerGoes
<1>6. CASE launchFailure(r)
  <2>1. h[r].step \in Steps /\ Go(r, "ending")
    BY <1>6 DEF launchFailure, Steps
  <2>2. PICK s \in {"starting", "failed"} :
          row' = [row EXCEPT ![h[r].worker] = [h[r].row EXCEPT !.state = s]]
    BY <1>6 DEF launchFailure
  <2> DEFINE l == h[r].row
             m == [l EXCEPT !.state = s]
  <2>3. m.state # "released" /\ m.pane = l.pane /\ m.term = l.term /\ m.proc = l.proc
    BY <1>t, <2>1, BusyHandler DEF RowIn
  <2>4. Tied(l, pane', fg', moved')
    BY <2>1, HandlerRow
  <2> HIDE DEF m, l
  <2>5. Tied(m, pane', fg', moved')
    BY <2>3, <2>4, SameBinding
  <2>6. row' = [row EXCEPT ![h[r].worker] = m]
    BY <2>2 DEF m, l
  <2>7. RowSafe(m, pane', fg', alive', moved')
    BY <2>3, <2>5 DEF RowSafe
  <2>8. RowsSafe'
    BY <1>t, <2>1, <2>6, <2>7, RowGoes, BusyHandler
  <2> QED
    BY <1>n, <2>1, <2>8, GoSafe
<1> QED
  BY <1>1, <1>2, <1>3, <1>4, <1>5, <1>6 DEF Launch

\* The steps of an adoption.
LEMMA BindSafe ==
  ASSUME GoneInv, Moves, NEW r \in Requests, Bind(r)
  PROVE  RowsSafe' /\ HandlersSafe'
<1>t. TypeOK /\ Place
  BY DEF GoneInv
<1>s. h[r].step \in Steps
  BY DEF Bind, AdoptLook, AdoptCapture, AdoptCommit, Steps
<1>1. CASE row' = row /\ h' = [h EXCEPT ![r] = Free]
  BY <1>1, FreeSafe, HandlerGoes, RowGoes
<1>2. CASE AdoptLook(r) /\ ~(row' = row /\ h' = [h EXCEPT ![r] = Free])
  <2> DEFINE p == h[r].row.pane
             l == [h[r].row EXCEPT !.term = pane[p], !.name = name[AgentIn(p)]]
             y == [h[r] EXCEPT !.step = "take", !.row = l]
  <2>1. /\ h[r].step = "look" /\ HasAgent(p) /\ h' = [h EXCEPT ![r].step = "take", ![r].row = l]
        /\ UNCHANGED <<pane, fg, alive, moved, row>>
    BY <1>2 DEF AdoptLook, Refuse, Unread, GiveUp, herdrVars, history
  <2>2. h[r].row.proc = 0
    BY <2>1 DEF GoneInv, HandlersSafe, HandlerSafe, Fresh
  <2>3. p \in Panes /\ pane[p] # 0
    BY <1>t, <1>s, <2>1, BusyHandler DEF RowIn, HasAgent
  <2>4. l.pane = p /\ l.term = pane[p] /\ l.proc = 0
    BY <1>t, <1>s, <2>2, BusyHandler DEF RowIn
  <2> HIDE DEF l, p
  <2>5. Tied(l, pane', fg', moved')
    BY <1>t, <2>1, <2>3, <2>4, InPane
  <2>6. y.step = "take" /\ y.row = l /\ h' = [h EXCEPT ![r] = y]
    <3>1. h[r] \in Handler
      BY <1>t, <1>s, BusyHandler
    <3>2. y.step = "take" /\ y.row = l
      BY <3>1 DEF Handler
    <3>3. h' = [h EXCEPT ![r] = y]
      BY <1>t, <2>1, HandlerFields
    <3> QED
      BY <3>2, <3>3
  <2> HIDE DEF y
  <2>7. HandlerSafe(y, pane', fg', alive', moved')
    BY <2>5, <2>6 DEF HandlerSafe, Fresh, Removing
  <2> QED
    BY <2>1, <2>6, <2>7, HandlerGoes, RowGoes
<1>3. CASE AdoptCapture(r) /\ ~(row' = row /\ h' = [h EXCEPT ![r] = Free])
  <2> DEFINE l == Captured(h[r].row)
             y == [h[r] EXCEPT !.step = "bind", !.row = l]
  <2>1. /\ Capturable(h[r].row) /\ h' = [h EXCEPT ![r].step = "bind", ![r].row = l]
        /\ UNCHANGED <<pane, fg, alive, moved, row>>
    BY <1>3 DEF AdoptCapture, Refuse, GiveUp, herdrVars, history
  <2>2. h[r].row.pane # None /\ h[r].row.term # 0
    BY <1>3, <1>t, TypeParts DEF AdoptCapture, Binds, Handlers
  <2>3. Tied(l, pane', fg', moved')
    BY <1>t, <1>s, <2>1, <2>2, BusyHandler, CapturedTied
  <2> HIDE DEF l
  <2>4. y.step = "bind" /\ y.row = l /\ h' = [h EXCEPT ![r] = y]
    <3>1. h[r] \in Handler
      BY <1>t, <1>s, BusyHandler
    <3>2. y.step = "bind" /\ y.row = l
      BY <3>1 DEF Handler
    <3>3. h' = [h EXCEPT ![r] = y]
      BY <1>t, <2>1, HandlerFields
    <3> QED
      BY <3>2, <3>3
  <2> HIDE DEF y
  <2>5. HandlerSafe(y, pane', fg', alive', moved')
    BY <2>3, <2>4 DEF HandlerSafe, Fresh, Removing
  <2> QED
    BY <2>1, <2>4, <2>5, HandlerGoes, RowGoes
<1>4. CASE AdoptCommit(r) /\ ~(row' = row /\ h' = [h EXCEPT ![r] = Free])
  <2>1. row' = [row EXCEPT ![h[r].worker] = h[r].row] /\ h' = [h EXCEPT ![r] = Free]
    BY <1>4 DEF AdoptCommit, Completes, Refuse, GiveUp
  <2>2. RowsSafe'
    BY <1>t, <1>s, <2>1, HandlerRow, RowGoes, BusyHandler
  <2> QED
    BY <2>1, <2>2, FreeSafe, HandlerGoes
<1> QED
  BY <1>1, <1>2, <1>3, <1>4 DEF Bind

\* The steps of a release that only move it on.
LEMMA CleanupGoesSafe ==
  ASSUME GoneInv, Moves, NEW r \in Requests,
         Inspect(r) \/ Recheck(r) \/ Close(r) \/ Signal(r) \/ Verify(r) \/ Retire(r)
  PROVE  RowsSafe' /\ HandlersSafe'
<1>t. TypeOK /\ Place
  BY DEF GoneInv
<1>s. h[r].step \in Steps
  BY DEF Inspect, Recheck, Close, Signal, Verify, Retire, Steps
<1> DEFINE l == h[r].row
<1>i. /\ Tied(l, pane, fg, moved) /\ (h[r].step \in Removing => l.proc # 0)
      /\ h[r].step = "verify" => l.proc \notin alive
  BY DEF GoneInv, HandlersSafe, HandlerSafe
<1>0. CASE row' = row /\ h' = [h EXCEPT ![r] = Free]
  BY <1>0, FreeSafe, HandlerGoes, RowGoes
<1>n. row' = row \/ (row' = row /\ h' = [h EXCEPT ![r] = Free])
  BY DEF Inspect, Recheck, Close, Signal, Verify, Retire, Refuse, Unread, GiveUp
<1>u. {"retire", "unsure"} \cap (Fresh \cup Removing \cup {"retired", "verify", "seal"}) = {}
  BY DEF Fresh, Removing
<1>1. CASE Inspect(r) /\ ~(row' = row /\ h' = [h EXCEPT ![r] = Free])
  <2>1. Go(r, IF verifyAttachment(l, l.pane) THEN "recheck" ELSE "retire")
    BY <1>1 DEF Inspect, Refuse, Unread, GiveUp
  <2>2. verifyAttachment(l, l.pane) => l.proc # 0
    BY DEF verifyAttachment
  <2>3. CASE Go(r, "recheck") /\ l.proc # 0
    <3>1. "recheck" \notin Fresh \cup {"retired", "verify", "seal"}
      BY DEF Fresh
    <3> QED
      BY <1>s, <1>n, <2>3, <3>1, GoSafe, RowGoes
  <2>4. CASE Go(r, "retire")
    BY <1>s, <1>n, <1>u, <2>4, GoSafe, RowGoes
  <2> QED
    BY <2>1, <2>2, <2>3, <2>4
<1>2. CASE Recheck(r) /\ ~(row' = row /\ h' = [h EXCEPT ![r] = Free])
  <2>1. Go(r, "close") /\ h[r].step = "recheck"
    BY <1>2 DEF Recheck, Refuse, GiveUp
  <2>2. l.proc # 0 /\ "close" \notin Fresh \cup {"retired", "verify", "seal"}
    BY <1>i, <2>1 DEF Removing, Fresh
  <2> QED
    BY <1>s, <1>n, <2>1, <2>2, GoSafe, RowGoes
<1>3. CASE Close(r)
  <2>1. h[r].step = "close" /\ (Go(r, "signal") \/ \E a \in {"lost", "refused"} : Answered(r, a, "unsure"))
    BY <1>3 DEF Close
  <2>2. l.proc # 0 /\ "signal" \notin Fresh \cup {"retired", "verify", "seal"}
    BY <1>i, <2>1 DEF Removing, Fresh
  <2>3. CASE Go(r, "signal")
    BY <1>s, <1>n, <2>2, <2>3, GoSafe, RowGoes
  <2>4. ASSUME NEW a \in {"lost", "refused"}, Answered(r, a, "unsure")
        PROVE  RowsSafe' /\ HandlersSafe'
    BY <1>s, <1>n, <1>u, <2>4, GoSafe, RowGoes
  <2> QED
    BY <2>1, <2>3, <2>4
<1>4. CASE Signal(r)
  <2>1. h[r].step = "signal" /\ ((alive' = alive \ {l.proc} /\ Go(r, "verify")) \/ Answered(r, "refused", "unsure"))
    BY <1>4 DEF Signal
  <2>2. l.proc # 0 /\ "verify" \notin Fresh \cup {"retired", "seal"}
    BY <1>i, <2>1 DEF Removing, Fresh
  <2>3. CASE alive' = alive \ {l.proc} /\ Go(r, "verify")
    BY <1>s, <1>n, <2>2, <2>3, GoSafe, RowGoes
  <2>4. CASE Answered(r, "refused", "unsure")
    BY <1>s, <1>n, <1>u, <2>4, GoSafe, RowGoes
  <2> QED
    BY <2>1, <2>3, <2>4
<1>5. CASE Verify(r)
  <2>1. /\ h[r].step = "verify" /\ UNCHANGED <<pane, fg, alive, moved>>
        /\ \/ gone(l) /\ Go(r, "seal")
           \/ \E a \in {"lost", "refused"} : Answered(r, a, "unsure")
    BY <1>5 DEF Verify, herdrVars, history
  <2>2. l.proc # 0 /\ l.proc \notin alive' /\ "seal" \notin Fresh
    BY <1>i, <2>1 DEF Removing, Fresh
  <2>3. gone(l) => Left(l, pane', alive', moved')
    BY <1>i, <2>1, <2>2 DEF gone, Left, Tied
  <2>4. CASE gone(l) /\ Go(r, "seal")
    BY <1>s, <1>n, <2>2, <2>3, <2>4, GoSafe, RowGoes
  <2>5. ASSUME NEW a \in {"lost", "refused"}, Answered(r, a, "unsure")
        PROVE  RowsSafe' /\ HandlersSafe'
    BY <1>s, <1>n, <1>u, <2>5, GoSafe, RowGoes
  <2> QED
    BY <2>1, <2>4, <2>5
<1>6. CASE Retire(r) /\ ~(row' = row /\ h' = [h EXCEPT ![r] = Free])
  <2>1. Absent(l) /\ Go(r, "retired") /\ UNCHANGED <<pane, fg, alive, moved>>
    BY <1>6 DEF Retire, Refuse, Unread, GiveUp, herdrVars, history
  <2>2. Left(l, pane', alive', moved') /\ "retired" \notin Fresh \cup Removing
    BY <1>i, <2>1 DEF Absent, gone, Left, Tied, Fresh, Removing
  <2> QED
    BY <1>s, <1>n, <2>1, <2>2, GoSafe, RowGoes
<1> QED
  BY <1>0, <1>1, <1>2, <1>3, <1>4, <1>5, <1>6

\* The steps of a release that write a row.
LEMMA CleanupWritesSafe ==
  ASSUME GoneInv, Moves, NEW r \in Requests, Unsure(r) \/ Seal(r) \/ RetireCommit(r)
  PROVE  RowsSafe' /\ HandlersSafe'
<1>t. TypeOK /\ Place
  BY DEF GoneInv
<1>s. h[r].step \in Steps
  BY DEF Unsure, Seal, RetireCommit, Steps
<1> DEFINE l == h[r].row
           w == h[r].worker
<1>i. Tied(l, pane', fg', moved') /\ (h[r].step \in {"seal", "retired"} => Left(l, pane', alive', moved'))
  BY SafeStays DEF GoneInv, HandlersSafe, HandlerSafe
<1>w. w \in Workers
  BY <1>t, <1>s, BusyHandler
<1>1. CASE Unsure(r)
  <2> DEFINE m == [l EXCEPT !.state = "offline"]
  <2>1. row' = [row EXCEPT ![w] = m] /\ Go(r, "ending")
    BY <1>1 DEF Unsure
  <2>2. m.state = "offline" /\ m.pane = l.pane /\ m.term = l.term /\ m.proc = l.proc
    BY <1>t, <1>s, BusyHandler DEF RowIn
  <2> HIDE DEF m, l, w
  <2>3. RowSafe(m, pane', fg', alive', moved')
    BY <1>i, <2>2, SameBinding DEF RowSafe
  <2>4. RowsSafe'
    BY <1>w, <2>1, <2>3, RowGoes
  <2>5. "ending" \notin Fresh \cup Removing \cup {"retired", "verify", "seal"}
    BY DEF Fresh, Removing
  <2> QED
    BY <1>s, <2>1, <2>4, <2>5, GoSafe
<1>2. CASE Seal(r)
  <2> DEFINE m == [l EXCEPT !.state = "released"]
  <2>1. /\ row' = [row EXCEPT ![w] = m] /\ h' = [h EXCEPT ![r] = Free] /\ h[r].step = "seal"
    BY <1>2 DEF Seal, Completes
  <2>2. m.pane = l.pane /\ m.term = l.term /\ m.proc = l.proc
    BY <1>t, <1>s, BusyHandler DEF RowIn
  <2> HIDE DEF m, l, w
  <2>3. RowSafe(m, pane', fg', alive', moved')
    BY <1>i, <2>1, <2>2, SameBinding DEF RowSafe
  <2> QED
    BY <1>w, <2>1, <2>3, RowGoes, FreeSafe, HandlerGoes
<1>3. CASE RetireCommit(r)
  <2>1. CASE sameSessionBinding(l, row[w])
    <3> DEFINE m == [row[w] EXCEPT !.state = "released", !.op = r]
    <3>1. row' = [row EXCEPT ![w] = m] /\ h' = [h EXCEPT ![r] = Free] /\ h[r].step = "retired"
      <4>1. /\ row' = [row EXCEPT ![w].state = "released", ![w].op = r]
            /\ h' = [h EXCEPT ![r] = Free] /\ h[r].step = "retired"
        BY <1>3, <2>1 DEF RetireCommit, Completes
      <4>2. \E Z : row \in [Workers -> Z]
        BY <1>t, TypeParts DEF Tables
      <4> QED
        BY <4>1, <4>2
    <3>2. m.pane = l.pane /\ m.term = l.term /\ m.proc = l.proc
      <4>1. row[w] \in AnyRow
        BY <1>t, <1>w, TypeParts DEF Tables
      <4>2. m.pane = row[w].pane /\ m.term = row[w].term /\ m.proc = row[w].proc
        BY <4>1 DEF AnyRow, RowIn
      <4> QED
        BY <2>1, <4>2 DEF sameSessionBinding
    <3> HIDE DEF m, l, w
    <3>3. RowSafe(m, pane', fg', alive', moved')
      BY <1>i, <3>1, <3>2, SameBinding DEF RowSafe
    <3> QED
      BY <1>w, <3>1, <3>3, RowGoes, FreeSafe, HandlerGoes
  <2>2. CASE ~sameSessionBinding(l, row[w])
    <3>1. row' = row /\ h' = [h EXCEPT ![r] = Free]
      BY <1>3, <2>2 DEF RetireCommit, Refuse, GiveUp
    <3> QED
      BY <3>1, RowGoes, FreeSafe, HandlerGoes
  <2> QED
    BY <2>1, <2>2
<1> QED
  BY <1>1, <1>2, <1>3

\* Requests begin.
LEMMA RequestSafe ==
  ASSUME GoneInv, Moves, NEW r \in Requests, Request(r)
  PROVE  RowsSafe' /\ HandlersSafe'
<1>t. TypeOK /\ Place
  BY DEF GoneInv
<1>h. UNCHANGED <<pane, fg, alive, moved>>
  BY DEF Request, Spawn, SpawnInPane, Adopt, Release, herdrVars, history
<1>b. ASSUME NEW kind, NEW w, NEW l, NEW s, Begin(r, kind, w, l, s), Tied(l, pane, fg, moved),
             s \notin Removing \cup {"retired", "verify", "seal"}, s \in Fresh => l.proc = 0
      PROVE  HandlersSafe'
  <2> DEFINE y == [step |-> s, worker |-> w, row |-> l, answer |-> "none"]
  <2>1. h' = [h EXCEPT ![r] = y]
    BY <1>b DEF Begin
  <2>2. HandlerSafe(y, pane', fg', alive', moved')
    BY <1>b, <1>h DEF HandlerSafe
  <2> QED
    BY <2>1, <2>2, HandlerGoes
<1>1. PICK w \in Workers :
        \/ Spawn(r, w) \/ Release(r, w) \/ \E p \in Panes : SpawnInPane(r, w, p) \/ Adopt(r, w, p)
  BY DEF Request
<1>2. CASE Spawn(r, w)
  <2> DEFINE l == [NoRow EXCEPT !.state = "starting", !.name = w, !.attach = r, !.op = r]
  <2>1. Begin(r, "spawn", w, l, "record") /\ row' = row
    BY <1>2 DEF Spawn
  <2>2. l.term = 0 /\ l.proc = 0
    BY DEF NoRow
  <2> HIDE DEF l
  <2>3. Tied(l, pane, fg, moved)
    BY <2>2, NothingTied
  <2>4. "record" \notin Removing \cup {"retired", "verify", "seal"}
    BY DEF Removing
  <2> QED
    BY <1>b, <2>1, <2>2, <2>3, <2>4, RowGoes
<1>3. ASSUME NEW p \in Panes, SpawnInPane(r, w, p)
      PROVE  RowsSafe' /\ HandlersSafe'
  <2> DEFINE l == [NoRow EXCEPT !.state = "starting", !.name = w, !.attach = r, !.op = r,
                                !.pane = p, !.term = pane[p]]
  <2>1. Begin(r, "spawn", w, l, "record") /\ row' = row /\ pane[p] # 0
    BY <1>3 DEF SpawnInPane
  <2>2. l.pane = p /\ l.term = pane[p] /\ l.proc = 0
    BY DEF NoRow
  <2> HIDE DEF l
  <2>3. Tied(l, pane, fg, moved)
    BY <1>t, <2>1, <2>2, InPane
  <2>4. "record" \notin Removing \cup {"retired", "verify", "seal"}
    BY DEF Removing
  <2> QED
    BY <1>b, <2>1, <2>2, <2>3, <2>4, RowGoes
<1>4. ASSUME NEW p \in Panes, Adopt(r, w, p)
      PROVE  RowsSafe' /\ HandlersSafe'
  <2> DEFINE l == [NoRow EXCEPT !.state = "live", !.pane = p, !.attach = r, !.op = r]
  <2>1. Begin(r, "adopt", w, l, "look") /\ row' = row
    BY <1>4 DEF Adopt
  <2>2. l.term = 0 /\ l.proc = 0
    BY DEF NoRow
  <2> HIDE DEF l
  <2>3. Tied(l, pane, fg, moved)
    BY <2>2, NothingTied
  <2>4. "look" \notin Removing \cup {"retired", "verify", "seal"}
    BY DEF Removing
  <2> QED
    BY <1>b, <2>1, <2>2, <2>3, <2>4, RowGoes
<1>5. CASE Release(r, w)
  <2> DEFINE l == [row[w] EXCEPT !.op = r]
  <2>1. Begin(r, "release", w, l, "inspect") /\ row' = [row EXCEPT ![w] = l]
    <3>1. Begin(r, "release", w, l, "inspect") /\ row' = [row EXCEPT ![w].op = r]
      BY <1>5 DEF Release
    <3>2. \E Z : row \in [Workers -> Z]
      BY <1>t, TypeParts DEF Tables
    <3> QED
      BY <3>1, <3>2
  <2>2. /\ l.pane = row[w].pane /\ l.term = row[w].term /\ l.proc = row[w].proc
        /\ l.state # "released"
    <3>1. row[w] \in AnyRow /\ row[w].state # "released"
      BY <1>t, <1>5, TypeParts DEF Tables, Release, Owned, Final
    <3> QED
      BY <3>1 DEF AnyRow, RowIn
  <2>3. Tied(row[w], pane, fg, moved)
    BY DEF GoneInv, RowsSafe, RowSafe
  <2> HIDE DEF l
  <2>4. Tied(l, pane, fg, moved)
    BY <2>2, <2>3, SameBinding
  <2>5. RowSafe(l, pane', fg', alive', moved')
    BY <1>h, <2>2, <2>4 DEF RowSafe
  <2>6. "inspect" \notin Fresh \cup Removing \cup {"retired", "verify", "seal"}
    BY DEF Fresh, Removing
  <2> QED
    BY <1>b, <2>1, <2>4, <2>5, <2>6, RowGoes
<1> QED
  BY <1>1, <1>2, <1>3, <1>4, <1>5

\* What is observed of a row that stands.
LEMMA ObservedSafe ==
  ASSUME TypeOK, Place, NEW w \in Workers, row[w].state \in Standing,
         Tied(row[w], pane, fg, moved)
  PROVE  Tied(Observed(row[w]), pane, fg, moved) /\ Observed(row[w]).state \in Standing
<1> DEFINE l == row[w]
<1>1. l \in AnyRow /\ obs.pane \in Panes \cup {None}
  BY TypeParts DEF Tables
<1>2. CASE continuous(l)
  <2> DEFINE m == [l EXCEPT !.state = "live", !.pane = obs.pane]
  <2>1. m.pane = obs.pane /\ m.term = l.term /\ m.proc = l.proc /\ m.state = "live"
    BY <1>1 DEF AnyRow, RowIn
  <2>2. Observed(l) = m
    BY <1>2 DEF Observed
  <2> HIDE DEF m
  <2>3. obs.pane \in Panes /\ pane[obs.pane] # 0 /\ fg[pane[obs.pane]] = l.proc /\ l.proc # 0
    BY <1>1, <1>2 DEF continuous, HasAgent, AgentIn
  <2>4. pane[obs.pane] \in Terms
    BY <2>3, TypeParts, Numbers
  <2>5. pane[obs.pane] = l.term
    BY <2>3, <2>4 DEF Tied, Terms
  <2>6. Tied(m, pane, fg, moved)
    BY <2>1, <2>3, <2>5, InPane
  <2> QED
    BY <2>1, <2>2, <2>6 DEF Standing
<1>3. CASE ~continuous(l) /\ l.state = "starting" /\ l.proc = 0
  <2>1. Observed(l) = l
    BY <1>3 DEF Observed
  <2> QED
    BY <2>1
<1>4. CASE ~continuous(l) /\ ~(l.state = "starting" /\ l.proc = 0)
  <2> DEFINE m == [l EXCEPT !.state = "lost"]
  <2>1. m.pane = l.pane /\ m.term = l.term /\ m.proc = l.proc /\ m.state = "lost"
    BY <1>1 DEF AnyRow, RowIn
  <2>2. Observed(l) = m
    BY <1>4 DEF Observed
  <2> HIDE DEF m
  <2>3. Tied(m, pane, fg, moved)
    BY <2>1, SameBinding
  <2> QED
    BY <2>1, <2>2, <2>3 DEF Standing
<1> QED
  BY <1>2, <1>3, <1>4

\* Rows that are not over stand.
LEMMA OwnedStands ==
  ASSUME TypeOK, NEW w \in Workers, Owned(w)
  PROVE  row[w].state \in Standing
  BY TypeParts DEF Tables, AnyRow, AnyState, RowIn, Owned

\* The steps of the session lane.
LEMMA SessionSafe ==
  ASSUME GoneInv, Moves, Session
  PROVE  RowsSafe' /\ HandlersSafe'
<1>t. TypeOK /\ Place
  BY DEF GoneInv
<1>h. UNCHANGED <<pane, fg, alive, moved, h>>
  BY DEF Session, Sample, observeWorker, Outage, herdrVars, history
<1>1. HandlersSafe'
  BY <1>h DEF GoneInv, HandlersSafe
<1>2. CASE row' = row
  BY <1>1, <1>2, RowGoes
<1>3. CASE observeWorker /\ row' # row
  <2> DEFINE w == obs.worker
  <2>1. sessionActive(w) /\ row' = [row EXCEPT ![w] = Observed(row[w])]
    BY <1>3 DEF observeWorker
  <2>2. w \in Workers
    BY <1>t, <1>3, TypeParts DEF observeWorker, Tables
  <2> HIDE DEF w
  <2>3. row[w].state \in Standing /\ Tied(row[w], pane, fg, moved)
    BY <1>t, <2>1, <2>2, OwnedStands DEF sessionActive, GoneInv, RowsSafe, RowSafe
  <2>4. Tied(Observed(row[w]), pane', fg', moved') /\ Observed(row[w]).state # "released"
    BY <1>t, <1>h, <2>2, <2>3, ObservedSafe DEF Standing
  <2>5. RowSafe(Observed(row[w]), pane', fg', alive', moved')
    BY <2>4 DEF RowSafe
  <2> QED
    BY <1>1, <2>1, <2>2, <2>5, RowGoes
<1>4. CASE Outage
  <2>1. ASSUME NEW w \in Workers
        PROVE  RowSafe(row'[w], pane', fg', alive', moved')
    <3> DEFINE l == row[w]
               m == [l EXCEPT !.state = "offline"]
    <3>1. RowSafe(l, pane', fg', alive', moved') /\ l \in AnyRow
      BY <1>h, <1>t, TypeParts DEF GoneInv, RowsSafe, Tables
    <3>2. m.pane = l.pane /\ m.term = l.term /\ m.proc = l.proc /\ m.state = "offline"
      BY <3>1 DEF AnyRow, RowIn
    <3>3. row'[w] = l \/ row'[w] = m
      BY <1>4 DEF Outage
    <3> HIDE DEF m, l
    <3>4. RowSafe(m, pane', fg', alive', moved')
      BY <3>1, <3>2, SameBinding DEF RowSafe
    <3> QED
      BY <3>1, <3>3, <3>4
  <2> QED
    BY <1>1, <2>1 DEF RowsSafe
<1> QED
  BY <1>2, <1>3, <1>4 DEF Session, Sample

\* A receipt written at last, a person who settles, what is outside, and a crash.
LEMMA OtherSafe ==
  ASSUME GoneInv, Moves,
         (\E r \in Requests : End(r) \/ Resolution(r)) \/ Environment \/ Crash \/ UNCHANGED vars
  PROVE  RowsSafe' /\ HandlersSafe'
<1>t. TypeOK /\ Place
  BY DEF GoneInv
<1>u. h' = h => HandlersSafe'
  BY SafeStays DEF GoneInv, HandlersSafe
<1>1. ASSUME NEW r \in Requests, End(r) PROVE RowsSafe' /\ HandlersSafe'
  <2>1. row' = row /\ h' = [h EXCEPT ![r] = Free]
    BY <1>1 DEF End
  <2> QED
    BY <2>1, RowGoes, FreeSafe, HandlerGoes
<1>2. ASSUME NEW r \in Requests, Resolution(r) PROVE RowsSafe' /\ HandlersSafe'
  <2>1. /\ h' = h
        /\ \/ row' = row
           \/ Resolve(r) /\ row' = [row EXCEPT ![op[r].worker].state = "failed"]
    BY <1>2 DEF Resolution, ResolveLooks, Resolve, ResolveRejected
  <2>2. CASE Resolve(r) /\ row' = [row EXCEPT ![op[r].worker].state = "failed"]
    <3> DEFINE w == op[r].worker
               l == row[w]
               m == [l EXCEPT !.state = "failed"]
    <3>1. w \in Workers
      BY <1>t, <2>2 DEF Resolve, Unsettled, TypeOK, NoOp, Receipt
    <3>2. row' = [row EXCEPT ![w] = m]
      <4>1. \E Z : row \in [Workers -> Z]
        BY <1>t, TypeParts DEF Tables
      <4> QED
        BY <2>2, <4>1
    <3>3. l \in AnyRow /\ RowSafe(l, pane', fg', alive', moved')
      BY <1>t, <3>1, SafeStays, TypeParts DEF GoneInv, RowsSafe, Tables
    <3>4. m.pane = l.pane /\ m.term = l.term /\ m.proc = l.proc /\ m.state = "failed"
      BY <3>3 DEF AnyRow, RowIn
    <3> HIDE DEF m, l, w
    <3>5. RowSafe(m, pane', fg', alive', moved')
      BY <3>3, <3>4, SameBinding DEF RowSafe
    <3> QED
      BY <1>u, <2>1, <3>1, <3>2, <3>5, RowGoes
  <2> QED
    BY <1>u, <2>1, <2>2, RowGoes
<1>3. CASE Environment \/ UNCHANGED vars
  <2>1. h' = h /\ row' = row
    BY <1>3 DEF Environment, OpenTab, StartByHand, ClosePane, ExitAgent, MovePane, StartLate,
       Outside, vars
  <2> QED
    BY <1>u, <2>1, RowGoes
<1>4. CASE Crash
  <2>1. h' = [r \in Requests |-> Free] /\ row' = row
    BY <1>4 DEF Crash
  <2>2. HandlersSafe'
    BY <2>1, FreeSafe DEF HandlersSafe
  <2> QED
    BY <2>1, <2>2, RowGoes
<1> QED
  BY <1>1, <1>2, <1>3, <1>4

\* Nothing is released in the first state.
LEMMA InitGone == Init => GoneInv
<1> SUFFICES ASSUME Init PROVE GoneInv
  OBVIOUS
<1>t. TypeOK
  BY InitType
<1>1. HandlersSafe
  BY FreeSafe DEF Init, HandlersSafe
<1>2. Place /\ RowsSafe
  <2>1. CASE pane = [p \in Panes |-> 0] /\ fg = <<>> /\ row = [w \in Workers |-> NoRow]
    <3>1. Place
      BY <2>1 DEF Place, Terms
    <3>2. NoRow.term = 0 /\ NoRow.proc = 0 /\ NoRow.state # "released"
      BY DEF NoRow
    <3>3. RowsSafe
      BY <2>1, <3>2, NothingTied DEF RowsSafe, RowSafe
    <3> QED
      BY <3>1, <3>3
  <2>2. ASSUME NEW v \in Workers, NEW p \in Panes,
               pane = [q \in Panes |-> IF q = p THEN 1 ELSE 0], fg = << 1 >>,
               row = [w \in Workers |-> IF w # v THEN NoRow
                                        ELSE [Established EXCEPT !.pane = p, !.name = v]]
        PROVE  Place /\ RowsSafe
    <3> DEFINE l == [Established EXCEPT !.pane = p, !.name = v]
    <3>1. Terms = {1} /\ fg[1] = 1
      BY <2>2 DEF Terms
    <3>2. Place
      BY <2>2, <3>1 DEF Place
    <3>3. l.pane = p /\ l.term = 1 /\ l.proc = 1 /\ l.state = "live"
      BY DEF Established, NoRow
    <3>4. NoRow.term = 0 /\ NoRow.proc = 0 /\ NoRow.state # "released"
      BY DEF NoRow
    <3> HIDE DEF l
    <3>5. Tied(l, pane, fg, moved) /\ Tied(NoRow, pane, fg, moved)
      BY <1>t, <2>2, <3>1, <3>2, <3>3, <3>4, InPane, NothingTied
    <3>6. \A w \in Workers : row[w] \in {l, NoRow}
      BY <2>2 DEF l
    <3>7. RowsSafe
      BY <3>3, <3>4, <3>5, <3>6 DEF RowsSafe, RowSafe
    <3> QED
      BY <3>2, <3>7
  <2> QED
    BY <2>1, <2>2 DEF Init
<1> QED
  BY <1>t, <1>1, <1>2 DEF GoneInv

\* Every step leaves the invariant.
LEMMA NextGone == GoneInv /\ [Next]_vars => GoneInv'
<1> SUFFICES ASSUME GoneInv, [Next]_vars PROVE GoneInv'
  OBVIOUS
<1>t. TypeOK /\ Place
  BY DEF GoneInv
<1>1. Moves /\ TypeOK'
  BY <1>t, NextMoves, NextType
<1>2. Place'
  BY <1>t, <1>1, PlaceStays
<1>3. RowsSafe' /\ HandlersSafe'
  <2>1. ASSUME NEW r \in Requests,
               Request(r) \/ Launch(r) \/ Bind(r) \/ Cleanup(r)
        PROVE  RowsSafe' /\ HandlersSafe'
    BY <1>1, <2>1, RequestSafe, LaunchSafe, BindSafe, CleanupGoesSafe, CleanupWritesSafe
       DEF Cleanup
  <2>2. CASE Session
    BY <1>1, <2>2, SessionSafe
  <2>3. CASE (\E r \in Requests : End(r) \/ Resolution(r)) \/ Environment \/ Crash \/ UNCHANGED vars
    BY <1>1, <2>3, OtherSafe
  <2> QED
    BY <2>1, <2>2, <2>3 DEF Next
<1> QED
  BY <1>1, <1>2, <1>3 DEF GoneInv

\* The invariant holds in every behaviour.
THEOREM GoneInvariant == Spec => []GoneInv
<1>1. Init => GoneInv
  BY InitGone
<1>2. GoneInv /\ [Next]_vars => GoneInv'
  BY NextGone
<1> QED
  BY <1>1, <1>2, PTL DEF Spec

\* A released worker's agent does not run any more, and its terminal is gone, whatever was
\* lost, survived, closed by hand or put into the pane meanwhile.
THEOREM ReleasedStaysGone == Spec => []ReleasedIsGone
<1>1. GoneInv => ReleasedIsGone
  BY DEF GoneInv, RowsSafe, RowSafe, Left, ReleasedIsGone
<1> QED
  BY <1>1, GoneInvariant, PTL

-----------------------------------------------------------------------------
(* What a release closes.                                                  *)

\* A request changes its own handler only.
LEMMA OthersStay ==
  ASSUME TypeOK, NEW r \in Requests,
         Request(r) \/ Launch(r) \/ Bind(r) \/ Cleanup(r) \/ End(r) \/ Resolution(r),
         NEW q \in Requests, q # r
  PROVE  h'[q] = h[q]
<1>1. \E Z : h \in [Requests -> Z]
  BY DEF TypeOK
<1>2. CASE Request(r)
  BY <1>1, <1>2 DEF Request, Spawn, Release, SpawnInPane, Adopt, Begin
<1>3. CASE Launch(r)
  BY <1>1, <1>3 DEF Launch, Record, NewTab, NoTab, Route, Put, waitShellReady, AgentStart, Confirm,
     Unconfirmed, Capture, Commit, Completes, launchFailure, Go, Answered
<1>4. CASE Bind(r)
  BY <1>1, <1>4 DEF Bind, AdoptLook, AdoptCapture, AdoptCommit, Completes, Refuse, Unread, GiveUp
<1>5. CASE Cleanup(r)
  BY <1>1, <1>5 DEF Cleanup, Inspect, Recheck, Close, Signal, Verify, Unsure, Seal, Retire,
     RetireCommit, Completes, Refuse, Unread, GiveUp, Go, Answered
<1>6. CASE End(r) \/ Resolution(r)
  BY <1>1, <1>6 DEF End, Resolution, ResolveLooks, Resolve, ResolveRejected
<1> QED
  BY <1>2, <1>3, <1>4, <1>5, <1>6

\* Who is about to close a pane, and has not been overtaken, has the own process in front of it.
CloseInv ==
  \A r \in Requests : h[r].step = "close" /\ r \notin stale =>
    LET p == h[r].row.pane IN pane[p] # 0 /\ AgentIn(p) = h[r].row.proc

\* What the ways to move a handler on do to its fields.
LEMMA FieldsAfter ==
  ASSUME TypeOK, NEW r \in Requests, h[r].step \in Steps
  PROVE  /\ \A s : Go(r, s) => /\ h'[r].step = s /\ h'[r].worker = h[r].worker
                               /\ h'[r].row = h[r].row /\ h'[r].answer = h[r].answer
         /\ \A s, l : h' = [h EXCEPT ![r].step = s, ![r].row = l]
                        => h'[r].step = s /\ h'[r].worker = h[r].worker /\ h'[r].answer = h[r].answer
         /\ h' = [h EXCEPT ![r] = Free] => h'[r] = Free
<1>1. (\E Z : h \in [Requests -> Z]) /\ h[r] \in Handler
  BY BusyHandler DEF TypeOK
<1>2. \A s : Go(r, s) => /\ h'[r].step = s /\ h'[r].worker = h[r].worker
                         /\ h'[r].row = h[r].row /\ h'[r].answer = h[r].answer
  BY <1>1 DEF Go, Handler
<1>4. \A s, l : h' = [h EXCEPT ![r].step = s, ![r].row = l]
                  => h'[r].step = s /\ h'[r].worker = h[r].worker /\ h'[r].answer = h[r].answer
  BY <1>1 DEF Handler
<1>6. h' = [h EXCEPT ![r] = Free] => h'[r] = Free
  BY <1>1
<1> QED
  BY <1>2, <1>4, <1>6

\* A handler that has an answer.
LEMMA AnswerAfter ==
  ASSUME TypeOK, NEW r \in Requests, h[r].step \in Steps, NEW a, NEW s, Answered(r, a, s)
  PROVE  /\ h'[r].step = s /\ h'[r].worker = h[r].worker
         /\ h'[r].row = h[r].row /\ h'[r].answer = a
<1>1. (\E Z : h \in [Requests -> Z]) /\ h[r] \in Handler
  BY BusyHandler DEF TypeOK
<1> QED
  BY <1>1 DEF Answered, Handler

\* A handler that has an answer and another row.
LEMMA RowAndAnswerAfter ==
  ASSUME TypeOK, NEW r \in Requests, h[r].step \in Steps, NEW a, NEW s, NEW l,
         h' = [h EXCEPT ![r].step = s, ![r].row = l, ![r].answer = a]
  PROVE  h'[r].step = s /\ h'[r].worker = h[r].worker /\ h'[r].answer = a
<1>1. (\E Z : h \in [Requests -> Z]) /\ h[r] \in Handler
  BY BusyHandler DEF TypeOK
<1> QED
  BY <1>1 DEF Handler

\* Where a request begins.
LEMMA Begins ==
  ASSUME TypeOK, NEW r \in Requests, Request(r)
  PROVE  \E w \in Workers :
           /\ op[r] = NoOp /\ h'[r].worker = w
           /\ \/ h'[r].step = "record" /\ FreshWorker(w)
              \/ h'[r].step \in {"look", "inspect"}
<1>1. \E Z : h \in [Requests -> Z]
  BY DEF TypeOK
<1>2. ASSUME NEW kind, NEW w, NEW l, NEW s, Begin(r, kind, w, l, s)
      PROVE  op[r] = NoOp /\ h'[r].worker = w /\ h'[r].step = s
  BY <1>1, <1>2 DEF Begin
<1>3. PICK w \in Workers :
        \/ Spawn(r, w) \/ Release(r, w) \/ \E p \in Panes : SpawnInPane(r, w, p) \/ Adopt(r, w, p)
  BY DEF Request
<1>4. CASE Spawn(r, w)
  BY <1>2, <1>4 DEF Spawn
<1>5. CASE Release(r, w)
  BY <1>2, <1>5 DEF Release
<1>6. ASSUME NEW p \in Panes, SpawnInPane(r, w, p)
      PROVE  FreshWorker(w) /\ op[r] = NoOp /\ h'[r].worker = w /\ h'[r].step = "record"
  BY <1>2, <1>6 DEF SpawnInPane
<1>7. ASSUME NEW p \in Panes, Adopt(r, w, p)
      PROVE  op[r] = NoOp /\ h'[r].worker = w /\ h'[r].step = "look"
  BY <1>2, <1>7 DEF Adopt
<1> QED
  BY <1>3, <1>4, <1>5, <1>6, <1>7

\* Where a launch goes, from x to y.
LaunchTo(x, y) ==
  /\ y.worker = x.worker
  /\ \/ x.step \in {"record", "route"} /\ y.step = "shell"
     \/ x.step = "record" /\ y.step = "tab"
     \/ x.step = "tab" /\ y.step = "route"
     \/ x.step = "shell" /\ y.step = "start"
     \/ x.step \in {"tab", "shell"} /\ y.step = "failing" /\ y.answer \in {"lost", "refused"}
     \/ x.step = "start" /\ y.step = "confirm"
     \/ x.step = "confirm" /\ y.step = "capture"
     \/ /\ x.step = "confirm" /\ y.step = "failing"
        /\ y.answer = IF x.answer = "refused" THEN "refused" ELSE "lost"
     \/ x.step = "capture" /\ y.step = "commit"
     \/ x.step = "capture" /\ y.step = "failing" /\ y.answer = "lost"
     \/ x.step = "failing" /\ y.step = "ending"

\* A launch ends, or goes there.
LEMMA LaunchGoes ==
  ASSUME TypeOK, NEW r \in Requests, Launch(r)
  PROVE  (h[r].step = "commit" /\ h'[r] = Free) \/ LaunchTo(h[r], h'[r])
<1>s. h[r].step \in Steps
  BY DEF Launch, Record, NewTab, NoTab, Route, waitShellReady, AgentStart, Confirm, Capture, Commit,
     launchFailure, Steps
<1>1. CASE Record(r) \/ Route(r)
  <2>1. \/ h[r].step \in {"record", "route"} /\ Go(r, "shell")
        \/ h[r].step = "record" /\ Go(r, "tab")
    BY <1>1 DEF Record, Route, Put
  <2>2. \/ h[r].step \in {"record", "route"} /\ h'[r].step = "shell"
        \/ h[r].step = "record" /\ h'[r].step = "tab"
    BY <1>s, <2>1, FieldsAfter
  <2>3. h'[r].worker = h[r].worker
    BY <1>s, <2>1, FieldsAfter
  <2> QED
    BY <2>2, <2>3 DEF LaunchTo
<1>2. CASE NewTab(r)
  <2>1. PICK l :
          /\ h[r].step = "tab"
          /\ \/ h' = [h EXCEPT ![r].step = "route", ![r].row = l]
             \/ Answered(r, "lost", "failing")
    BY <1>2 DEF NewTab
  <2>2. CASE h' = [h EXCEPT ![r].step = "route", ![r].row = l]
    <3>1. h'[r].step = "route" /\ h'[r].worker = h[r].worker
      BY <1>s, <2>2, FieldsAfter
    <3> QED
      BY <2>1, <3>1 DEF LaunchTo
  <2>3. CASE Answered(r, "lost", "failing")
    <3>1. h'[r].step = "failing" /\ h'[r].worker = h[r].worker /\ h'[r].answer = "lost"
      BY <1>s, <2>3, FieldsAfter, AnswerAfter
    <3> QED
      BY <2>1, <3>1 DEF LaunchTo
  <2> QED
    BY <2>1, <2>2, <2>3
<1>3. CASE NoTab(r)
  <2>1. PICK a \in {"lost", "refused"} : h[r].step = "tab" /\ Answered(r, a, "failing")
    BY <1>3 DEF NoTab
  <2>2. h'[r].step = "failing" /\ h'[r].worker = h[r].worker /\ h'[r].answer = a
    BY <1>s, <2>1, AnswerAfter
  <2> QED
    BY <2>1, <2>2 DEF LaunchTo
<1>4. CASE waitShellReady(r)
  <2>1. h[r].step = "shell" /\ (Go(r, "start") \/ Answered(r, "refused", "failing"))
    BY <1>4 DEF waitShellReady
  <2>2. Go(r, "start") => h'[r].step = "start" /\ h'[r].worker = h[r].worker
    BY <1>s, FieldsAfter
  <2>3. Answered(r, "refused", "failing")
          => h'[r].step = "failing" /\ h'[r].worker = h[r].worker /\ h'[r].answer = "refused"
    BY <1>s, AnswerAfter
  <2> QED
    BY <2>1, <2>2, <2>3 DEF LaunchTo
<1>5. CASE AgentStart(r)
  <2>1. h[r].step = "start" /\ \E a : Answered(r, a, "confirm")
    BY <1>5 DEF AgentStart
  <2> QED
    BY <1>s, <2>1, AnswerAfter DEF LaunchTo
<1>6. CASE Confirm(r)
  <2> DEFINE a == IF h[r].answer = "refused" THEN "refused" ELSE "lost"
  <2>1. h[r].step = "confirm" /\ (Go(r, "capture") \/ Answered(r, a, "failing"))
    BY <1>6 DEF Confirm, Unconfirmed
  <2> HIDE DEF a
  <2>2. Go(r, "capture") => h'[r].step = "capture" /\ h'[r].worker = h[r].worker
    BY <1>s, FieldsAfter
  <2>3. Answered(r, a, "failing")
          => h'[r].step = "failing" /\ h'[r].worker = h[r].worker /\ h'[r].answer = a
    BY <1>s, AnswerAfter
  <2> QED
    BY <2>1, <2>2, <2>3 DEF LaunchTo, a
<1>7. CASE Capture(r)
  <2> DEFINE l == Captured(h[r].row)
  <2>1. /\ h[r].step = "capture"
        /\ \/ h' = [h EXCEPT ![r].step = "commit", ![r].row = l]
           \/ h' = [h EXCEPT ![r].step = "failing", ![r].row = l, ![r].answer = "lost"]
           \/ Answered(r, "lost", "failing")
    BY <1>7 DEF Capture
  <2> HIDE DEF l
  <2>2. CASE h' = [h EXCEPT ![r].step = "commit", ![r].row = l]
    <3>1. h'[r].step = "commit" /\ h'[r].worker = h[r].worker
      BY <1>s, <2>2, FieldsAfter
    <3> QED
      BY <2>1, <3>1 DEF LaunchTo
  <2>3. CASE h' = [h EXCEPT ![r].step = "failing", ![r].row = l, ![r].answer = "lost"]
    <3>1. h'[r].step = "failing" /\ h'[r].worker = h[r].worker /\ h'[r].answer = "lost"
      BY <1>s, <2>3, RowAndAnswerAfter
    <3> QED
      BY <2>1, <3>1 DEF LaunchTo
  <2>4. CASE Answered(r, "lost", "failing")
    <3>1. h'[r].step = "failing" /\ h'[r].worker = h[r].worker /\ h'[r].answer = "lost"
      BY <1>s, <2>4, AnswerAfter
    <3> QED
      BY <2>1, <3>1 DEF LaunchTo
  <2> QED
    BY <2>1, <2>2, <2>3, <2>4
<1>8. CASE Commit(r)
  BY <1>s, <1>8, FieldsAfter DEF Commit, Completes
<1>9. CASE launchFailure(r)
  BY <1>s, <1>9, FieldsAfter DEF launchFailure, LaunchTo
<1> QED
  BY <1>1, <1>2, <1>3, <1>4, <1>5, <1>6, <1>7, <1>8, <1>9 DEF Launch

\* Where an adoption goes.
LEMMA BindGoes ==
  ASSUME TypeOK, NEW r \in Requests, Bind(r)
  PROVE  h'[r] = Free \/ h'[r].step \in {"take", "bind"}
<1>s. h[r].step \in Steps
  BY DEF Bind, AdoptLook, AdoptCapture, AdoptCommit, Steps
<1>1. PICK l, s : /\ s \in {"take", "bind"}
                  /\ \/ h' = [h EXCEPT ![r].step = s, ![r].row = l]
                     \/ h' = [h EXCEPT ![r] = Free]
  BY DEF Bind, AdoptLook, AdoptCapture, AdoptCommit, Completes, Refuse, Unread, GiveUp
<1>2. CASE h' = [h EXCEPT ![r].step = s, ![r].row = l]
  <2>1. h'[r].step = s
    BY <1>s, <1>2, FieldsAfter
  <2> QED
    BY <1>1, <2>1
<1>3. CASE h' = [h EXCEPT ![r] = Free]
  BY <1>s, <1>3, FieldsAfter
<1> QED
  BY <1>1, <1>2, <1>3

\* A release is at one of these steps.
LEMMA CleanupBusy ==
  ASSUME TypeOK, NEW r \in Requests, Cleanup(r)
  PROVE  /\ h[r].step \in {"inspect", "recheck", "close", "signal", "verify", "unsure", "seal",
                           "retire", "retired"}
         /\ h[r].step \in Steps
  BY DEF Cleanup, Inspect, Recheck, Close, Signal, Verify, Unsure, Seal, Retire, RetireCommit, Steps

\* Where a release goes; it goes to the close from the last check only.
LEMMA CleanupSteps ==
  ASSUME TypeOK, NEW r \in Requests, Cleanup(r)
  PROVE  \/ h'[r] = Free
         \/ h'[r].step \in {"recheck", "signal", "verify", "unsure", "seal", "retire", "retired",
                            "ending"}
         \/ /\ Recheck(r) /\ verifyAttachment(h[r].row, h[r].row.pane) /\ UNCHANGED <<pane, fg>>
            /\ h'[r].step = "close" /\ h'[r].row = h[r].row
<1>s. h[r].step \in Steps
  BY CleanupBusy
<1>1. CASE Recheck(r)
  <2>1. \/ /\ verifyAttachment(h[r].row, h[r].row.pane) /\ Go(r, "close") /\ UNCHANGED <<pane, fg>>
        \/ h' = [h EXCEPT ![r] = Free]
    BY <1>1 DEF Recheck, Refuse, GiveUp, herdrVars
  <2> QED
    BY <1>s, <1>1, <2>1, FieldsAfter, AnswerAfter
<1>2. CASE ~Recheck(r)
  <2>1. \/ h' = [h EXCEPT ![r] = Free]
        \/ \E s \in {"recheck", "signal", "verify", "unsure", "seal", "retire", "retired", "ending"} : \E a :
             Go(r, s) \/ Answered(r, a, s)
    BY <1>2 DEF Cleanup, Inspect, Close, Signal, Verify, Unsure, Seal, Retire,
       RetireCommit, Completes, Refuse, Unread, GiveUp
  <2> QED
    BY <1>s, <2>1, FieldsAfter, AnswerAfter
<1> QED
  BY <1>1, <1>2

\* Nobody else moves handlers, but for a crash.
LEMMA HandlersStay ==
  ASSUME Environment \/ Session \/ UNCHANGED vars
  PROVE  h' = h
  BY DEF vars, Environment, OpenTab, StartByHand, ClosePane, ExitAgent, MovePane, StartLate,
     Outside, Session, Sample, observeWorker, Outage

\* Only the last check leads to the close, and it saw the own process.
LEMMA CloseBegins ==
  ASSUME TypeOK, [Next]_vars, NEW r \in Requests, h'[r].step = "close", h'[r] # h[r]
  PROVE  /\ UNCHANGED <<pane, fg>> /\ h'[r].row = h[r].row
         /\ verifyAttachment(h[r].row, h[r].row.pane)
<1>n. Free.step # "close"
  BY DEF Free
<1>0. ~Crash
  BY <1>n DEF Crash
<1>1. PICK q \in Requests :
        Request(q) \/ Launch(q) \/ Bind(q) \/ Cleanup(q) \/ End(q) \/ Resolution(q)
  BY <1>0, HandlersStay DEF Next
<1>2. q = r
  BY <1>1, OthersStay
<1>3. ~Request(r)
  BY Begins
<1>4. ~Launch(r)
  BY <1>n, LaunchGoes DEF LaunchTo
<1>5. ~Bind(r)
  BY <1>n, BindGoes
<1>6. ~End(r) /\ ~Resolution(r)
  <2>1. \E Z : h \in [Requests -> Z]
    BY DEF TypeOK
  <2> QED
    BY <1>n, <2>1 DEF End, Resolution, ResolveLooks, Resolve, ResolveRejected
<1>7. Cleanup(r)
  BY <1>1, <1>2, <1>3, <1>4, <1>5, <1>6
<1> QED
  BY <1>n, <1>7, CleanupSteps

\* What an agent starts, a close ends or a pane receives leaves the other panes alone.
LEMMA OtherPanes ==
  ASSUME TypeOK, Place, NEW p \in Panes, NEW q \in Panes, q # p, pane[p] # 0
  PROVE  /\ Opens(q) => pane'[p] = pane[p] /\ fg'[pane[p]] = fg[pane[p]]
         /\ \A n : Starts(n, q) /\ UNCHANGED pane => fg'[pane[p]] = fg[pane[p]]
         /\ \A S : Closes(q, S) => pane'[p] = pane[p] /\ fg'[pane[p]] = fg[pane[p]]
<1>1. pane[p] \in Terms /\ Herdr
  BY TypeParts, Numbers
<1>2. pane[q] # pane[p]
  BY DEF Place
<1>3. Opens(q) => pane'[p] = pane[p] /\ fg'[pane[p]] = fg[pane[p]]
  <2>1. SUFFICES ASSUME Opens(q) PROVE pane'[p] = pane[p] /\ fg'[pane[p]] = fg[pane[p]]
    OBVIOUS
  <2>2. fg' = Append(fg, 0) /\ pane' = [pane EXCEPT ![q] = Len(fg) + 1]
    BY <2>1 DEF Opens
  <2> QED
    BY <1>1, <2>2, AppendProperties DEF Herdr, Terms
<1>4. \A n : Starts(n, q) /\ UNCHANGED pane => fg'[pane[p]] = fg[pane[p]]
  BY <1>1, <1>2 DEF Starts, Herdr, Terms
<1>5. \A S : Closes(q, S) => pane'[p] = pane[p] /\ fg'[pane[p]] = fg[pane[p]]
  BY <1>1, <1>2 DEF Closes, Herdr, Terms
<1> QED
  BY <1>3, <1>4, <1>5

\* A release in front of its close is overtaken, or nothing happens in its pane.
Overtaken(r) == r \in stale'
Untouched(r) == LET p == h[r].row.pane IN pane'[p] = pane[p] /\ fg'[pane[p]] = fg[pane[p]]

\* Whatever a handler does in the pane that a release is about to close is remembered.
LEMMA RequestOvertakes ==
  ASSUME GoneInv, NEW r \in Requests, h[r].step = "close", h'[r] = h[r],
         h[r].row.pane \in Panes, pane[h[r].row.pane] # 0,
         AgentIn(h[r].row.pane) = h[r].row.proc,
         NEW q \in Requests,
         Request(q) \/ Launch(q) \/ Bind(q) \/ Cleanup(q) \/ End(q) \/ Resolution(q)
  PROVE  (r \in stale \/ ~Untouched(r)) => Overtaken(r)
<1> DEFINE p == h[r].row.pane
<1>t. TypeOK /\ Place
  BY DEF GoneInv
<1>h. \E Z : h \in [Requests -> Z]
  BY <1>t DEF TypeOK
<1>p. h[r].row.proc # 0
  BY DEF GoneInv, HandlersSafe, HandlerSafe, Removing
<1>l. r \in LookedAt(p)
  BY DEF LookedAt
<1>0. CASE UNCHANGED <<pane, fg, stale>>
  BY <1>0 DEF Untouched, Overtaken
<1>1. CASE NewTab(q)
  <2>1. PICK s \in Panes : Opens(s) /\ Outdates(s)
    BY <1>1 DEF NewTab
  <2>2. stale \subseteq stale' /\ (p = s => r \in stale')
    BY <1>l, <2>1 DEF Outdates
  <2>3. p # s => Untouched(r)
    BY <1>t, <2>1, OtherPanes DEF Untouched
  <2> QED
    BY <2>2, <2>3 DEF Overtaken
<1>2. CASE AgentStart(q) /\ ~UNCHANGED <<pane, fg, stale>>
  <2> DEFINE s == h[q].row.pane
  <2>1. Starts(h[q].worker, s) /\ Outdates(s) /\ UNCHANGED pane
    BY <1>2 DEF AgentStart, herdrVars
  <2>2. s \in Panes
    <3>1. h[q].step \in Steps /\ s # None
      BY <1>2, <2>1 DEF AgentStart, Steps, Starts, Startable
    <3> QED
      BY <1>t, <3>1, BusyHandler DEF RowIn
  <2> HIDE DEF s
  <2>3. stale \subseteq stale' /\ (p = s => r \in stale')
    BY <1>l, <2>1 DEF Outdates
  <2>4. p # s => Untouched(r)
    BY <1>t, <2>1, <2>2, OtherPanes DEF Untouched
  <2> QED
    BY <2>3, <2>4 DEF Overtaken
<1>3. CASE Close(q)
  <2> DEFINE s == h[q].row.pane
  <2>1. q # r
    <3>1. h[q].step \in Steps /\ (Go(q, "signal") \/ \E a : Answered(q, a, "unsure"))
      BY <1>3 DEF Close, Steps
    <3>2. h'[q].step \in {"signal", "unsure"}
      BY <1>t, <3>1, FieldsAfter, AnswerAfter
    <3> QED
      BY <3>2
  <2>2. CASE UNCHANGED herdrVars
    <3>1. stale \ {q} \subseteq stale'
      BY <1>3, <2>2 DEF Close
    <3> QED
      BY <2>1, <2>2, <3>1 DEF herdrVars, Untouched, Overtaken
  <2>3. CASE ~UNCHANGED herdrVars
    <3>1. /\ \E S : Closes(s, S)
          /\ stale' = (stale \cup LookedAt(s)) \ {q}
      BY <1>3, <2>3 DEF Close
    <3>2. s \in Panes
      <4>1. h[q].step \in Binds /\ h[q].step \in Steps
        BY <1>3 DEF Close, Binds, Steps
      <4> QED
        BY <1>t, <4>1, BusyHandler, TypeParts DEF Handlers, RowIn
    <3>3. p # s => Untouched(r)
      BY <1>t, <3>1, <3>2, OtherPanes DEF Untouched
    <3> HIDE DEF s
    <3> QED
      BY <1>l, <2>1, <3>1, <3>3 DEF Overtaken
  <2> QED
    BY <2>2, <2>3
<1>4. CASE Signal(q) /\ ~UNCHANGED <<pane, fg, stale>>
  <2> DEFINE b == h[q].row.proc
  <2>1. /\ fg' = [t \in Terms |-> IF fg[t] = b THEN 0 ELSE fg[t]] /\ UNCHANGED pane
        /\ stale' = stale \cup UNION {LookedAt(s) : s \in {q1 \in Panes : HasAgent(q1) /\ AgentIn(q1) = b}}
    BY <1>4 DEF Signal, herdrVars
  <2> HIDE DEF b
  <2>2. pane[p] \in Terms
    BY <1>t, TypeParts, Numbers
  <2>3. CASE fg[pane[p]] = b
    <3>1. p # None /\ HasAgent(p) /\ AgentIn(p) = b
      BY <1>p, <2>3, NamesAssumption DEF HasAgent, AgentIn
    <3>2. LookedAt(p) \subseteq stale'
      BY <2>1, <3>1
    <3> QED
      BY <1>l, <3>2 DEF Overtaken
  <2>4. CASE fg[pane[p]] # b
    BY <2>1, <2>2, <2>4 DEF Untouched, Overtaken
  <2> QED
    BY <2>3, <2>4
<1>5. \/ UNCHANGED <<pane, fg, stale>> \/ NewTab(q) \/ Close(q)
      \/ AgentStart(q) \/ Signal(q)
  BY DEF Request, Spawn, SpawnInPane, Adopt, Release, Launch, Record, NoTab, Route, Put,
     waitShellReady, Confirm, Unconfirmed, Capture, Commit, Completes, launchFailure, Bind,
     AdoptLook, AdoptCapture, AdoptCommit, Refuse, Unread, GiveUp, Cleanup, Inspect, Recheck,
     Verify, Unsure, Seal, Retire, RetireCommit, End,
     Resolution, ResolveLooks, Resolve, ResolveRejected, herdrVars, history
<1> QED
  BY <1>0, <1>1, <1>2, <1>3, <1>4, <1>5

\* What happens outside overtakes as well.
LEMMA OutsideOvertakes ==
  ASSUME GoneInv, NEW r \in Requests, h[r].step = "close", h'[r] = h[r],
         h[r].row.pane \in Panes, pane[h[r].row.pane] # 0,
         Environment \/ Session \/ Crash \/ UNCHANGED vars
  PROVE  (r \in stale \/ ~Untouched(r)) => Overtaken(r)
<1> DEFINE p == h[r].row.pane
<1>t. TypeOK /\ Place
  BY DEF GoneInv
<1>h. Herdr /\ pane[p] \in Terms
  BY <1>t, TypeParts, Numbers
<1>l. r \in LookedAt(p)
  BY DEF LookedAt
<1>0. CASE UNCHANGED <<pane, fg, stale>>
  BY <1>0 DEF Untouched, Overtaken
<1>1. ASSUME NEW s \in Panes, Outdates(s), p # s => Untouched(r)
      PROVE  (r \in stale \/ ~Untouched(r)) => Overtaken(r)
  BY <1>1, <1>l DEF Outdates, Overtaken
<1>2. CASE OpenTab
  <2>1. PICK s \in Panes : Opens(s) /\ Outdates(s)
    BY <1>2 DEF OpenTab
  <2>2. p # s => Untouched(r)
    BY <1>t, <2>1, OtherPanes DEF Untouched
  <2> QED
    BY <1>1, <2>1, <2>2
<1>3. CASE StartByHand \/ StartLate
  <2>1. PICK n \in Names, s \in Panes : Starts(n, s) /\ Outdates(s) /\ UNCHANGED pane
    <3>1. CASE StartByHand
      BY <3>1 DEF StartByHand, Names
    <3>2. CASE StartLate
      <4>1. PICK l \in late : Starts(l[1], l[2]) /\ Outdates(l[2]) /\ UNCHANGED pane
        BY <3>2 DEF StartLate
      <4>2. l[1] \in Names /\ l[2] \in Panes
        BY <1>t, <4>1 DEF TypeOK, Starts, Startable, Names
      <4> QED
        BY <4>1, <4>2
    <3> QED
      BY <1>3, <3>1, <3>2
  <2>2. p # s => Untouched(r)
    BY <1>t, <2>1, OtherPanes DEF Untouched
  <2> QED
    BY <1>1, <2>1, <2>2
<1>4. CASE ClosePane
  <2>1. PICK s \in Panes : Closes(s, {AgentIn(s)}) /\ Outdates(s)
    BY <1>4 DEF ClosePane
  <2>2. p # s => Untouched(r)
    BY <1>t, <2>1, OtherPanes DEF Untouched
  <2> QED
    BY <1>1, <2>1, <2>2
<1>5. CASE ExitAgent
  <2>1. PICK s \in Panes : /\ pane[s] # 0 /\ Outdates(s) /\ UNCHANGED pane
                           /\ fg' = [fg EXCEPT ![pane[s]] = 0]
    BY <1>5 DEF ExitAgent, HasAgent
  <2>2. p # s => pane[s] # pane[p]
    BY <1>t, <2>1 DEF Place
  <2>3. p # s => Untouched(r)
    BY <1>h, <2>1, <2>2 DEF Untouched, Herdr, Terms
  <2> QED
    BY <1>1, <2>1, <2>3
<1>6. CASE MovePane
  <2>1. PICK s, q \in Panes : /\ pane[q] = 0 /\ pane' = [pane EXCEPT ![s] = 0, ![q] = pane[s]]
                              /\ Outdates(s) /\ fg' = fg
    BY <1>6 DEF MovePane
  <2>2. p # q
    BY <2>1
  <2>3. p # s => Untouched(r)
    BY <1>h, <2>1, <2>2 DEF Untouched, Herdr
  <2> QED
    BY <1>1, <2>1, <2>3
<1>7. CASE Session \/ UNCHANGED vars
  <2>1. UNCHANGED <<pane, fg, stale>>
    BY <1>7 DEF Session, Sample, observeWorker, Outage, vars, herdrVars, history
  <2> QED
    BY <1>0, <2>1
<1>8. ~Crash
  BY DEF Crash, Free
<1> QED
  BY <1>2, <1>3, <1>4, <1>5, <1>6, <1>7, <1>8 DEF Environment

\* Who has been overtaken stays so until the close.
LEMMA OvertakenStays ==
  ASSUME TypeOK, [Next]_vars, NEW r \in Requests, h[r].step = "close", h'[r] = h[r], r \in stale
  PROVE  r \in stale'
<1>1. CASE Environment \/ Session \/ UNCHANGED vars
  BY <1>1 DEF Environment, OpenTab, StartByHand, ClosePane, ExitAgent, MovePane, StartLate, Outdates,
     Session, Sample, observeWorker, Outage, vars, history
<1>2. ~Crash
  BY DEF Crash, Free
<1>3. ASSUME NEW q \in Requests,
             Request(q) \/ Launch(q) \/ Bind(q) \/ Cleanup(q) \/ End(q) \/ Resolution(q)
      PROVE  r \in stale'
  <2>1. CASE Close(q)
    <3>1. h[q].step \in Steps /\ (Go(q, "signal") \/ \E a : Answered(q, a, "unsure"))
      BY <2>1 DEF Close, Steps
    <3>2. h'[q].step \in {"signal", "unsure"}
      BY <3>1, FieldsAfter, AnswerAfter
    <3> QED
      BY <2>1, <3>2 DEF Close
  <2>2. CASE ~Close(q)
    BY <1>3, <2>2 DEF Request, Spawn, SpawnInPane, Adopt, Release, Launch, Record, NewTab, NoTab, Route,
       Put, waitShellReady, AgentStart, Outdates, Confirm, Unconfirmed, Capture, Commit, Completes,
       launchFailure, Bind, AdoptLook, AdoptCapture, AdoptCommit, Refuse, Unread, GiveUp, Cleanup,
       Inspect, Recheck, Signal, Verify, Unsure, Seal, Retire, RetireCommit, End,
       Resolution, ResolveLooks, Resolve, ResolveRejected, history
  <2> QED
    BY <2>1, <2>2
<1> QED
  BY <1>1, <1>2, <1>3 DEF Next

\* Every step leaves the invariant of the close.
LEMMA NextClose == GoneInv /\ CloseInv /\ [Next]_vars => CloseInv'
<1> SUFFICES ASSUME GoneInv, CloseInv, [Next]_vars,
                    NEW r \in Requests, h'[r].step = "close", r \notin stale'
             PROVE  /\ pane'[h'[r].row.pane] # 0
                    /\ fg'[pane'[h'[r].row.pane]] = h'[r].row.proc
  BY DEF CloseInv, AgentIn
<1>t. TypeOK
  BY DEF GoneInv
<1>1. CASE h'[r] # h[r]
  <2>1. /\ UNCHANGED <<pane, fg>> /\ h'[r].row = h[r].row
        /\ verifyAttachment(h[r].row, h[r].row.pane)
    BY <1>t, <1>1, CloseBegins
  <2> QED
    BY <2>1 DEF verifyAttachment, HasAgent, AgentIn
<1>2. CASE h'[r] = h[r]
  <2> DEFINE p == h[r].row.pane
  <2>1. h[r].step = "close"
    BY <1>2
  <2>2. p \in Panes
    <3>1. h[r].step \in Binds /\ h[r].step \in Steps
      BY <2>1 DEF Binds, Steps
    <3> QED
      BY <1>t, <3>1, BusyHandler, TypeParts DEF Handlers, RowIn
  <2>3. r \notin stale
    BY <1>t, <1>2, <2>1, OvertakenStays
  <2>4. pane[p] # 0 /\ AgentIn(p) = h[r].row.proc
    BY <2>1, <2>3 DEF CloseInv
  <2>5. CASE Environment \/ Session \/ Crash \/ UNCHANGED vars
    <3>1. Untouched(r)
      BY <1>2, <2>1, <2>2, <2>4, <2>5, OutsideOvertakes DEF Overtaken
    <3> QED
      BY <1>2, <2>4, <3>1 DEF Untouched, AgentIn
  <2>6. ASSUME NEW q \in Requests,
               Request(q) \/ Launch(q) \/ Bind(q) \/ Cleanup(q) \/ End(q) \/ Resolution(q)
        PROVE  Untouched(r)
    BY <1>2, <2>1, <2>2, <2>4, <2>6, RequestOvertakes DEF Overtaken
  <2>7. Untouched(r) => /\ pane'[h'[r].row.pane] # 0
                        /\ fg'[pane'[h'[r].row.pane]] = h'[r].row.proc
    BY <1>2, <2>4 DEF Untouched, AgentIn
  <2> QED
    BY <2>5, <2>6, <2>7 DEF Next
<1> QED
  BY <1>1, <1>2

\* A release closes the pane of the worker's own process, unless something happened in the
\* pane after the last check.
THEOREM ReleaseClosesOwn == Spec => ClosesOwn
<1>1. Init => GoneInv /\ CloseInv
  <2>1. ASSUME Init PROVE CloseInv
    <3>1. \A r \in Requests : h[r].step = "free"
      BY <2>1 DEF Init, Free
    <3> QED
      BY <3>1 DEF CloseInv
  <2> QED
    BY <2>1, InitGone
<1>2. GoneInv /\ CloseInv /\ [Next]_vars => (GoneInv /\ CloseInv)'
  BY NextGone, NextClose
<1>3. CloseInv => \A r \in Requests : h[r].step = "close" /\ h'[r].step \in {"signal", "unsure"} =>
                    LET p == h[r].row.pane
                    IN pane'[p] = pane[p] \/ r \in stale \/ AgentIn(p) = h[r].row.proc
  BY DEF CloseInv
<1> QED
  BY <1>1, <1>2, <1>3, PTL DEF Spec, ClosesOwn

-----------------------------------------------------------------------------
(* What a step writes into the row of a worker.                            *)

\* The handler of q, at its last steps, writes the row of its worker w.
Writes(q, w) ==
  /\ h[q].worker = w
  /\ \/ /\ h[q].step \in {"record", "route"} /\ h'[q].step \in {"tab", "shell"}
        /\ row'[w] = h[q].row
     \/ h[q].step = "commit" /\ h'[q] = Free /\ row'[w] = h[q].row
     \/ /\ h[q].step = "failing" /\ h'[q].step = "ending"
        /\ row'[w] = [h[q].row EXCEPT !.state = IF h[q].answer = "lost" THEN "starting" ELSE "failed"]
     \/ /\ h[q].step = "bind" /\ h'[q] = Free
        /\ row'[w] = h[q].row /\ ~alreadyAdopted(w, h[q].row)
        /\ (\E x \in Requests : Launching(x, w)) => w \in overlapped'
     \/ /\ h[q].step = "unsure" /\ h'[q].step = "ending"
        /\ row'[w] = [h[q].row EXCEPT !.state = "offline"]
     \/ /\ h[q].step = "seal" /\ h'[q] = Free
        /\ row'[w] = [h[q].row EXCEPT !.state = "released"]
     \/ /\ h[q].step = "retired" /\ h'[q] = Free
        /\ row'[w] = [row[w] EXCEPT !.state = "released", !.op = q]

\* A release begins with the row of w, the session lane observes it, or a person settles it,
\* which is on record if it happens during a launch.
Changes(w) ==
  \/ \E q \in Requests : Release(q, w)
  \/ sessionActive(w) /\ row'[w] \in {Observed(row[w]), [row[w] EXCEPT !.state = "offline"]}
  \/ /\ unbound(row[w]) /\ w \in resolved' /\ row'[w] = [row[w] EXCEPT !.state = "failed"]
     /\ (\E x \in Requests : Launching(x, w)) => w \in overlapped'

\* Nothing else writes it.
LEMMA RowStep ==
  ASSUME TypeOK, [Next]_vars, NEW w \in Workers
  PROVE  row'[w] = row[w] \/ (\E q \in Requests : Writes(q, w)) \/ Changes(w)
<1>t. \E Z : row \in [Workers -> Z]
  BY DEF TypeOK
<1>1. CASE Environment \/ Crash \/ UNCHANGED vars
  BY <1>1 DEF Environment, OpenTab, StartByHand, ClosePane, ExitAgent, MovePane, StartLate, Outside,
     Crash, vars
<1>2. CASE Session
  <2>1. CASE observeWorker
    BY <1>t, <2>1 DEF observeWorker, Changes
  <2>2. CASE ~observeWorker
    BY <1>2, <2>2 DEF Session, Sample, Outage, Changes
  <2> QED
    BY <2>1, <2>2
<1>3. ASSUME NEW q \in Requests,
             Request(q) \/ Launch(q) \/ Bind(q) \/ Cleanup(q) \/ End(q) \/ Resolution(q)
      PROVE  row'[w] = row[w] \/ Writes(q, w) \/ Changes(w)
  <2>1. CASE Request(q)
    <3>0. PICK v \in Workers :
            \/ Spawn(q, v) \/ Release(q, v) \/ \E p \in Panes : SpawnInPane(q, v, p) \/ Adopt(q, v, p)
      BY <2>1 DEF Request
    <3>1. Release(q, v) \/ row' = row
      <4>1. ASSUME NEW p \in Panes, SpawnInPane(q, v, p) PROVE row' = row
        BY <4>1 DEF SpawnInPane
      <4>2. ASSUME NEW p \in Panes, Adopt(q, v, p) PROVE row' = row
        BY <4>2 DEF Adopt
      <4>3. CASE Spawn(q, v)
        BY <4>3 DEF Spawn
      <4> QED
        BY <3>0, <4>1, <4>2, <4>3
    <3>2. CASE v = w
      BY <3>1, <3>2 DEF Changes
    <3>3. CASE v # w
      BY <1>t, <3>1, <3>3 DEF Release
    <3> QED
      BY <3>2, <3>3
  <2>2. CASE Record(q) \/ Route(q)
    <3>1. /\ h[q].step \in {"record", "route"} /\ row' = [row EXCEPT ![h[q].worker] = h[q].row]
          /\ Go(q, "shell") \/ Go(q, "tab")
          /\ h[q].step \in Steps
      BY <2>2 DEF Record, Route, Put, Steps
    <3>2. h'[q].step \in {"tab", "shell"}
      BY <3>1, FieldsAfter
    <3> QED
      BY <1>t, <3>1, <3>2 DEF Writes
  <2>h. h' = [h EXCEPT ![q] = Free] => h'[q] = Free
    BY DEF TypeOK
  <2>3. CASE Commit(q)
    <3>1. /\ h[q].step = "commit" /\ row' = [row EXCEPT ![h[q].worker] = h[q].row]
          /\ h'[q] = Free
      BY <2>3, <2>h DEF Commit, Completes
    <3> QED
      BY <1>t, <3>1 DEF Writes
  <2>4. CASE launchFailure(q)
    <3>1. h[q].step \in Steps /\ Go(q, "ending")
      BY <2>4 DEF launchFailure, Steps
    <3>2. h'[q].step = "ending"
      BY <3>1, FieldsAfter
    <3> QED
      BY <1>t, <2>4, <3>2 DEF launchFailure, Writes
  <2>5. CASE AdoptCommit(q)
    <3>1. h'[q] = Free
      BY <2>5, <2>h DEF AdoptCommit, Completes, Refuse, GiveUp
    <3> QED
      BY <1>t, <2>5, <3>1 DEF AdoptCommit, Refuse, GiveUp, Writes
  <2>6. CASE Unsure(q)
    <3>1. h[q].step \in Steps /\ Go(q, "ending")
      BY <2>6 DEF Unsure, Steps
    <3>2. h'[q].step = "ending"
      BY <3>1, FieldsAfter
    <3> QED
      BY <1>t, <2>6, <3>2 DEF Unsure, Writes
  <2>9. CASE Seal(q) \/ RetireCommit(q)
    <3>1. h'[q] = Free
      BY <2>9, <2>h DEF Seal, RetireCommit, Completes, Refuse, GiveUp
    <3> QED
      BY <1>t, <2>9, <3>1 DEF Seal, RetireCommit, Refuse, GiveUp, Writes
  <2>7. CASE Resolve(q)
    <3> DEFINE v == op[q].worker
    <3>1. \/ row' = row
          \/ /\ unbound(row[v]) /\ v \in resolved' /\ row' = [row EXCEPT ![v].state = "failed"]
             /\ (\E x \in Requests : Launching(x, v)) => v \in overlapped'
      BY <2>7 DEF Resolve, mayFail
    <3> HIDE DEF v
    <3>2. CASE v = w
      BY <1>t, <3>1, <3>2 DEF Changes
    <3>3. CASE v # w
      BY <1>t, <3>1, <3>3
    <3> QED
      BY <3>2, <3>3
  <2>8. \/ UNCHANGED row \/ Request(q) \/ Record(q) \/ Route(q) \/ Commit(q) \/ launchFailure(q)
        \/ AdoptCommit(q) \/ Unsure(q) \/ Seal(q) \/ RetireCommit(q) \/ Resolve(q)
    <3>1. ASSUME NewTab(q) \/ NoTab(q) \/ waitShellReady(q) \/ AgentStart(q) \/ Confirm(q) \/ Capture(q)
          PROVE  row' = row
      <4>1. CASE NewTab(q)
        BY <4>1 DEF NewTab
      <4>2. CASE NoTab(q) \/ waitShellReady(q)
        BY <4>2 DEF NoTab, waitShellReady
      <4>3. CASE AgentStart(q)
        BY <4>3 DEF AgentStart
      <4>4. CASE Confirm(q) \/ Capture(q)
        BY <4>4 DEF Confirm, Capture
      <4> QED
        BY <3>1, <4>1, <4>2, <4>3, <4>4
    <3>2. ASSUME AdoptLook(q) \/ AdoptCapture(q) PROVE row' = row
      BY <3>2 DEF AdoptLook, AdoptCapture, Refuse, Unread, GiveUp
    <3>3. ASSUME \/ Inspect(q) \/ Recheck(q) \/ Close(q) \/ Signal(q) \/ Verify(q) \/ Retire(q)
                 \/ End(q)
          PROVE  row' = row
      BY <3>3 DEF Inspect, Recheck, Close, Signal, Verify, Retire, Refuse, Unread, GiveUp, End
    <3>4. ASSUME Resolution(q), ~Resolve(q) PROVE row' = row
      BY <3>4 DEF Resolution, ResolveLooks, ResolveRejected
    <3> QED
      BY <1>3, <3>1, <3>2, <3>3, <3>4 DEF Launch, Bind, Cleanup
  <2> QED
    BY <2>1, <2>2, <2>3, <2>4, <2>5, <2>6, <2>7, <2>8, <2>9
<1> QED
  BY <1>1, <1>2, <1>3 DEF Next

\* What that says of its state.
LEMMA StateStep ==
  ASSUME TypeOK, [Next]_vars, NEW w \in Workers
  PROVE  /\ row'[w].state = "none" => row[w].state = "none"
         /\ row'[w].state = "failed"
              => \/ row[w].state = "failed" \/ w \in resolved'
                 \/ \E q \in Requests : /\ h[q].step = "failing" /\ h[q].worker = w
                                        /\ h[q].answer # "lost" /\ h'[q].step = "ending"
<1>t. row[w] \in AnyRow
  BY TypeParts DEF Tables
<1>1. ASSUME NEW q \in Requests, Writes(q, w)
      PROVE  /\ row'[w].state # "none"
             /\ row'[w].state = "failed" => /\ h[q].step = "failing" /\ h[q].worker = w
                                            /\ h[q].answer # "lost" /\ h'[q].step = "ending"
  <2>1. h[q].step \in Steps
    BY <1>1 DEF Writes, Steps
  <2>2. h[q].row \in RowIn(Standing)
    BY <2>1, BusyHandler
  <2> QED
    BY <1>1, <1>t, <2>2 DEF Writes, RowIn, AnyRow, Standing
<1>2. ASSUME Changes(w)
      PROVE  row'[w].state # "none" /\ (row'[w].state = "failed" => row[w].state = "failed" \/ w \in resolved')
  <2>0. \E Z : row \in [Workers -> Z]
    BY DEF TypeOK
  <2>2. CASE \E q \in Requests : Release(q, w)
    <3>1. Owned(w) /\ \E q : row'[w] = [row[w] EXCEPT !.op = q]
      BY <2>0, <2>2 DEF Release
    <3> QED
      BY <1>t, <3>1 DEF Owned, AnyRow, RowIn
  <2>3. CASE /\ sessionActive(w)
             /\ row'[w] \in {Observed(row[w]), [row[w] EXCEPT !.state = "offline"]}
    <3>1. row[w].state \notin Final \cup {"none"}
      BY <2>3 DEF sessionActive, Owned
    <3>2. Observed(row[w]).state \in {"live", "lost", row[w].state}
      BY <1>t DEF Observed, AnyRow, RowIn
    <3> QED
      BY <1>t, <2>3, <3>1, <3>2 DEF AnyRow, RowIn, Final
  <2>4. CASE w \in resolved' /\ row'[w] = [row[w] EXCEPT !.state = "failed"]
    BY <1>t, <2>4 DEF AnyRow, RowIn
  <2> QED
    BY <1>2, <2>2, <2>3, <2>4 DEF Changes
<1> QED
  BY <1>1, <1>2, RowStep

-----------------------------------------------------------------------------
(* Launches that failed.                                                   *)

\* No process was ever started under the name w, and no command will start one late.
NeverRan(w) == (\A b \in Agents : name[b] # w) /\ \A p \in Panes : <<w, p>> \notin late

Early == {"tab", "record", "route", "shell", "start"}
Launches == Early \cup {"confirm", "capture", "commit", "failing"}
LaunchOf(r, w) == h[r].step \in Launches /\ h[r].worker = w

\* One launch at a time creates a worker.
SoleLaunch ==
  \A w \in Workers : \A q, r \in Requests : LaunchOf(q, w) /\ LaunchOf(r, w) => q = r

\* Until its command, and after a command that was not run, a launch has started nothing.
LaunchSoFar(r) ==
  /\ h[r].step \in Early => NeverRan(h[r].worker)
  /\ h[r].step \in {"confirm", "failing"} /\ h[r].answer = "refused" => NeverRan(h[r].worker)
  /\ h[r].step = "failing" => h[r].answer \in {"lost", "refused"}
  /\ h[r].step \in {"shell", "start"} => row[h[r].worker].state # "none"
  /\ h[r].step \in Launches /\ row[h[r].worker].state = "failed" => h[r].worker \in resolved

\* Nor has one that failed.
FailedSoFar(w) ==
  row[w].state = "none" \/ (row[w].state = "failed" /\ w \notin resolved) => NeverRan(w)

LaunchInv ==
  /\ SoleLaunch
  /\ \A w \in Workers : FailedSoFar(w)
  /\ \A r \in Requests : LaunchSoFar(r)

\* A request that begins changes nothing outside the daemon, and no history.
LEMMA RequestQuiet ==
  ASSUME NEW r \in Requests, Request(r)
  PROVE  UNCHANGED <<pane, fg, name, alive, late, obs, moved, stale, overlapped, resolved>>
<1>1. PICK w \in Workers :
        \/ Spawn(r, w) \/ Release(r, w) \/ \E p \in Panes : SpawnInPane(r, w, p) \/ Adopt(r, w, p)
  BY DEF Request
<1>2. CASE Spawn(r, w) \/ Release(r, w)
  BY <1>2 DEF Spawn, Release, herdrVars, history
<1>3. ASSUME NEW p \in Panes, SpawnInPane(r, w, p) PROVE UNCHANGED <<herdrVars, obs, history>>
  BY <1>3 DEF SpawnInPane
<1>4. ASSUME NEW p \in Panes, Adopt(r, w, p) PROVE UNCHANGED <<herdrVars, obs, history>>
  BY <1>4 DEF Adopt
<1> QED
  BY <1>1, <1>2, <1>3, <1>4 DEF herdrVars, history

\* Nobody takes back what a person said of a launch, or that it was done meanwhile.
LEMMA HistoryGrows ==
  ASSUME [Next]_vars
  PROVE  resolved \subseteq resolved' /\ overlapped \subseteq overlapped'
<1>1. CASE Environment \/ Session \/ Crash \/ UNCHANGED vars
  BY <1>1 DEF Environment, OpenTab, StartByHand, ClosePane, ExitAgent, MovePane, StartLate, Outside,
     Session, Sample, observeWorker, Outage, Crash, vars, history
<1>2. ASSUME NEW q \in Requests,
             Request(q) \/ Launch(q) \/ Bind(q) \/ Cleanup(q) \/ End(q) \/ Resolution(q)
      PROVE  resolved \subseteq resolved' /\ overlapped \subseteq overlapped'
  <2>1. CASE Request(q)
    BY <2>1, RequestQuiet
  <2>2. CASE Launch(q)
    <3>1. CASE NewTab(q)
      BY <3>1 DEF NewTab
    <3>2. CASE ~NewTab(q)
      BY <2>2, <3>2 DEF Launch, Record, NoTab, Route, Put, waitShellReady, AgentStart, Confirm, Capture,
         Commit, launchFailure, history
    <3> QED
      BY <3>1, <3>2
  <2>3. CASE Bind(q)
    BY <2>3 DEF Bind, AdoptLook, AdoptCapture, AdoptCommit, Refuse, Unread, GiveUp, history
  <2>4. CASE Cleanup(q)
    BY <2>4 DEF Cleanup, Inspect, Recheck, Refuse, Unread, GiveUp, Close, Signal, Verify, Unsure, Seal,
       Retire, RetireCommit, history
  <2>5. CASE End(q) \/ Resolution(q)
    BY <2>5 DEF End, Resolution, ResolveLooks, Resolve, ResolveRejected, history
  <2> QED
    BY <1>2, <2>1, <2>2, <2>3, <2>4, <2>5
<1> QED
  BY <1>1, <1>2 DEF Next

\* Another agent begins under another name.
LEMMA OtherName ==
  ASSUME TypeOK, NEW w \in Workers, NeverRan(w), NEW n \in Names, n # w,
         name' = Append(name, n), late' \subseteq late
  PROVE  NeverRan(w)'
<1>1. name \in Seq(Names) /\ Agents = 1..Len(name)
  BY DEF TypeOK, Agents
<1>2. Agents' = 1..(Len(name) + 1) /\ \A b \in 1..(Len(name) + 1) : name'[b] \in {n} \cup {name[c] : c \in Agents}
  BY <1>1, AppendProperties DEF Agents
<1> QED
  BY <1>1, <1>2 DEF NeverRan

\* Only the command of a launch starts an agent of its name, unless it is refused.
LEMMA WhoRan ==
  ASSUME TypeOK, [Next]_vars, NEW w \in Workers, NeverRan(w),
         \A q \in Requests : h[q].step = "start" /\ h[q].worker = w
           => h'[q].step = "start" \/ (h'[q].step = "confirm" /\ h'[q].answer = "refused")
  PROVE  NeverRan(w)'
<1>1. CASE UNCHANGED <<name, late>>
  BY <1>1 DEF NeverRan, Agents
<1>2. CASE StartByHand
  <2>1. name' = Append(name, ByHand) /\ late' = late
    BY <1>2 DEF StartByHand, Starts
  <2>2. ByHand \in Names /\ ByHand # w
    BY NamesAssumption DEF Names
  <2> QED
    BY <2>1, <2>2, OtherName
<1>3. CASE StartLate
  <2>1. PICK l \in late : Starts(l[1], l[2]) /\ late' = late \ {l}
    BY <1>3 DEF StartLate
  <2>2. l = <<l[1], l[2]>> /\ l[1] \in Workers /\ l[2] \in Panes
    BY <2>1 DEF TypeOK, Starts, Startable
  <2>3. l[1] # w /\ l[1] \in Names
    BY <2>1, <2>2 DEF NeverRan, Names
  <2>4. name' = Append(name, l[1]) /\ late' \subseteq late
    BY <2>1 DEF Starts
  <2> QED
    BY <2>3, <2>4, OtherName
<1>4. ASSUME NEW q \in Requests, AgentStart(q) PROVE NeverRan(w)'
  <2>0. h[q].step = "start" /\ h[q].step \in Steps
    BY <1>4 DEF AgentStart, Steps
  <2>1. h[q].worker \in Names
    BY <2>0, BusyHandler DEF Names
  <2>2. CASE h[q].worker # w
    <3>1. CASE late' \subseteq late /\ name' = Append(name, h[q].worker)
      BY <2>1, <2>2, <3>1, OtherName
    <3>2. CASE name' = name /\ late' \subseteq late \cup {<<h[q].worker, h[q].row.pane>>}
      BY <2>2, <3>2 DEF NeverRan, Agents
    <3> QED
      BY <1>4, <3>1, <3>2 DEF AgentStart, Starts, herdrVars
  <2>3. CASE h[q].worker = w
    <3>1. PICK a \in {"ok", "lost", "refused"} :
            Answered(q, a, "confirm") /\ (a = "refused" => UNCHANGED <<name, late>>)
      BY <1>4 DEF AgentStart, herdrVars
    <3>2. h'[q].step = "confirm" /\ h'[q].answer = a
      BY <2>0, <3>1, AnswerAfter
    <3>3. a = "refused"
      BY <2>0, <2>3, <3>2
    <3> QED
      BY <3>1, <3>3 DEF NeverRan, Agents
  <2> QED
    BY <2>2, <2>3
<1>5. CASE Crash
  <2>1. \A q \in Requests : h'[q].step = "free"
    BY <1>5 DEF Crash, Free
  <2>2. \A q \in Requests : h[q].step = "start" => h[q].worker # w
    BY <2>1
  <2>3. name' = name
        /\ late' = late \cup {<<h[r].worker, h[r].row.pane>> : r \in {q \in Requests : h[q].step = "start"}}
    BY <1>5 DEF Crash
  <2> QED
    BY <2>2, <2>3 DEF NeverRan, Agents
<1>6. \/ UNCHANGED <<name, late>> \/ StartByHand \/ StartLate \/ Crash
      \/ \E q \in Requests : AgentStart(q)
  <2>0. ASSUME OpenTab \/ ClosePane \/ ExitAgent \/ MovePane PROVE UNCHANGED <<name, late>>
    BY <2>0 DEF OpenTab, ClosePane, ExitAgent, MovePane
  <2>1. CASE Environment \/ UNCHANGED vars
    BY <2>0, <2>1 DEF Environment, vars, herdrVars
  <2>2. CASE Session
    BY <2>2 DEF Session, Sample, observeWorker, Outage, herdrVars
  <2>3. ASSUME NEW q \in Requests,
               Request(q) \/ Launch(q) \/ Bind(q) \/ Cleanup(q) \/ End(q) \/ Resolution(q),
               ~AgentStart(q)
        PROVE  UNCHANGED <<name, late>>
    <3>1. CASE Request(q)
      BY <3>1, RequestQuiet
    <3>2. CASE Launch(q)
      <4>1. CASE NewTab(q)
        BY <4>1 DEF NewTab
      <4>2. CASE ~NewTab(q)
        BY <2>3, <3>2, <4>2 DEF Launch, Record, NoTab, Route, Put, waitShellReady, Confirm, Capture,
           Commit, launchFailure, herdrVars
      <4> QED
        BY <4>1, <4>2
    <3>3. CASE Bind(q)
      BY <3>3 DEF Bind, AdoptLook, AdoptCapture, AdoptCommit, Refuse, Unread, GiveUp, herdrVars
    <3>4. CASE Cleanup(q)
      BY <3>4 DEF Cleanup, Inspect, Recheck, Refuse, Unread, GiveUp, Close, Signal, Verify, Unsure, Seal,
         Retire, RetireCommit, herdrVars
    <3>5. CASE End(q) \/ Resolution(q)
      BY <3>5 DEF End, Resolution, ResolveLooks, Resolve, ResolveRejected, herdrVars
    <3> QED
      BY <2>3, <3>1, <3>2, <3>3, <3>4, <3>5
  <2> QED
    BY <2>1, <2>2, <2>3 DEF Next
<1> QED
  BY <1>1, <1>2, <1>3, <1>4, <1>5, <1>6

\* A launch that knows its pane writes the row before it goes on.
LEMMA RecordWrites ==
  ASSUME TypeOK, NEW r \in Requests, Launch(r), h[r].step \in {"record", "route"}
  PROVE  row'[h[r].worker] = h[r].row
<1>1. Record(r) \/ Route(r)
  <2>1. ~NewTab(r) /\ ~NoTab(r)
    BY Zenon DEF NewTab, NoTab
  <2>2. ~waitShellReady(r) /\ ~AgentStart(r)
    BY DEF waitShellReady, AgentStart
  <2>3. ~Confirm(r) /\ ~Capture(r) /\ ~Commit(r) /\ ~launchFailure(r)
    BY DEF Confirm, Capture, Commit, launchFailure
  <2> QED
    BY <2>1, <2>2, <2>3 DEF Launch
<1>2. h[r].worker \in Workers
  BY BusyHandler DEF Steps
<1> QED
  BY <1>1, <1>2 DEF Record, Route, Put, TypeOK

\* Where a launch was before: there, on its way there, or about to begin for nobody yet.
LEMMA LaunchBefore ==
  ASSUME TypeOK, [Next]_vars, NEW r \in Requests, h'[r].step \in Launches
  PROVE  \/ h'[r] = h[r]
         \/ /\ h[r].step \in Launches /\ LaunchTo(h[r], h'[r])
            /\ h'[r].step = "shell" => row'[h[r].worker].state # "none"
         \/ /\ h'[r].step = "record" /\ h'[r].worker \in Workers
            /\ FreshWorker(h'[r].worker) /\ UNCHANGED <<name, late, resolved>>
            /\ \A q \in Requests \ {r} : h'[q] = h[q]
<1>n. Free.step \notin Launches
  BY DEF Free, Launches, Early
<1>1. CASE h'[r] = h[r]
  BY <1>1
<1>2. CASE h'[r] # h[r]
  <2>1. PICK q \in Requests :
          Request(q) \/ Launch(q) \/ Bind(q) \/ Cleanup(q) \/ End(q) \/ Resolution(q)
    BY <1>n, <1>2, HandlersStay DEF Next, Crash
  <2>2. q = r
    BY <1>2, <2>1, OthersStay
  <2>3. CASE Request(r)
    <3>1. /\ h'[r].worker \in Workers
          /\ h'[r].step = "record" /\ FreshWorker(h'[r].worker)
      BY <2>3, Begins DEF Launches, Early
    <3>2. \A p \in Requests \ {r} : h'[p] = h[p]
      BY <2>3, OthersStay
    <3> QED
      BY <2>3, <3>1, <3>2, RequestQuiet
  <2>4. CASE Launch(r)
    <3>1. LaunchTo(h[r], h'[r])
      BY <1>n, <2>4, LaunchGoes
    <3>2. h[r].step \in Launches /\ h[r].step \in Steps
      BY <3>1 DEF LaunchTo, Launches, Early, Steps
    <3>3. ASSUME h'[r].step = "shell" PROVE row'[h[r].worker].state # "none"
      <4>1. h[r].step \in {"record", "route"}
        BY <3>1, <3>3 DEF LaunchTo
      <4>2. h[r].row \in RowIn(Standing)
        BY <3>2, BusyHandler
      <4>3. row'[h[r].worker] = h[r].row
        BY <2>4, <4>1, RecordWrites
      <4> QED
        BY <4>2, <4>3 DEF RowIn, Standing
    <3> QED
      BY <3>1, <3>2, <3>3
  <2>5. ~Bind(r)
    BY <1>n, BindGoes DEF Launches, Early
  <2>6. ~Cleanup(r)
    BY <1>n, CleanupSteps DEF Launches, Early
  <2>7. ~End(r) /\ ~Resolution(r)
    <3>1. \E Z : h \in [Requests -> Z]
      BY DEF TypeOK
    <3> QED
      BY <1>n, <1>2, <3>1 DEF End, Resolution, ResolveLooks, Resolve, ResolveRejected
  <2> QED
    BY <2>1, <2>2, <2>3, <2>4, <2>5, <2>6, <2>7
<1> QED
  BY <1>1, <1>2

\* Nothing begins for a worker that a launch creates.
LEMMA NextSole ==
  ASSUME TypeOK, SoleLaunch, [Next]_vars
  PROVE  SoleLaunch'
<1>1. SUFFICES ASSUME NEW w \in Workers, NEW q \in Requests, NEW r \in Requests,
                      LaunchOf(q, w)', LaunchOf(r, w)'
               PROVE  q = r
  BY DEF SoleLaunch
<1>2. ASSUME NEW x \in Requests, LaunchOf(x, w)'
      PROVE  \/ LaunchOf(x, w)
             \/ FreshWorker(w) /\ \A y \in Requests \ {x} : h'[y] = h[y]
  BY <1>2, LaunchBefore DEF LaunchOf, LaunchTo
<1>3. \A x, y \in Requests : FreshWorker(w) /\ h'[y] = h[y] => ~LaunchOf(y, w)'
  BY DEF FreshWorker, LaunchOf
<1>4. CASE LaunchOf(q, w) /\ LaunchOf(r, w)
  BY <1>4 DEF SoleLaunch
<1>5. CASE ~LaunchOf(q, w) \/ ~LaunchOf(r, w)
  BY <1>1, <1>2, <1>3, <1>5
<1> QED
  BY <1>4, <1>5

\* Who has started nothing goes on so, up to its own command.
LEMMA KeepsFromRunning ==
  ASSUME TypeOK, SoleLaunch, [Next]_vars, NEW r \in Requests, NEW w \in Workers, LaunchOf(r, w),
         NeverRan(w), h[r].step = "start" => h'[r].step = "start" \/ (h'[r].step = "confirm" /\ h'[r].answer = "refused")
  PROVE  NeverRan(w)'
<1>1. \A q \in Requests : h[q].step = "start" /\ h[q].worker = w => q = r
  BY DEF SoleLaunch, LaunchOf, Launches, Early
<1> QED
  BY <1>1, WhoRan

\* What is said of each launch.
LEMMA NextLaunchSoFar ==
  ASSUME TypeOK, LaunchInv, [Next]_vars, NEW r \in Requests
  PROVE  LaunchSoFar(r)'
<1>1. SUFFICES ASSUME h'[r].step \in Launches PROVE LaunchSoFar(r)'
  BY DEF LaunchSoFar, Launches, Early
<1>h. h'[r].worker \in Workers
  BY <1>1, LaunchBefore, BusyHandler DEF LaunchTo, Launches, Early, Steps
<1>w. PICK w \in Workers : h'[r].worker = w
  BY <1>h
<1>i. SoleLaunch /\ LaunchSoFar(r)
  BY DEF LaunchInv
<1>2. CASE /\ h'[r].step = "record" /\ FreshWorker(w)
           /\ UNCHANGED <<name, late, resolved>>
           /\ \A q \in Requests \ {r} : h'[q] = h[q]
  <2>1. row[w].state = "none" /\ \A q \in Requests : h[q].worker # w
    BY <1>2 DEF FreshWorker, NoRow
  <2>2. NeverRan(w)'
    BY <1>2, <2>1 DEF LaunchInv, FailedSoFar, NeverRan, Agents
  <2>3. row'[w].state = "failed" => w \in resolved'
    BY <1>2, <2>1, StateStep
  <2> QED
    BY <1>2, <1>w, <2>2, <2>3 DEF LaunchSoFar
<1>3. CASE h'[r] = h[r] \/ (/\ h[r].step \in Launches /\ LaunchTo(h[r], h'[r])
                            /\ h'[r].step = "shell" => row'[h[r].worker].state # "none")
  <2>1. w = h[r].worker /\ h[r].step \in Launches /\ h[r].step \in Steps
    BY <1>1, <1>3, <1>w DEF LaunchTo, Launches, Early, Steps
  <2>2. w \in Workers /\ LaunchOf(r, w)
    BY <2>1, BusyHandler DEF LaunchOf
  <2>3. ASSUME h'[r].step \in Early PROVE NeverRan(w)'
    <3>1. NeverRan(w) /\ (h[r].step = "start" => h'[r].step = "start")
      BY <1>i, <1>3, <2>1, <2>3 DEF LaunchSoFar, LaunchTo, Early
    <3> QED
      BY <1>i, <2>2, <3>1, KeepsFromRunning
  <2>4. ASSUME h'[r].step \in {"confirm", "failing"}, h'[r].answer = "refused" PROVE NeverRan(w)'
    <3>1. NeverRan(w) /\ (h[r].step = "start" => h'[r].step = "confirm")
      BY <1>i, <1>3, <2>1, <2>4 DEF LaunchSoFar, LaunchTo, Early
    <3> QED
      BY <1>i, <2>2, <2>4, <3>1, KeepsFromRunning
  <2>5. h'[r].step = "failing" => h'[r].answer \in {"lost", "refused"}
    BY <1>i, <1>3 DEF LaunchSoFar, LaunchTo
  <2>6. ASSUME h'[r].step \in {"shell", "start"} PROVE row'[w].state # "none"
    <3>1. h'[r].step = "start" => row[w].state # "none"
      BY <1>i, <1>3, <2>1, <2>6 DEF LaunchSoFar, LaunchTo
    <3>2. h'[r].step = "shell" => row'[w].state # "none"
      <4>1. h'[r] = h[r] /\ h'[r].step = "shell" => row[w].state # "none"
        BY <1>i, <2>1 DEF LaunchSoFar
      <4> QED
        BY <1>3, <2>1, <2>2, <4>1, StateStep
    <3> QED
      BY <2>2, <2>6, <3>1, <3>2, StateStep
  <2>7. ASSUME row'[w].state = "failed" PROVE w \in resolved'
    <3>1. row[w].state = "failed" => w \in resolved
      BY <1>i, <2>1 DEF LaunchSoFar
    <3>2. ~\E q \in Requests : /\ h[q].step = "failing" /\ h[q].worker = w
                               /\ h'[q].step = "ending"
      <4>1. \A q \in Requests : h[q].step = "failing" /\ h[q].worker = w => q = r
        BY <1>i, <2>2 DEF SoleLaunch, LaunchOf, Launches
      <4> QED
        BY <1>1, <4>1 DEF Launches, Early
    <3>3. resolved \subseteq resolved'
      BY HistoryGrows
    <3> QED
      BY <2>2, <2>7, <3>1, <3>2, <3>3, StateStep
  <2> QED
    BY <1>1, <1>w, <2>3, <2>4, <2>5, <2>6, <2>7 DEF LaunchSoFar
<1> QED
  BY <1>1, <1>2, <1>3, <1>w, LaunchBefore

\* What is said of each row.
LEMMA NextFailedSoFar ==
  ASSUME TypeOK, LaunchInv, [Next]_vars, NEW w \in Workers
  PROVE  FailedSoFar(w)'
<1>1. SUFFICES ASSUME row'[w].state = "none" \/ (row'[w].state = "failed" /\ w \notin resolved')
               PROVE  NeverRan(w)'
  BY DEF FailedSoFar
<1>2. CASE row[w].state = "none" \/ (row[w].state = "failed" /\ w \notin resolved)
  <2>1. NeverRan(w)
    BY <1>2 DEF LaunchInv, FailedSoFar
  <2>2. \A q \in Requests : ~(h[q].step = "start" /\ h[q].worker = w)
    BY <1>2 DEF LaunchInv, LaunchSoFar, Launches, Early
  <2> QED
    BY <2>1, <2>2, WhoRan
<1>3. CASE \E q \in Requests : /\ h[q].step = "failing" /\ h[q].worker = w
                               /\ h[q].answer # "lost" /\ h'[q].step = "ending"
  <2>1. PICK q \in Requests : h[q].step = "failing" /\ h[q].worker = w /\ h[q].answer # "lost"
    BY <1>3
  <2>2. NeverRan(w) /\ LaunchOf(q, w) /\ SoleLaunch
    BY <2>1 DEF LaunchInv, LaunchSoFar, LaunchOf, Launches
  <2> QED
    BY <2>1, <2>2, KeepsFromRunning
<1> QED
  BY <1>1, <1>2, <1>3, StateStep, HistoryGrows

\* The invariant of launches, and that a launch on record as failed never started an agent
\* and never will, unless a person said that it failed.
LEMMA NextLaunch == TypeOK /\ LaunchInv /\ [Next]_vars => LaunchInv'
  BY NextSole, NextLaunchSoFar, NextFailedSoFar DEF LaunchInv

LEMMA InitLaunch == Init => LaunchInv
<1> SUFFICES ASSUME Init PROVE LaunchInv
  OBVIOUS
<1>1. late = {} /\ op = [r \in Requests |-> NoOp] /\ h = [r \in Requests |-> Free]
      /\ lane = [w \in Workers |-> None] /\ obs = NoSample
      /\ moved = {} /\ stale = {} /\ overlapped = {} /\ resolved = {}
  BY DEF Init
<1>2. \A r \in Requests : h[r].step = "free"
  BY <1>1 DEF Free
<1>3. SoleLaunch /\ \A r \in Requests : LaunchSoFar(r)
  BY <1>2 DEF SoleLaunch, LaunchSoFar, LaunchOf, Launches, Early
<1>4. ASSUME NEW w \in Workers PROVE FailedSoFar(w)
  <2>1. CASE /\ pane = [p \in Panes |-> 0] /\ fg = <<>> /\ name = <<>> /\ alive = {}
             /\ row = [x \in Workers |-> NoRow]
    BY <1>1, <2>1 DEF FailedSoFar, NeverRan, Agents
  <2>2. ASSUME NEW v \in Workers, NEW p \in Panes,
               pane = [q \in Panes |-> IF q = p THEN 1 ELSE 0],
               fg = << 1 >>, name = << v >>, alive = {1},
               row = [x \in Workers |-> IF x # v THEN NoRow
                                        ELSE [Established EXCEPT !.pane = p, !.name = v]]
        PROVE  FailedSoFar(w)
    <3>1. row[v].state = "live"
      BY <2>2 DEF Established, NoRow
    <3>2. w # v => NeverRan(w)
      BY <1>1, <2>2 DEF NeverRan, Agents
    <3> QED
      BY <3>1, <3>2 DEF FailedSoFar
  <2>3. \/ /\ pane = [p \in Panes |-> 0] /\ fg = <<>> /\ name = <<>> /\ alive = {}
           /\ row = [x \in Workers |-> NoRow]
        \/ \E v \in Workers, p \in Panes :
             /\ pane = [q \in Panes |-> IF q = p THEN 1 ELSE 0]
             /\ fg = << 1 >> /\ name = << v >> /\ alive = {1}
             /\ row = [x \in Workers |-> IF x # v THEN NoRow
                                         ELSE [Established EXCEPT !.pane = p, !.name = v]]
    BY DEF Init
  <2> QED
    BY <2>1, <2>2, <2>3
<1> QED
  BY <1>3, <1>4 DEF LaunchInv

THEOREM FailedLaunchesNeverRan == Spec => []FailedNeverRan
<1>1. LaunchInv => FailedNeverRan
  BY DEF LaunchInv, FailedSoFar, NeverRan, FailedNeverRan
<1>2. TypeOK /\ LaunchInv /\ [Next]_vars => (TypeOK /\ LaunchInv)'
  BY NextType, NextLaunch
<1> QED
  BY <1>1, <1>2, InitType, InitLaunch, PTL DEF Spec

-----------------------------------------------------------------------------
(* What is over.  A launch leaves the row of its worker without a process  *)
(* and not over, a release that has found a process holds the lane of its  *)
(* worker, and so does an adoption unless nobody knows its worker.         *)

Checked == {"recheck", "close", "signal", "verify", "unsure", "seal", "retired"}
Releases == Checked \cup {"inspect", "retire"}
Adoptions == {"look", "take", "bind"}

\* A handler writes its own request into the row; only the capture of a launch finds a process;
\* and what a release has checked has one.
OwnRow(r) ==
  /\ h[r].step # "free" => h[r].row.op = r
  /\ h[r].step \in Early \cup {"confirm", "capture"} => h[r].row.proc = 0
  /\ h[r].step \in Checked => h[r].row.proc # 0

\* While it is launched a worker has no process on record and is not over.
Apart(q, w) ==
  LaunchOf(q, w) /\ w \notin overlapped => row[w].proc = 0 /\ row[w].state \notin Final

\* A release of a process keeps others from its worker.
InLane(r) ==
  LET w == h[r].worker
  IN  h[r].step \in Releases /\ h[r].row.proc # 0 /\ w \notin overlapped
        => /\ lane[w] = r /\ Owned(w)
           /\ row[w].proc = h[r].row.proc /\ row[w].name = h[r].row.name

\* So does an adoption, but for a new worker.
AdoptLane(r) ==
  LET w == h[r].worker
  IN  h[r].step \in Adoptions
        => lane[w] = r \/ (row[w] = NoRow /\ \A q \in Requests \ {r} : h[q].worker # w)

OverInv ==
  /\ \A r \in Requests : OwnRow(r) /\ InLane(r) /\ AdoptLane(r)
  /\ \A q \in Requests, w \in Workers : Apart(q, w)

\* Two rows of the same process, by the same name, in the same terminal and pane.
SameEvidence(a, b) == a.proc = b.proc /\ a.name = b.name /\ a.term = b.term /\ a.pane = b.pane

\* What a request begins with.
Spawned(r, w) ==
  /\ FreshWorker(w) /\ h'[r].step = "record"
  /\ LET l == h'[r].row
     IN  l.proc = 0 /\ l.name = w /\ (l.term = 0 \/ (l.pane \in Panes /\ pane[l.pane] = l.term))
Adopted(r, w) ==
  /\ h'[r].step = "look" /\ UNCHANGED row /\ h'[r].row.term = 0 /\ h'[r].row.proc = 0
  /\ FreshWorker(w) \/ (row[w] # NoRow /\ lane'[w] = r)
Claimed(r, w) ==
  /\ h'[r].step = "inspect" /\ Owned(w) /\ Owned(w)' /\ lane'[w] = r
  /\ h'[r].row = row'[w] /\ SameEvidence(row'[w], row[w])

LEMMA Beginnings ==
  ASSUME TypeOK, NEW r \in Requests, Request(r)
  PROVE  \E w \in Workers : /\ h'[r].worker = w /\ h'[r].row.op = r
                            /\ Spawned(r, w) \/ Adopted(r, w) \/ Claimed(r, w)
<1>t. /\ \E Z : h \in [Requests -> Z]
      /\ \E Z : row \in [Workers -> Z]
      /\ \E Z : lane \in [Workers -> Z]
  BY DEF TypeOK
<1>b. ASSUME NEW kind, NEW w, NEW l, NEW s, Begin(r, kind, w, l, s)
      PROVE  h'[r].worker = w /\ h'[r].step = s /\ h'[r].row = l
  BY <1>t, <1>b DEF Begin
<1>1. PICK w \in Workers :
        \/ Spawn(r, w) \/ Release(r, w) \/ \E p \in Panes : SpawnInPane(r, w, p) \/ Adopt(r, w, p)
  BY DEF Request
<1>2. CASE Spawn(r, w)
  <2> DEFINE l == [NoRow EXCEPT !.state = "starting", !.name = w, !.attach = r, !.op = r]
  <2>1. FreshWorker(w) /\ Begin(r, "spawn", w, l, "record")
    BY <1>2 DEF Spawn
  <2>2. l.op = r /\ l.proc = 0 /\ l.name = w /\ l.term = 0
    BY DEF NoRow
  <2> HIDE DEF l
  <2>3. h'[r].worker = w /\ h'[r].step = "record" /\ h'[r].row = l
    BY <2>1, <1>b
  <2> QED
    BY <2>1, <2>2, <2>3 DEF Spawned
<1>3. CASE Release(r, w)
  <2> DEFINE l == [row[w] EXCEPT !.op = r]
  <2>1. /\ Owned(w) /\ Begin(r, "release", w, l, "inspect")
        /\ row' = [row EXCEPT ![w].op = r] /\ lane' = [lane EXCEPT ![w] = r]
    BY <1>3 DEF Release
  <2>2. row[w] \in AnyRow
    BY TypeParts DEF Tables
  <2>3. /\ l.op = r /\ l.state = row[w].state /\ SameEvidence(l, row[w])
        /\ row'[w] = l /\ lane'[w] = r
    BY <1>t, <2>1, <2>2 DEF AnyRow, RowIn, SameEvidence
  <2>4. h'[r].worker = w /\ h'[r].step = "inspect" /\ h'[r].row = l
    BY <2>1, <1>b
  <2> HIDE DEF l
  <2> QED
    BY <2>1, <2>3, <2>4 DEF Claimed, Owned
<1>4. ASSUME NEW p \in Panes, SpawnInPane(r, w, p)
      PROVE  h'[r].worker = w /\ h'[r].row.op = r /\ Spawned(r, w)
  <2> DEFINE l == [NoRow EXCEPT !.state = "starting", !.name = w, !.attach = r, !.op = r,
                                !.pane = p, !.term = pane[p]]
  <2>1. FreshWorker(w) /\ Begin(r, "spawn", w, l, "record")
    BY <1>4 DEF SpawnInPane
  <2>2. l.op = r /\ l.proc = 0 /\ l.name = w /\ l.pane = p /\ l.term = pane[p]
    BY DEF NoRow
  <2> HIDE DEF l
  <2>3. h'[r].worker = w /\ h'[r].step = "record" /\ h'[r].row = l
    BY <2>1, <1>b
  <2> QED
    BY <2>1, <2>2, <2>3 DEF Spawned
<1>5. ASSUME NEW p \in Panes, Adopt(r, w, p)
      PROVE  h'[r].worker = w /\ h'[r].row.op = r /\ Adopted(r, w)
  <2> DEFINE l == [NoRow EXCEPT !.state = "live", !.pane = p, !.attach = r, !.op = r]
  <2>1. /\ Begin(r, "adopt", w, l, "look") /\ row' = row
        /\ \/ FreshWorker(w)
           \/ row[w] # NoRow /\ lane' = [lane EXCEPT ![w] = r]
    BY <1>5 DEF Adopt
  <2>2. l.op = r /\ l.proc = 0 /\ l.term = 0
    BY DEF NoRow
  <2> HIDE DEF l
  <2>3. h'[r].worker = w /\ h'[r].step = "look" /\ h'[r].row = l
    BY <2>1, <1>b
  <2> QED
    BY <1>t, <2>1, <2>2, <2>3 DEF Adopted
<1> QED
  BY <1>1, <1>2, <1>3, <1>4, <1>5

\* How a handler goes on, from x to y.
Keeps(x, y) ==
  /\ x.step \in Steps /\ y.worker = x.worker
  /\ y.step \in Launches => LaunchTo(x, y)
  /\ y.step \in Releases => x.step \in Releases
  /\ y.step \in Checked => x.step \in Checked \/ x.row.proc # 0
  /\ y.step \in Adoptions => x.step \in Adoptions

\* What it knows of the worker's pane, its terminal and its process.
RowTo(r) ==
  LET l == h[r].row
  IN  \/ h'[r].row = l
      \/ /\ h[r].step = "tab"
         /\ \E p \in Panes : /\ pane'[p] = Len(fg) + 1
                             /\ h'[r].row = [l EXCEPT !.pane = p, !.term = Len(fg) + 1]
      \/ h[r].step \in {"capture", "take"} /\ h'[r].row = Captured(l)
      \/ /\ h[r].step = "look" /\ h'[r].step = "take" /\ l.pane \in Panes
         /\ \E n : h'[r].row = [l EXCEPT !.term = pane[l.pane], !.name = n]

\* A launch writes what it knows before it waits for the shell.
Goes(r) ==
  /\ Keeps(h[r], h'[r]) /\ RowTo(r)
  /\ h[r].step \in {"record", "route"} => row'[h[r].worker] = h[r].row

\* A handler keeps its worker and its row.
LEMMA RowKept ==
  ASSUME TypeOK, NEW r \in Requests, h[r].step \in Steps,
         (\E s : Go(r, s)) \/ \E s, a : Answered(r, a, s)
  PROVE  h'[r].worker = h[r].worker /\ h'[r].row = h[r].row
  BY FieldsAfter, AnswerAfter

LEMMA RowReplaced ==
  ASSUME TypeOK, NEW r \in Requests, h[r].step \in Steps, NEW s, NEW l, NEW a,
         \/ h' = [h EXCEPT ![r].step = s, ![r].row = l]
         \/ h' = [h EXCEPT ![r].step = s, ![r].row = l, ![r].answer = a]
  PROVE  h'[r].worker = h[r].worker /\ h'[r].row = l
<1>1. (\E Z : h \in [Requests -> Z]) /\ h[r] \in Handler
  BY BusyHandler DEF TypeOK
<1>2. CASE h' = [h EXCEPT ![r].step = s, ![r].row = l]
  BY <1>1, <1>2 DEF Handler
<1>3. CASE h' = [h EXCEPT ![r].step = s, ![r].row = l, ![r].answer = a]
  BY <1>1, <1>3 DEF Handler
<1> QED
  BY <1>2, <1>3

\* What a handler learns about a row is one thing at a time.
LEMMA RowFields ==
  ASSUME TypeOK, NEW r \in Requests, h[r].step \in Steps, RowTo(r), NEW l, l = h[r].row,
         NEW m, m = h'[r].row
  PROVE  /\ m.op = l.op
         /\ h[r].step \notin {"capture", "take"} => m.proc = l.proc
         /\ h[r].step # "look" => m.name = l.name
         /\ h[r].step \notin {"tab", "look"} => m.term = l.term /\ m.pane = l.pane
         /\ h[r].step \notin {"tab", "look", "capture", "take"} => m = l
<1>1. l \in RowIn(Standing)
  BY BusyHandler
<1>2. CASE m = l
  BY <1>2
<1>3. CASE h[r].step = "tab"
  <2>1. m = l \/ \E p : m = [l EXCEPT !.pane = p, !.term = Len(fg) + 1]
    BY <1>3 DEF RowTo
  <2> QED
    BY <1>1, <1>3, <2>1 DEF RowIn
<1>4. CASE h[r].step \in {"capture", "take"}
  <2>1. m = l \/ m = Captured(l)
    BY <1>4 DEF RowTo
  <2> QED
    BY <1>1, <1>4, <2>1 DEF RowIn, Captured
<1>5. CASE h[r].step = "look"
  <2>1. m = l \/ \E t, n : m = [l EXCEPT !.term = t, !.name = n]
    BY <1>5 DEF RowTo
  <2> QED
    BY <1>1, <1>5, <2>1 DEF RowIn
<1> QED
  BY <1>2, <1>3, <1>4, <1>5 DEF RowTo

LEMMA LaunchKeeps ==
  ASSUME TypeOK, NEW r \in Requests, Launch(r)
  PROVE  h'[r] = Free \/ Goes(r)
<1>1. CASE h'[r] = Free
  BY <1>1
<1>2. CASE h'[r] # Free
  <2>1. LaunchTo(h[r], h'[r])
    BY <1>2, LaunchGoes
  <2>2. h[r].step \in Steps /\ h'[r].step \notin Releases \cup Adoptions
    BY <2>1 DEF LaunchTo, Steps, Releases, Checked, Adoptions
  <2>3. RowTo(r)
    <3>1. CASE NewTab(r)
      <4>1. PICK p \in Panes :
              /\ h[r].step = "tab" /\ Opens(p)
              /\ \/ h' = [h EXCEPT ![r].step = "route",
                                   ![r].row = [h[r].row EXCEPT !.pane = p, !.term = Len(fg) + 1]]
                 \/ Answered(r, "lost", "failing")
        BY <3>1 DEF NewTab
      <4>2. pane'[p] = Len(fg) + 1
        BY <4>1 DEF Opens, TypeOK
      <4>3. PICK l : l = [h[r].row EXCEPT !.pane = p, !.term = Len(fg) + 1]
        OBVIOUS
      <4>4. CASE h' = [h EXCEPT ![r].step = "route", ![r].row = l]
        <5>1. h'[r].row = l
          BY <2>2, <4>4, RowReplaced
        <5> QED
          BY <4>1, <4>2, <4>3, <5>1 DEF RowTo
      <4>5. CASE Answered(r, "lost", "failing")
        BY <2>2, <4>5, RowKept DEF RowTo
      <4> QED
        BY <4>1, <4>3, <4>4, <4>5
    <3>2. CASE Capture(r)
      <4>1. PICK l : l = Captured(h[r].row)
        OBVIOUS
      <4>2. /\ h[r].step = "capture"
            /\ \/ h' = [h EXCEPT ![r].step = "commit", ![r].row = l]
               \/ h' = [h EXCEPT ![r].step = "failing", ![r].row = l, ![r].answer = "lost"]
               \/ Answered(r, "lost", "failing")
        BY <3>2, <4>1 DEF Capture
      <4>3. CASE \/ h' = [h EXCEPT ![r].step = "commit", ![r].row = l]
                 \/ h' = [h EXCEPT ![r].step = "failing", ![r].row = l, ![r].answer = "lost"]
        <5>1. h'[r].row = l
          <6>1. CASE h' = [h EXCEPT ![r].step = "commit", ![r].row = l]
            BY <2>2, <6>1, RowReplaced
          <6>2. CASE h' = [h EXCEPT ![r].step = "failing", ![r].row = l, ![r].answer = "lost"]
            BY <2>2, <6>2, RowReplaced
          <6> QED
            BY <4>3, <6>1, <6>2
        <5> QED
          BY <4>1, <4>2, <5>1 DEF RowTo
      <4>4. CASE Answered(r, "lost", "failing")
        BY <2>2, <4>4, RowKept DEF RowTo
      <4> QED
        BY <4>2, <4>3, <4>4
    <3>3. CASE ~NewTab(r) /\ ~Capture(r)
      <4>1. (\E s : Go(r, s)) \/ (\E s, a : Answered(r, a, s)) \/ h' = [h EXCEPT ![r] = Free]
        BY <3>3 DEF Launch, Record, Route, Put, NoTab, waitShellReady, AgentStart, Confirm, Unconfirmed,
           Commit, Completes, launchFailure
      <4>2. ~(h' = [h EXCEPT ![r] = Free])
        BY <1>2, <2>2, FieldsAfter
      <4> QED
        BY <2>2, <4>1, <4>2, RowKept DEF RowTo
    <3> QED
      BY <3>1, <3>2, <3>3
  <2>4. ASSUME h[r].step \in {"record", "route"} PROVE row'[h[r].worker] = h[r].row
    BY <2>2, <2>4, RecordWrites
  <2>5. h'[r].worker = h[r].worker
    BY <2>1 DEF LaunchTo
  <2>6. Keeps(h[r], h'[r])
    BY <2>1, <2>2, <2>5 DEF Keeps, Releases
  <2> QED
    BY <2>3, <2>4, <2>6 DEF Goes
<1> QED
  BY <1>1, <1>2

LEMMA BindKeeps ==
  ASSUME TypeOK, NEW r \in Requests, Bind(r)
  PROVE  h'[r] = Free \/ Goes(r)
<1>s. h[r].step \in Adoptions /\ h[r].step \in Steps /\ h[r].row \in RowIn(Standing)
  <2>1. h[r].step \in Adoptions /\ h[r].step \in Steps
    BY DEF Bind, AdoptLook, AdoptCapture, AdoptCommit, Steps, Adoptions
  <2> QED
    BY <2>1, BusyHandler
<1>1. CASE h'[r] = Free
  BY <1>1
<1>2. CASE h'[r] # Free
  <2>1. h'[r].step \in {"take", "bind"}
    BY <1>2, BindGoes
  <2>2. ~(h' = [h EXCEPT ![r] = Free])
    BY <1>2, <1>s, FieldsAfter
  <2>3. h'[r].worker = h[r].worker /\ RowTo(r)
    <3>1. CASE AdoptLook(r)
      <4>0. PICK p : p = h[r].row.pane
        OBVIOUS
      <4>1. PICK n : /\ h[r].step = "look" /\ HasAgent(p)
                     /\ h' = [h EXCEPT ![r].step = "take",
                                       ![r].row = [h[r].row EXCEPT !.term = pane[p], !.name = n]]
        BY <2>2, <3>1, <4>0 DEF AdoptLook, Refuse, Unread, GiveUp
      <4>2. PICK l : l = [h[r].row EXCEPT !.term = pane[p], !.name = n]
        OBVIOUS
      <4>3. p \in Panes
        BY <1>s, <4>0, <4>1 DEF RowIn, HasAgent
      <4>4. h' = [h EXCEPT ![r].step = "take", ![r].row = l]
        BY <4>1, <4>2, Zenon
      <4>5. h'[r].worker = h[r].worker /\ h'[r].row = l
        BY <1>s, <4>4, RowReplaced
      <4>6. h'[r].step = "take"
        BY <1>s, <4>4, FieldsAfter
      <4> QED
        BY <4>0, <4>1, <4>2, <4>3, <4>5, <4>6 DEF RowTo
    <3>2. CASE AdoptCapture(r)
      <4>1. PICK l : l = Captured(h[r].row)
        OBVIOUS
      <4>2. h' = [h EXCEPT ![r].step = "bind", ![r].row = l] /\ h[r].step = "take"
        BY <2>2, <3>2, <4>1 DEF AdoptCapture, Refuse, GiveUp
      <4>3. h'[r].worker = h[r].worker /\ h'[r].row = l
        BY <1>s, <4>2, RowReplaced
      <4> QED
        BY <4>1, <4>2, <4>3 DEF RowTo
    <3>3. ~AdoptCommit(r)
      BY <2>2 DEF AdoptCommit, Completes, Refuse, GiveUp
    <3> QED
      BY <3>1, <3>2, <3>3 DEF Bind
  <2>4. h'[r].step \notin Launches \cup Releases
    BY <2>1 DEF Launches, Early, Releases, Checked
  <2>5. h[r].step \notin {"record", "route"}
    BY <1>s DEF Adoptions
  <2>6. Keeps(h[r], h'[r])
    BY <1>s, <2>3, <2>4 DEF Keeps, Releases
  <2> QED
    BY <2>3, <2>5, <2>6 DEF Goes
<1> QED
  BY <1>1, <1>2

LEMMA CleanupKeeps ==
  ASSUME TypeOK, NEW r \in Requests, Cleanup(r)
  PROVE  h'[r] = Free \/ Goes(r)
<1>s. h[r].step \in Releases /\ h[r].step \in Steps
  BY CleanupBusy DEF Releases, Checked
<1>1. CASE h'[r] = Free
  BY <1>1
<1>2. CASE h'[r] # Free
  <2>1. h'[r].step \notin Launches \cup Adoptions
    BY <1>2, CleanupSteps DEF Launches, Early, Adoptions
  <2>2. ~(h' = [h EXCEPT ![r] = Free])
    BY <1>2, <1>s, FieldsAfter
  <2>3. (\E s : Go(r, s)) \/ (\E s, a : Answered(r, a, s))
    BY <2>2 DEF Cleanup, Inspect, Recheck, Close, Signal, Verify, Unsure, Seal, Retire,
       RetireCommit, Completes, Refuse, Unread, GiveUp
  <2>4. h'[r].worker = h[r].worker /\ RowTo(r)
    BY <1>s, <2>3, RowKept DEF RowTo
  <2>5. h'[r].step \in Checked => h[r].step \in Checked \/ h[r].row.proc # 0
    <3>1. CASE h[r].step \in Checked
      BY <3>1
    <3>2. CASE Inspect(r)
      <4>1. PICK s : /\ Go(r, s) /\ s \in {"recheck", "retire"}
                     /\ s = "recheck" => verifyAttachment(h[r].row, h[r].row.pane)
        BY <2>2, <3>2 DEF Inspect, Refuse, Unread, GiveUp
      <4>2. h'[r].step = s
        BY <1>s, <4>1, FieldsAfter
      <4> QED
        BY <4>1, <4>2 DEF verifyAttachment, Checked
    <3>3. CASE Retire(r)
      BY <2>2, <3>3 DEF Retire, Refuse, Unread, GiveUp, Absent
    <3>4. h[r].step \in Checked \/ Inspect(r) \/ Retire(r)
      BY DEF Cleanup, Recheck, Close, Signal, Verify, Unsure, Seal, RetireCommit, Checked
    <3> QED
      BY <3>1, <3>2, <3>3, <3>4
  <2>6. h[r].step \notin {"record", "route"}
    BY <1>s DEF Releases, Checked
  <2>7. Keeps(h[r], h'[r])
    BY <1>s, <2>1, <2>4, <2>5 DEF Keeps
  <2> QED
    BY <2>4, <2>6, <2>7 DEF Goes
<1> QED
  BY <1>1, <1>2

\* Where a handler was before.
LEMMA HandlerBefore ==
  ASSUME TypeOK, [Next]_vars, NEW r \in Requests
  PROVE  \/ h'[r] = h[r] \/ h'[r].step = "free" \/ Goes(r)
         \/ Request(r) /\ \A q \in Requests \ {r} : h'[q] = h[q]
<1>n. Free.step = "free"
  BY DEF Free
<1>1. CASE h'[r] = h[r]
  BY <1>1
<1>2. CASE Crash
  BY <1>n, <1>2 DEF Crash
<1>3. CASE h'[r] # h[r] /\ ~Crash
  <2>1. PICK q \in Requests :
          Request(q) \/ Launch(q) \/ Bind(q) \/ Cleanup(q) \/ End(q) \/ Resolution(q)
    BY <1>3, HandlersStay DEF Next
  <2>2. q = r
    BY <1>3, <2>1, OthersStay
  <2>3. CASE Request(r)
    BY <2>3, OthersStay
  <2>4. CASE Launch(r) \/ Bind(r) \/ Cleanup(r)
    BY <1>n, <2>4, LaunchKeeps, BindKeeps, CleanupKeeps
  <2>5. CASE End(r) \/ Resolution(r)
    <3>1. \E Z : h \in [Requests -> Z]
      BY DEF TypeOK
    <3> QED
      BY <1>n, <1>3, <2>5, <3>1 DEF End, Resolution, ResolveLooks, Resolve, ResolveRejected
  <2> QED
    BY <2>1, <2>2, <2>3, <2>4, <2>5
<1> QED
  BY <1>1, <1>2, <1>3

\* Who holds a lane holds it as long as it works on its worker.
LEMMA LaneStays ==
  ASSUME TypeOK, [Next]_vars, NEW r \in Requests, NEW w \in Workers, lane[w] = r,
         h'[r].step \in Releases \cup Adoptions
  PROVE  lane'[w] = r
<1>n. Free.step \notin Releases \cup Adoptions /\ r # None
  BY NamesAssumption DEF Free, Releases, Checked, Adoptions
<1>t. (\E Z : lane \in [Workers -> Z]) /\ (\E Z : h \in [Requests -> Z])
  BY DEF TypeOK
<1>1. CASE Environment \/ Session \/ UNCHANGED vars
  BY <1>1 DEF vars, Environment, OpenTab, StartByHand, ClosePane, ExitAgent, MovePane, StartLate,
     Outside, Session, Sample, observeWorker, Outage
<1>2. ~Crash
  BY <1>n DEF Crash
<1>3. ASSUME NEW q \in Requests,
             Request(q) \/ Launch(q) \/ Bind(q) \/ Cleanup(q) \/ End(q) \/ Resolution(q)
      PROVE  lane'[w] = r
  <2>u. Unlock(q) /\ q # r => lane'[w] = r
    BY <1>t DEF Unlock
  <2>1. CASE Request(q)
    <3>1. PICK v \in Workers :
            \/ Spawn(q, v) \/ Release(q, v) \/ \E p \in Panes : SpawnInPane(q, v, p) \/ Adopt(q, v, p)
      BY <2>1 DEF Request
    <3>2. lane' = lane \/ (lane[v] = None /\ lane' = [lane EXCEPT ![v] = q])
      <4>1. ASSUME NEW p \in Panes, SpawnInPane(q, v, p) PROVE lane' = lane
        BY <4>1 DEF SpawnInPane
      <4>2. ASSUME NEW p \in Panes, Adopt(q, v, p)
            PROVE  lane' = lane \/ (lane[v] = None /\ lane' = [lane EXCEPT ![v] = q])
        BY <4>2 DEF Adopt
      <4>3. CASE Spawn(q, v) \/ Release(q, v)
        BY <4>3 DEF Spawn, Release
      <4> QED
        BY <3>1, <4>1, <4>2, <4>3
    <3> QED
      BY <1>n, <1>t, <3>2
  <2>2. CASE Launch(q)
    <3>1. CASE NewTab(q)
      BY <3>1 DEF NewTab
    <3>2. CASE ~NewTab(q)
      BY <2>2, <3>2 DEF Launch, Record, NoTab, Route, Put, waitShellReady, AgentStart, Confirm,
         Capture, Commit, launchFailure
    <3> QED
      BY <3>1, <3>2
  <2>3. CASE Bind(q)
    <3>1. UNCHANGED lane \/ (Unlock(q) /\ h' = [h EXCEPT ![q] = Free])
      BY <2>3 DEF Bind, AdoptLook, AdoptCapture, AdoptCommit, Completes, Refuse, Unread, GiveUp
    <3> QED
      BY <1>n, <1>t, <2>u, <3>1
  <2>4. CASE Cleanup(q)
    <3>1. CASE Unsure(q)
      <4>1. h[q].step \in Steps /\ Go(q, "ending") /\ Unlock(q)
        BY <3>1 DEF Unsure, Steps
      <4>2. h'[q].step = "ending"
        BY <4>1, FieldsAfter
      <4> QED
        BY <2>u, <4>1, <4>2 DEF Releases, Checked, Adoptions
    <3>2. CASE ~Unsure(q)
      <4>1. UNCHANGED lane \/ (Unlock(q) /\ h' = [h EXCEPT ![q] = Free])
        BY <2>4, <3>2 DEF Cleanup, Inspect, Recheck, Close, Signal, Verify, Seal, Retire,
           RetireCommit, Completes, Refuse, Unread, GiveUp
      <4> QED
        BY <1>n, <1>t, <2>u, <4>1
    <3> QED
      BY <3>1, <3>2
  <2>5. CASE End(q) \/ Resolution(q)
    BY <2>5 DEF End, Resolution, ResolveLooks, Resolve, ResolveRejected
  <2> QED
    BY <1>3, <2>1, <2>2, <2>3, <2>4, <2>5
<1> QED
  BY <1>1, <1>2, <1>3 DEF Next

\* The process of a row stays, and so does the pane unless the sample has the terminal elsewhere.
Stays(w) ==
  /\ row'[w].proc = row[w].proc /\ row'[w].name = row[w].name /\ row'[w].term = row[w].term
  /\ \/ row'[w].pane = row[w].pane
     \/ row'[w].pane = obs.pane /\ row[w].term = obs.term /\ row[w].proc # 0

\* How the row of a worker changes that is neither created nor written by a handler.
LEMMA ChangesKeep ==
  ASSUME TypeOK, NEW w \in Workers, Changes(w)
  PROVE  \/ Owned(w) /\ Owned(w)' /\ Stays(w)
         \/ /\ unbound(row[w]) /\ row'[w] = [row[w] EXCEPT !.state = "failed"] /\ row'[w].proc = 0
            /\ (\E x \in Requests : Launching(x, w)) => w \in overlapped'
<1>t. /\ \E Z : row \in [Workers -> Z]
      /\ \E Z : h \in [Requests -> Z]
      /\ \E Z : op \in [Requests -> Z]
      /\ row[w] \in AnyRow
  BY TypeParts DEF TypeOK, Tables
<1>2. ASSUME NEW q \in Requests, Release(q, w)
      PROVE  Owned(w) /\ Owned(w)' /\ Stays(w)
  <2>1. Owned(w) /\ row' = [row EXCEPT ![w].op = q]
    BY <1>2 DEF Release
  <2>2. row'[w] = [row[w] EXCEPT !.op = q]
    BY <1>t, <2>1
  <2> QED
    BY <1>t, <2>1, <2>2 DEF AnyRow, RowIn, Owned, Stays
<1>3. ASSUME sessionActive(w), row'[w] \in {Observed(row[w]), [row[w] EXCEPT !.state = "offline"]}
      PROVE  Owned(w) /\ Owned(w)' /\ Stays(w)
  <2>1. Owned(w) /\ row[w].state \in Standing
    BY <1>3, <1>t DEF sessionActive, Owned, AnyRow, AnyState, RowIn, Final
  <2>2. PICK l : l = row[w]
    OBVIOUS
  <2>3. CASE row'[w] = [l EXCEPT !.state = "live", !.pane = obs.pane] /\ continuous(l)
    BY <1>t, <2>1, <2>2, <2>3 DEF AnyRow, RowIn, Owned, Final, Stays, continuous
  <2>4. CASE row'[w] = l
    BY <2>1, <2>2, <2>4 DEF Owned, Stays
  <2>5. CASE \E s \in {"lost", "offline"} : row'[w] = [l EXCEPT !.state = s]
    BY <1>t, <2>1, <2>2, <2>5 DEF AnyRow, RowIn, Owned, Final, Stays
  <2> QED
    BY <1>3, <2>2, <2>3, <2>4, <2>5 DEF Observed
<1>4. ASSUME unbound(row[w]), row'[w] = [row[w] EXCEPT !.state = "failed"]
      PROVE  row'[w].proc = 0
  BY <1>4, <1>t DEF unbound, AnyRow, RowIn
<1> QED
  BY <1>2, <1>3, <1>4 DEF Changes

\* What a handler has to write.
LEMMA NextOwnRow ==
  ASSUME TypeOK, OverInv, [Next]_vars, NEW r \in Requests
  PROVE  OwnRow(r)'
<1>i. OwnRow(r)
  BY DEF OverInv
<1>1. CASE h'[r] = h[r]
  BY <1>i, <1>1 DEF OwnRow
<1>2. CASE h'[r].step = "free"
  BY <1>2 DEF OwnRow, Early, Checked
<1>3. CASE Goes(r)
  <2>0. PICK l, m : l = h[r].row /\ m = h'[r].row
    OBVIOUS
  <2>1. /\ h[r].step # "free" /\ h[r].step \in Steps /\ Keeps(h[r], h'[r]) /\ m.op = l.op
        /\ h[r].step \notin {"capture", "take"} => m.proc = l.proc
    BY <1>3, <2>0, RowFields DEF Goes, Keeps, Steps
  <2>2. ASSUME h'[r].step \in Early \cup {"confirm", "capture"} PROVE h'[r].row.proc = 0
    <3>1. LaunchTo(h[r], h'[r])
      BY <2>1, <2>2 DEF Keeps, Launches
    <3>2. h[r].step \in Early \cup {"confirm"}
      BY <2>2, <3>1 DEF LaunchTo, Early
    <3> QED
      BY <1>i, <2>0, <2>1, <3>2 DEF OwnRow, Early
  <2>3. ASSUME h'[r].step \in Checked PROVE h'[r].row.proc # 0
    <3>1. h[r].step \in Releases
      BY <2>1, <2>3 DEF Keeps, Releases
    <3>2. h[r].row.proc # 0
      BY <1>i, <2>1, <2>3 DEF Keeps, OwnRow
    <3> QED
      BY <2>0, <2>1, <3>1, <3>2 DEF Releases, Checked
  <2> QED
    BY <1>i, <2>0, <2>1, <2>2, <2>3 DEF OwnRow
<1>4. CASE Request(r)
  BY <1>4, Beginnings DEF OwnRow, Spawned, Adopted, Claimed, Early, Checked
<1> QED
  BY <1>1, <1>2, <1>3, <1>4, HandlerBefore

\* Who writes the row of a worker: its launch, an adoption, or a release that found a process.
LEMMA Writer ==
  ASSUME TypeOK, OverInv, NEW w \in Workers, NEW q \in Requests, Writes(q, w)
  PROVE  /\ h[q].worker = w /\ h[q].step \in Steps
         /\ \/ /\ LaunchOf(q, w)
               /\ \/ h'[q].step \notin Launches
                  \/ /\ h[q].step \in {"record", "route"} /\ row'[w] = h[q].row
                     /\ row'[w].proc = 0 /\ row'[w].state \in Standing
            \/ /\ h[q].step = "bind" /\ h'[q].step = "free"
               /\ (\E x \in Requests : LaunchOf(x, w)) => w \in overlapped'
            \/ /\ h[q].step \in Checked /\ h'[q].step \notin Releases /\ h[q].row.proc # 0
               /\ h[q].step = "unsure" \/ row'[w].state \in Final
<1>n. Free.step = "free" /\ "free" \notin Launches \cup Releases /\ "ending" \notin Launches \cup Releases
  BY DEF Free, Launches, Early, Releases, Checked
<1>1. h[q].worker = w /\ h[q].step \in Steps /\ OwnRow(q)
  BY DEF Writes, Steps, OverInv
<1>2. h[q].row \in RowIn(Standing) /\ row[w] \in AnyRow
  BY <1>1, BusyHandler, TypeParts DEF Tables
<1>3. CASE h[q].step \in {"record", "route"} /\ row'[w] = h[q].row
  <2>1. h[q].row.proc = 0 /\ LaunchOf(q, w)
    BY <1>1, <1>3 DEF OwnRow, Early, LaunchOf, Launches
  <2>2. h[q].row.state \in Standing
    BY <1>2 DEF RowIn
  <2> QED
    BY <1>1, <1>3, <2>1, <2>2
<1>4. CASE (h[q].step = "commit" /\ h'[q] = Free) \/ (h[q].step = "failing" /\ h'[q].step = "ending")
  BY <1>n, <1>1, <1>4 DEF LaunchOf, Launches
<1>5. CASE /\ h[q].step = "bind" /\ h'[q] = Free
           /\ (\E x \in Requests : Launching(x, w)) => w \in overlapped'
  BY <1>n, <1>1, <1>5 DEF LaunchOf, Launches, Early, Launching
<1>6. CASE h[q].step = "unsure" /\ h'[q].step = "ending"
  BY <1>n, <1>1, <1>6 DEF OwnRow, Checked
<1>7. CASE /\ h[q].step \in {"seal", "retired"} /\ h'[q] = Free
           /\ \/ row'[w] = [h[q].row EXCEPT !.state = "released"]
              \/ row'[w] = [row[w] EXCEPT !.state = "released", !.op = q]
  <2>1. row'[w].state \in Final
    BY <1>2, <1>7 DEF AnyRow, RowIn, Final
  <2> QED
    BY <1>n, <1>1, <1>7, <2>1 DEF OwnRow, Checked
<1>8. \/ h[q].step \in {"record", "route"} /\ row'[w] = h[q].row
      \/ (h[q].step = "commit" /\ h'[q] = Free) \/ (h[q].step = "failing" /\ h'[q].step = "ending")
      \/ /\ h[q].step = "bind" /\ h'[q] = Free
         /\ (\E x \in Requests : Launching(x, w)) => w \in overlapped'
      \/ h[q].step = "unsure" /\ h'[q].step = "ending"
      \/ /\ h[q].step \in {"seal", "retired"} /\ h'[q] = Free
         /\ \/ row'[w] = [h[q].row EXCEPT !.state = "released"]
            \/ row'[w] = [row[w] EXCEPT !.state = "released", !.op = q]
  BY DEF Writes
<1> QED
  BY <1>3, <1>4, <1>5, <1>6, <1>7, <1>8

\* A handler that had found a process holds the lane, so it is the only one.
LEMMA CheckedOwns ==
  ASSUME OverInv, NEW w \in Workers, w \notin overlapped, NEW q \in Requests, h[q].worker = w,
         h[q].step \in Checked, h[q].row.proc # 0
  PROVE  /\ lane[w] = q /\ Owned(w) /\ row[w].proc # 0
         /\ row[w].proc = h[q].row.proc /\ row[w].name = h[q].row.name
  BY DEF OverInv, InLane, Releases

\* Who writes the row of a worker while it is launched.
LEMMA LaunchedRow ==
  ASSUME TypeOK, LaunchInv, OverInv, [Next]_vars, NEW q \in Requests, NEW w \in Workers,
         LaunchOf(q, w), LaunchOf(q, w)', w \notin overlapped'
  PROVE  \/ row'[w] = row[w]
         \/ /\ h[q].step \in {"record", "route"} /\ row'[w] = h[q].row
            /\ row'[w].proc = 0 /\ row'[w].state \in Standing
         \/ Owned(w)' /\ SameEvidence(row'[w], row[w])
<1>o. w \notin overlapped
  BY HistoryGrows
<1>1. row[w].proc = 0
  BY <1>o DEF OverInv, Apart
<1>2. \A x \in Requests : LaunchOf(x, w) => x = q
  BY DEF LaunchInv, SoleLaunch
<1>3. h[q].worker = w /\ h[q].step # "free"
  BY DEF LaunchOf, Launches, Early
<1>4. ASSUME NEW x \in Requests, Writes(x, w)
      PROVE  /\ h[q].step \in {"record", "route"} /\ row'[w] = h[q].row
             /\ row'[w].proc = 0 /\ row'[w].state \in Standing
  <2>1. ~(h[x].step \in Checked /\ h[x].row.proc # 0)
    BY <1>o, <1>1, <1>4, Writer, CheckedOwns
  <2>2. ~((\E y \in Requests : LaunchOf(y, w)) => w \in overlapped')
    OBVIOUS
  <2>3. LaunchOf(x, w)
    BY <1>4, <2>1, <2>2, Writer
  <2>4. x = q
    BY <1>2, <2>3
  <2>5. h'[x].step \in Launches /\ h[x].step # "bind" /\ h[x].step \notin Checked
    BY <2>3, <2>4 DEF LaunchOf, Launches, Early, Checked
  <2> QED
    BY <1>4, <2>4, <2>5, Writer
<1>5. CASE Changes(w)
  <2>2. \E x \in Requests : Launching(x, w)
    BY DEF LaunchOf, Launches, Early, Launching
  <2>3. Stays(w) /\ Owned(w)'
    BY <1>5, <2>2, ChangesKeep
  <2>4. SameEvidence(row'[w], row[w])
    BY <1>1, <2>3 DEF Stays, SameEvidence
  <2> QED
    BY <2>3, <2>4
<1> QED
  BY <1>4, <1>5, RowStep

\* What a launch leaves alone.
LEMMA NextApart ==
  ASSUME TypeOK, LaunchInv, OverInv, [Next]_vars, NEW q \in Requests, NEW w \in Workers
  PROVE  Apart(q, w)'
<1> SUFFICES ASSUME LaunchOf(q, w)', w \notin overlapped'
             PROVE  row'[w].proc = 0 /\ row'[w].state \notin Final
  BY DEF Apart
<1>o. w \notin overlapped
  BY HistoryGrows
<1>1. CASE FreshWorker(w)
  <2>1. row[w] = NoRow /\ \A x \in Requests : h[x].worker # w
    BY <1>1 DEF FreshWorker
  <2>2. ~Owned(w) /\ ~unbound(row[w])
    BY <2>1 DEF NoRow, Owned, unbound
  <2>3. ~Changes(w) /\ ~\E x \in Requests : Writes(x, w)
    BY <2>1, <2>2, ChangesKeep DEF Writes
  <2> QED
    BY <2>1, <2>3, RowStep DEF NoRow, Final
<1>2. CASE LaunchOf(q, w)
  <2>1. row[w].proc = 0 /\ row[w].state \notin Final
    BY <1>o, <1>2 DEF OverInv, Apart
  <2>2. Standing \cap Final = {}
    BY DEF Standing, Final
  <2> QED
    BY <1>2, <2>1, <2>2, LaunchedRow DEF Owned, SameEvidence
<1>3. LaunchOf(q, w) \/ FreshWorker(w)
  BY LaunchBefore DEF LaunchOf, LaunchTo
<1> QED
  BY <1>1, <1>2, <1>3

\* What a release keeps others from.
LEMMA NextInLane ==
  ASSUME TypeOK, OverInv, [Next]_vars, NEW r \in Requests
  PROVE  InLane(r)'
<1> SUFFICES ASSUME NEW w, w = h'[r].worker, h'[r].step \in Releases, h'[r].row.proc # 0, w \notin overlapped'
             PROVE  /\ lane'[w] = r /\ Owned(w)'
                    /\ row'[w].proc = h'[r].row.proc /\ row'[w].name = h'[r].row.name
  BY DEF InLane
<1>o. w \notin overlapped
  BY HistoryGrows
<1>1. CASE Request(r)
  BY <1>1, Beginnings DEF Spawned, Adopted, Claimed, Releases, Checked
<1>2. CASE h'[r] = h[r] \/ Goes(r)
  <2>1. h[r].step \in Releases /\ h[r].worker = w /\ h[r].step \in Steps
    BY <1>2 DEF Goes, Keeps, Releases, Checked, Steps
  <2>0. h'[r].row = h[r].row
    BY <1>2, <2>1, RowFields DEF Goes, Releases, Checked
  <2>2. w \in Workers /\ h[r].row.proc # 0
    BY <2>0, <2>1, BusyHandler
  <2>3. /\ lane[w] = r /\ row[w].proc # 0 /\ Owned(w)
        /\ row[w].proc = h[r].row.proc /\ row[w].name = h[r].row.name
    BY <1>o, <2>1, <2>2 DEF OverInv, InLane
  <2>4. lane'[w] = r
    BY <2>2, <2>3, LaneStays
  <2>5. CASE row'[w] = row[w]
    BY <2>0, <2>3, <2>4, <2>5 DEF Owned
  <2>6. ASSUME NEW x \in Requests, Writes(x, w)
        PROVE  FALSE
    <3>1. ~LaunchOf(x, w)
      BY <1>o, <2>2, <2>3 DEF OverInv, Apart
    <3>2. CASE h[x].step \in Checked /\ h'[x].step \notin Releases /\ h[x].row.proc # 0
      <4>1. lane[w] = x
        BY <1>o, <2>2, <2>6, <3>2, Writer, CheckedOwns
      <4> QED
        BY <2>3, <3>2, <4>1
    <3>3. CASE h[x].step = "bind"
      <4>1. lane[w] = x \/ row[w] = NoRow
        BY <2>2, <2>6, <3>3, Writer DEF OverInv, AdoptLane, Adoptions
      <4>2. row[w] # NoRow
        BY <2>3 DEF NoRow
      <4> QED
        BY <2>1, <2>3, <3>3, <4>1, <4>2 DEF Releases, Checked
    <3> QED
      BY <2>2, <2>6, <3>1, <3>2, <3>3, Writer
  <2>7. CASE Changes(w)
    <3>1. ~FreshWorker(w) /\ ~unbound(row[w])
      BY <2>1, <2>3 DEF FreshWorker, unbound
    <3> QED
      BY <2>0, <2>2, <2>3, <2>4, <2>7, <3>1, ChangesKeep DEF Stays
  <2> QED
    BY <2>2, <2>5, <2>6, <2>7, RowStep
<1>3. h'[r].step # "free"
  BY DEF Releases, Checked
<1> QED
  BY <1>1, <1>2, <1>3, HandlerBefore

\* And an adoption.
LEMMA NextAdoptLane ==
  ASSUME TypeOK, OverInv, [Next]_vars, NEW r \in Requests
  PROVE  AdoptLane(r)'
<1> SUFFICES ASSUME NEW w, w = h'[r].worker, h'[r].step \in Adoptions
             PROVE  lane'[w] = r \/ (row'[w] = NoRow /\ \A q \in Requests \ {r} : h'[q].worker # w)
  BY DEF AdoptLane
<1>1. CASE Request(r) /\ \A q \in Requests \ {r} : h'[q] = h[q]
  <2>1. w \in Workers /\ UNCHANGED row /\ (FreshWorker(w) \/ lane'[w] = r)
    BY <1>1, Beginnings DEF Spawned, Adopted, Claimed, Adoptions
  <2> QED
    BY <1>1, <2>1 DEF FreshWorker
<1>2. CASE h'[r] = h[r] \/ Goes(r)
  <2>1. h[r].step \in Adoptions /\ h[r].worker = w /\ h[r].step \in Steps
    BY <1>2 DEF Goes, Keeps, Adoptions, Steps
  <2>2. w \in Workers
    BY <2>1, BusyHandler
  <2>3. CASE lane[w] = r
    BY <2>2, <2>3, LaneStays
  <2>4. CASE row[w] = NoRow /\ \A q \in Requests \ {r} : h[q].worker # w
    <3>1. ~FreshWorker(w)
      BY <2>1 DEF FreshWorker
    <3>2. ~Owned(w) /\ ~unbound(row[w])
      BY <2>4 DEF Owned, unbound, NoRow
    <3>3. ~Changes(w)
      BY <2>2, <3>1, <3>2, ChangesKeep
    <3>4. ASSUME NEW x \in Requests, Writes(x, w) PROVE FALSE
      <4>1. x = r
        BY <2>4, <3>4 DEF Writes
      <4>2. h[r].step = "bind" /\ h'[r].step = "free"
        BY <2>1, <2>2, <3>4, <4>1, Writer DEF LaunchOf, Launches, Early, Checked, Adoptions
      <4> QED
        BY <4>2 DEF Adoptions
    <3>5. row'[w] = NoRow
      BY <2>2, <2>4, <3>3, <3>4, RowStep
    <3>6. ASSUME NEW q \in Requests \ {r}, h'[q].worker = w PROVE FALSE
      <4>1. h[q].worker # w
        BY <2>4
      <4>2. Request(q)
        <5>1. h'[q].step # "free"
          <6>1. TypeOK'
            BY NextType
          <6>2. h'[q] \in Handler' \/ h'[q] = Free
            BY <6>1 DEF TypeOK, Free
          <6>3. h'[q] # Free
            BY <2>2, <3>6, NamesAssumption DEF Free
          <6> QED
            BY <6>2, <6>3 DEF Handler, Steps
        <5> QED
          BY <3>6, <4>1, <5>1, HandlerBefore DEF Goes, Keeps
      <4>3. Spawned(q, w) \/ Adopted(q, w) \/ Claimed(q, w)
        BY <3>6, <4>2, Beginnings
      <4> QED
        BY <2>4, <3>1, <3>2, <4>3 DEF Spawned, Adopted, Claimed
    <3> QED
      BY <3>5, <3>6
  <2> QED
    BY <2>1, <2>3, <2>4 DEF OverInv, AdoptLane
<1>3. h'[r].step # "free"
  BY DEF Adoptions
<1> QED
  BY <1>1, <1>2, <1>3, HandlerBefore

LEMMA NextOver == TypeOK /\ LaunchInv /\ OverInv /\ [Next]_vars => OverInv'
  BY NextOwnRow, NextApart, NextInLane, NextAdoptLane DEF OverInv

LEMMA InitOver == Init => OverInv
<1> SUFFICES ASSUME Init PROVE OverInv
  OBVIOUS
<1>1. \A r \in Requests : h[r].step = "free"
  BY DEF Init, Free
<1> QED
  BY <1>1 DEF OverInv, OwnRow, InLane, AdoptLane, Apart, LaunchOf, Launches, Early, Releases, Checked,
     Adoptions

\* What is over comes back by an adoption, or after one, or a resolution, during its own launch.
ComesBack(w) == w \in overlapped \/ \E r \in Requests : h[r].step = "bind" /\ h[r].worker = w

LEMMA OverStays ==
  ASSUME TypeOK, OverInv, [Next]_vars, NEW w \in Workers,
         row[w].state \in Final, row'[w].state \notin Final
  PROVE  ComesBack(w)
<1>1. CASE w \in overlapped
  BY <1>1 DEF ComesBack
<1>2. CASE w \notin overlapped
  <2>1. ~Owned(w) /\ row[w] # NoRow /\ ~unbound(row[w])
    BY DEF Owned, NoRow, Final, unbound
  <2>2. ~Changes(w)
    BY <2>1, ChangesKeep DEF FreshWorker
  <2>3. PICK q \in Requests : Writes(q, w)
    BY <2>2, RowStep
  <2>4. ~LaunchOf(q, w)
    BY <1>2 DEF OverInv, Apart
  <2>5. ~(h[q].step \in Checked /\ h[q].row.proc # 0)
    BY <1>2, <2>1, <2>3, Writer, CheckedOwns
  <2> QED
    BY <2>3, <2>4, <2>5, Writer DEF ComesBack
<1> QED
  BY <1>1, <1>2

\* A worker that is released or failed comes back only by an explicit adoption, unless it was
\* adopted, or declared failed by a person, while its own launch was still under way.
THEOREM WhatIsOverStaysOver == Spec => FinalIsFinal
<1>1. Init => TypeOK /\ LaunchInv /\ OverInv
  BY InitType, InitLaunch, InitOver
<1>2. TypeOK /\ LaunchInv /\ OverInv /\ [Next]_vars => (TypeOK /\ LaunchInv /\ OverInv)'
  BY NextType, NextLaunch, NextOver
<1>3. TypeOK /\ OverInv /\ [Next]_vars =>
        \A w \in Workers : row[w].state \in Final /\ row'[w].state \notin Final =>
          w \in overlapped \/ \E r \in Requests : h[r].step = "bind" /\ h[r].worker = w
  BY OverStays DEF ComesBack
<1> QED
  BY <1>1, <1>2, <1>3, PTL DEF Spec, FinalIsFinal

-----------------------------------------------------------------------------
(* Agents of one worker.  Whoever has a terminal on record has it in the   *)
(* same pane, unless it moved, and whoever has a process on record has it  *)
(* in the same terminal.                                                   *)

\* The terminal t is in the pane p, and the process b in the terminal t, according to Herdr, a
\* row, a handler or the sample.
Spot(p, t) ==
  \/ p \in Panes /\ pane[p] = t
  \/ \E w \in Workers : row[w].pane = p /\ row[w].term = t
  \/ \E r \in Requests : h[r].row.pane = p /\ h[r].row.term = t
  \/ obs.pane = p /\ obs.term = t
Seat(b, t) ==
  \/ t \in Terms /\ fg[t] = b
  \/ \E w \in Workers : row[w].proc = b /\ row[w].term = t
  \/ \E r \in Requests : h[r].row.proc = b /\ h[r].row.term = t

OneSpot == \A t \in Terms \ moved : \A p, q \in Panes \cup {None} : Spot(p, t) /\ Spot(q, t) => p = q
OneSeat == \A b \in Agents : \A t, u \in Terms \cup {0} : Seat(b, t) /\ Seat(b, u) => t = u

\* Where a row has its terminal and its process from.
LEMMA RowSource ==
  ASSUME TypeOK, [Next]_vars, NEW w \in Workers
  PROVE  \/ row'[w].term = 0 /\ row'[w].proc = 0
         \/ \E l \in {row[w]} \cup {h[q].row : q \in Requests} :
              /\ row'[w].term = l.term /\ row'[w].proc = l.proc
              /\ row'[w].pane = l.pane \/ (row'[w].pane = obs.pane /\ l.term = obs.term)
<1>1. CASE row'[w] = row[w]
  BY <1>1
<1>2. ASSUME NEW q \in Requests, Writes(q, w)
      PROVE  \E l \in {row[w]} \cup {h[x].row : x \in Requests} :
               row'[w].term = l.term /\ row'[w].proc = l.proc /\ row'[w].pane = l.pane
  <2>1. h[q].step \in Steps
    BY <1>2 DEF Writes, Steps
  <2>2. h[q].row \in AnyRow /\ row[w] \in AnyRow
    BY <2>1, BusyHandler, TypeParts DEF Tables
  <2>3. PICK l, m : l = h[q].row /\ m = row[w]
    OBVIOUS
  <2>4. \/ row'[w] = l \/ \E s : row'[w] = [l EXCEPT !.state = s]
        \/ row'[w] = [m EXCEPT !.state = "released", !.op = q]
    BY <1>2, <2>3 DEF Writes
  <2>5. CASE row'[w] = l \/ \E s : row'[w] = [l EXCEPT !.state = s]
    <3>1. row'[w].term = l.term /\ row'[w].proc = l.proc /\ row'[w].pane = l.pane
      BY <2>2, <2>3, <2>5 DEF AnyRow, RowIn
    <3> QED
      BY <2>3, <3>1
  <2>6. CASE row'[w] = [m EXCEPT !.state = "released", !.op = q]
    <3>1. row'[w].term = m.term /\ row'[w].proc = m.proc /\ row'[w].pane = m.pane
      BY <2>2, <2>3, <2>6 DEF AnyRow, RowIn
    <3> QED
      BY <2>3, <3>1
  <2> QED
    BY <2>4, <2>5, <2>6
<1>3. CASE Changes(w)
  <2>1. CASE row'[w].term = 0 /\ row'[w].proc = 0
    BY <2>1
  <2>2. CASE Stays(w)
    BY <2>2 DEF Stays
  <2>3. CASE row'[w] = [row[w] EXCEPT !.state = "failed"]
    <3>1. row[w] \in AnyRow
      BY TypeParts DEF Tables
    <3>2. row'[w].term = row[w].term /\ row'[w].proc = row[w].proc /\ row'[w].pane = row[w].pane
      BY <2>3, <3>1 DEF AnyRow, RowIn
    <3> QED
      BY <3>2
  <2> QED
    BY <1>3, <2>1, <2>2, <2>3, ChangesKeep
<1> QED
  BY <1>1, <1>2, <1>3, RowStep

\* Where a handler has them from.
Sees(r) ==
  LET l == h[r].row
      m == h'[r].row
  IN  \/ m.term = 0 /\ m.proc = 0
      \/ m.term = l.term /\ m.proc = l.proc /\ m.pane = l.pane
      \/ \E w \in Workers : m.term = row[w].term /\ m.proc = row[w].proc /\ m.pane = row[w].pane
      \/ /\ m.proc = 0 /\ m.pane \in Panes
         /\ m.term = pane[m.pane] \/ (m.term = Len(fg) + 1 /\ pane'[m.pane] = m.term)
      \/ m.term = l.term /\ m.pane = l.pane /\ m.term \in Terms /\ m.proc = fg[m.term]

LEMMA HandlerSource ==
  ASSUME GoneInv, [Next]_vars, NEW r \in Requests
  PROVE  Sees(r)
<1>t. TypeOK
  BY DEF GoneInv
<1>1. CASE h'[r] = h[r]
  BY <1>1 DEF Sees
<1>2. CASE h'[r].step = "free"
  <2>1. h'[r] \notin Handler'
    BY <1>2 DEF Handler, Steps
  <2>2. h'[r] = Free
    BY <1>t, <2>1, NextType DEF TypeOK, Free
  <2> QED
    BY <2>2 DEF Sees, Free, NoRow
<1>3. CASE Goes(r)
  <2>1. h[r].step \in Steps /\ HandlerSafe(h[r], pane, fg, alive, moved)
    BY <1>3 DEF Goes, Keeps, GoneInv, HandlersSafe
  <2>2. PICK l : l = h[r].row
    OBVIOUS
  <2>3. l \in RowIn(Standing)
    BY <1>t, <2>1, <2>2, BusyHandler
  <2>4. h[r].step \in {"tab", "look"} => l.proc = 0
    BY <2>1, <2>2 DEF HandlerSafe, Fresh
  <2>5. CASE h'[r].row = l
    BY <2>2, <2>5 DEF Sees
  <2>6. ASSUME h[r].step = "tab",
               NEW p \in Panes, pane'[p] = Len(fg) + 1, h'[r].row = [l EXCEPT !.pane = p, !.term = Len(fg) + 1]
        PROVE  Sees(r)
    <3>1. h'[r].row.pane = p /\ h'[r].row.term = Len(fg) + 1 /\ h'[r].row.proc = 0
      BY <2>3, <2>4, <2>6 DEF RowIn
    <3> QED
      BY <2>6, <3>1 DEF Sees
  <2>7. CASE h[r].step \in {"capture", "take"} /\ h'[r].row = Captured(l)
    <3>1. l.term \in Terms
      <4>1. l.term # 0
        BY <1>t, <2>2, <2>7 DEF TypeOK
      <4> QED
        BY <2>3, <4>1 DEF RowIn
    <3>2. h'[r].row.term = l.term /\ h'[r].row.pane = l.pane /\ h'[r].row.proc = fg[l.term]
      BY <2>3, <2>7 DEF RowIn, Captured
    <3> QED
      BY <2>2, <3>1, <3>2 DEF Sees
  <2>8. ASSUME h[r].step = "look", l.pane \in Panes,
               NEW n, h'[r].row = [l EXCEPT !.term = pane[l.pane], !.name = n]
        PROVE  Sees(r)
    <3>1. h'[r].row.pane = l.pane /\ h'[r].row.term = pane[l.pane] /\ h'[r].row.proc = 0
      BY <2>3, <2>4, <2>8 DEF RowIn
    <3> QED
      BY <2>8, <3>1 DEF Sees
  <2> QED
    BY <1>3, <2>2, <2>5, <2>6, <2>7, <2>8 DEF Goes, RowTo
<1>4. CASE Request(r)
  <2>1. PICK w \in Workers : Spawned(r, w) \/ Adopted(r, w) \/ Claimed(r, w)
    BY <1>t, <1>4, Beginnings
  <2>2. CASE Spawned(r, w)
    BY <2>2 DEF Spawned, Sees
  <2>3. CASE Adopted(r, w)
    BY <2>3 DEF Adopted, Sees
  <2>4. CASE Claimed(r, w)
    BY <2>4 DEF Claimed, SameEvidence, Sees
  <2> QED
    BY <2>1, <2>2, <2>3, <2>4
<1> QED
  BY <1>t, <1>1, <1>2, <1>3, <1>4, HandlerBefore

\* Where the sample has its pane from.
LEMMA SampleSource ==
  ASSUME TypeOK, [Next]_vars
  PROVE  \/ obs' = obs \/ obs'.term = 0
         \/ obs'.pane \in Panes /\ obs'.term = pane[obs'.pane]
<1>1. ASSUME NEW w \in Workers, Sample(w)
      PROVE  obs'.term = 0 \/ (obs'.pane \in Panes /\ obs'.term = pane[obs'.pane])
  <2>1. PICK c : /\ c = Candidate(row[w])
                 /\ obs' = IF HasAgent(c)
                           THEN [worker |-> w, row |-> row[w], pane |-> c, term |-> pane[c],
                                 name |-> name[AgentIn(c)]]
                           ELSE [worker |-> w, row |-> row[w], pane |-> None, term |-> 0, name |-> None]
    BY <1>1 DEF Sample
  <2>2. c \in Panes \cup {None}
    <3>1. row[w].pane \in Panes \cup {None}
      BY TypeParts DEF Tables, AnyRow, RowIn
    <3> QED
      BY <2>1, <3>1 DEF Candidate
  <2>3. HasAgent(c) => c \in Panes
    BY <2>2 DEF HasAgent
  <2> QED
    BY <2>1, <2>3
<1>2. obs' = obs \/ obs' = NoSample \/ \E w \in Workers : Sample(w)
  <2>1. CASE Environment \/ Crash \/ UNCHANGED vars
    BY <2>1 DEF vars, Environment, OpenTab, StartByHand, ClosePane, ExitAgent, MovePane, StartLate,
       Outside, Crash
  <2>2. CASE Session
    BY <2>2 DEF Session, observeWorker, Outage
  <2>3. ASSUME NEW q \in Requests,
               Request(q) \/ Launch(q) \/ Bind(q) \/ Cleanup(q) \/ End(q) \/ Resolution(q)
        PROVE  obs' = obs
    <3>1. CASE Request(q)
      BY <3>1, RequestQuiet
    <3>2. CASE Launch(q)
      <4>1. CASE NewTab(q)
        BY <4>1 DEF NewTab
      <4>2. CASE ~NewTab(q)
        BY <3>2, <4>2 DEF Launch, Record, NoTab, Route, Put, waitShellReady, AgentStart, Confirm,
           Capture, Commit, launchFailure
      <4> QED
        BY <4>1, <4>2
    <3>3. CASE Bind(q)
      BY <3>3 DEF Bind, AdoptLook, AdoptCapture, AdoptCommit, Refuse, Unread, GiveUp
    <3>4. CASE Cleanup(q)
      BY <3>4 DEF Cleanup, Inspect, Recheck, Refuse, Unread, GiveUp, Close, Signal, Verify, Unsure,
         Seal, Retire, RetireCommit
    <3>5. CASE End(q) \/ Resolution(q)
      BY <3>5 DEF End, Resolution, ResolveLooks, Resolve, ResolveRejected
    <3> QED
      BY <2>3, <3>1, <3>2, <3>3, <3>4, <3>5
  <2> QED
    BY <2>1, <2>2, <2>3 DEF Next
<1> QED
  BY <1>1, <1>2 DEF NoSample

\* Rows and samples know terminals and processes that are there.
LEMMA KnownRows ==
  ASSUME TypeOK
  PROVE  /\ \A w \in Workers : row[w].term \in Terms \cup {0} /\ row[w].proc \in Agents \cup {0}
                               /\ row[w].pane \in Panes \cup {None}
         /\ \A r \in Requests : h[r].row.term \in Terms \cup {0} /\ h[r].row.proc \in Agents \cup {0}
                                /\ h[r].row.pane \in Panes \cup {None}
         /\ obs.term \in Terms \cup {0} /\ obs.pane \in Panes \cup {None}
<1>1. \A w \in Workers : row[w] \in AnyRow
  BY TypeParts DEF Tables
<1>2. obs.term \in Terms \cup {0} /\ obs.pane \in Panes \cup {None}
  BY DEF TypeOK
<1>3. ASSUME NEW r \in Requests PROVE h[r].row \in RowIn(Standing) \/ h[r].row = NoRow
  BY DEF TypeOK, Handler, Free
<1> QED
  BY <1>1, <1>2, <1>3 DEF AnyRow, RowIn, NoRow

\* Nobody finds a known terminal in a new pane, unless it moved there.
LEMMA SpotStays ==
  ASSUME GoneInv, [Next]_vars, NEW t \in Terms \ moved', NEW p, Spot(p, t)'
  PROVE  Spot(p, t)
<1>t. TypeOK /\ Herdr /\ Moves
  BY TypeParts, NextMoves DEF GoneInv
<1>0. t # 0 /\ t # Len(fg) + 1
  BY <1>t, Numbers
<1>p. ASSUME p \in Panes, pane'[p] = t PROVE pane[p] = t
  <2>1. CASE Fading
    BY <1>0, <1>p, <2>1 DEF Fading
  <2>2. CASE Opening
    BY <1>0, <1>t, <1>p, <2>2 DEF Opening, Opens, Herdr
  <2>3. CASE Starting
    BY <1>p, <2>3 DEF Starting
  <2>4. CASE Moving
    BY <1>0, <1>t, <1>p, <2>4 DEF Moving, Herdr
  <2> QED
    BY <1>t, <2>1, <2>2, <2>3, <2>4 DEF Moves
<1>1. CASE p \in Panes /\ pane'[p] = t
  BY <1>1, <1>p DEF Spot
<1>2. ASSUME NEW w \in Workers, row'[w].pane = p, row'[w].term = t PROVE Spot(p, t)
  <2>1. \E l \in {row[w]} \cup {h[q].row : q \in Requests} :
          t = l.term /\ (p = l.pane \/ (p = obs.pane /\ l.term = obs.term))
    BY <1>0, <1>t, <1>2, RowSource
  <2> QED
    BY <2>1 DEF Spot
<1>3. ASSUME NEW r \in Requests, h'[r].row.pane = p, h'[r].row.term = t PROVE Spot(p, t)
  BY <1>0, <1>3, <1>p, HandlerSource DEF Sees, Spot
<1>4. CASE obs'.pane = p /\ obs'.term = t
  BY <1>0, <1>t, <1>4, SampleSource DEF Spot
<1> QED
  BY <1>1, <1>2, <1>3, <1>4 DEF Spot

\* A new one is in the pane where it was opened.
LEMMA NewSpot ==
  ASSUME GoneInv, [Next]_vars, NEW t \in Terms' \ Terms, NEW p, Spot(p, t)'
  PROVE  p \in Panes /\ pane'[p] = t
<1>t. TypeOK /\ Herdr
  BY TypeParts DEF GoneInv
<1>0. t # 0 /\ \A x \in Panes : pane[x] # t
  <2>1. TypeOK'
    BY <1>t, NextType
  <2>2. Herdr'
    BY <2>1 DEF TypeOK, Herdr
  <2>3. fg' \in Seq(0..Len(name'))
    BY <2>2 DEF Herdr
  <2>4. t # 0
    BY <2>3 DEF Terms
  <2> QED
    BY <1>t, <2>4, Numbers
<1>k. /\ \A w \in Workers : row[w].term # t
      /\ \A r \in Requests : h[r].row.term # t
      /\ obs.term # t
  BY <1>t, <1>0, KnownRows
<1>2. ASSUME NEW w \in Workers, row'[w].term = t PROVE FALSE
  BY <1>0, <1>t, <1>k, <1>2, RowSource
<1>3. ASSUME NEW r \in Requests, h'[r].row.pane = p, h'[r].row.term = t
      PROVE  p \in Panes /\ pane'[p] = t
  BY <1>0, <1>k, <1>3, HandlerSource DEF Sees
<1>4. obs'.term # t
  BY <1>0, <1>t, <1>k, SampleSource
<1> QED
  BY <1>2, <1>3, <1>4 DEF Spot

LEMMA MovedGrows == Moves => moved \subseteq moved'
  BY DEF Moves, Fading, Opening, Starting, Moving

LEMMA NextOneSpot ==
  ASSUME GoneInv, OneSpot, [Next]_vars
  PROVE  OneSpot'
<1> SUFFICES ASSUME NEW t \in Terms' \ moved', NEW p \in Panes \cup {None}, NEW q \in Panes \cup {None},
                    Spot(p, t)', Spot(q, t)'
             PROVE  p = q
  BY DEF OneSpot
<1>1. moved \subseteq moved' /\ Moves
  BY NextMoves, MovedGrows DEF GoneInv
<1>2. CASE t \in Terms
  <2>1. Spot(p, t) /\ Spot(q, t) /\ t \in Terms \ moved
    BY <1>1, <1>2, SpotStays
  <2> QED
    BY <2>1 DEF OneSpot
<1>3. CASE t \notin Terms
  <2>1. p \in Panes /\ q \in Panes /\ pane'[p] = t /\ pane'[q] = t
    BY <1>3, NewSpot
  <2>2. Place'
    BY NextGone DEF GoneInv
  <2>3. TypeOK' /\ Herdr'
    BY NextGone DEF GoneInv, TypeOK, Herdr
  <2>4. t # 0
    BY <2>3 DEF Herdr, Terms
  <2> QED
    BY <2>1, <2>2, <2>4 DEF Place
<1> QED
  BY <1>2, <1>3

\* Nobody finds a known process in a new terminal.
LEMMA SeatStays ==
  ASSUME GoneInv, [Next]_vars, NEW b \in Agents, NEW t, Seat(b, t)'
  PROVE  Seat(b, t)
<1>t. TypeOK /\ Herdr /\ Moves
  BY TypeParts, NextMoves DEF GoneInv
<1>0. b # 0 /\ b # Len(name) + 1
  BY <1>t, Numbers
<1>1. ASSUME t \in Terms', fg'[t] = b PROVE t \in Terms /\ fg[t] = b
  <2>1. CASE Fading
    BY <1>0, <1>t, <1>1, <2>1 DEF Fading, Herdr, Terms
  <2>2. CASE Opening
    <3>1. fg \in Seq(0..Len(name)) /\ fg' = Append(fg, 0)
      BY <1>t, <2>2 DEF Opening, Opens, Herdr
    <3>2. 0 \in 0..Len(name)
      BY <1>t DEF Herdr
    <3>3. Terms' = 1..(Len(fg) + 1) /\ fg'[Len(fg) + 1] = 0 /\ \A x \in 1..Len(fg) : fg'[x] = fg[x]
      BY <3>1, <3>2, AppendProperties DEF Terms
    <3> QED
      BY <1>0, <1>t, <1>1, <3>1, <3>3, Numbers
  <2>3. CASE Starting
    BY <1>0, <1>t, <1>1, <2>3 DEF Starting, Starts, Herdr, Terms
  <2>4. CASE Moving
    BY <1>1, <2>4 DEF Moving, Terms
  <2> QED
    BY <1>t, <2>1, <2>2, <2>3, <2>4 DEF Moves
<1>2. ASSUME NEW w \in Workers, row'[w].proc = b, row'[w].term = t PROVE Seat(b, t)
  <2>1. \E l \in {row[w]} \cup {h[q].row : q \in Requests} : t = l.term /\ b = l.proc
    BY <1>0, <1>t, <1>2, RowSource
  <2> QED
    BY <2>1 DEF Seat
<1>3. ASSUME NEW r \in Requests, h'[r].row.proc = b, h'[r].row.term = t PROVE Seat(b, t)
  BY <1>0, <1>3, HandlerSource DEF Sees, Seat
<1> QED
  BY <1>1, <1>2, <1>3 DEF Seat

\* A new one is in the terminal where it was started.
LEMMA NewSeat ==
  ASSUME GoneInv, [Next]_vars, NEW b \in Agents' \ Agents, NEW t, Seat(b, t)'
  PROVE  t \in Terms' /\ fg'[t] = b
<1>t. TypeOK /\ Herdr
  BY TypeParts DEF GoneInv
<1>0. b # 0 /\ \A x \in Terms : fg[x] # b
  <2>1. TypeOK'
    BY <1>t, NextType
  <2>2. name' \in Seq(Names)
    BY <2>1 DEF TypeOK, Names
  <2>3. b # 0
    BY <2>2 DEF Agents
  <2> QED
    BY <1>t, <2>3, Numbers
<1>k. /\ \A w \in Workers : row[w].proc # b
      /\ \A r \in Requests : h[r].row.proc # b
  BY <1>t, <1>0, KnownRows
<1>2. ASSUME NEW w \in Workers, row'[w].proc = b PROVE FALSE
  BY <1>0, <1>t, <1>k, <1>2, RowSource
<1>3. ASSUME NEW r \in Requests, h'[r].row.proc = b PROVE FALSE
  BY <1>0, <1>k, <1>3, HandlerSource DEF Sees
<1> QED
  BY <1>2, <1>3 DEF Seat

LEMMA NextOneSeat ==
  ASSUME GoneInv, OneSeat, [Next]_vars
  PROVE  OneSeat'
<1> SUFFICES ASSUME NEW b \in Agents', NEW t \in Terms' \cup {0}, NEW u \in Terms' \cup {0},
                    Seat(b, t)', Seat(b, u)'
             PROVE  t = u
  BY DEF OneSeat
<1>h. GoneInv' /\ b # 0
  <2>1. GoneInv'
    BY NextGone
  <2>2. name' \in Seq(Names)
    BY <2>1 DEF GoneInv, TypeOK, Names
  <2> QED
    BY <2>1, <2>2 DEF Agents
<1>1. CASE b \in Agents
  <2>1. Seat(b, t) /\ Seat(b, u)
    BY <1>1, SeatStays
  <2>2. ASSUME NEW x, Seat(b, x) PROVE x \in Terms \cup {0}
    <3>1. TypeOK
      BY DEF GoneInv
    <3> QED
      BY <2>2, <3>1, KnownRows DEF Seat
  <2> QED
    BY <1>1, <2>1, <2>2 DEF OneSeat
<1>2. CASE b \notin Agents
  <2>1. t \in Terms' /\ u \in Terms' /\ fg'[t] = b /\ fg'[u] = b
    BY <1>2, NewSeat
  <2> QED
    BY <1>h, <2>1 DEF GoneInv, Place
<1> QED
  BY <1>1, <1>2

\* A launch is under the name of its worker.
Named(r) == h[r].step \in Launches => h[r].row.name = h[r].worker

\* From its first row on, a launch has the pane and the terminal on record, and nobody claims an
\* agent of this name there.
Placed(q, w) ==
  /\ LaunchOf(q, w) /\ w \notin overlapped
  /\ h[q].step \in {"shell", "start", "confirm", "capture", "commit"} \/ h[q].row.proc # 0
InPlace(q, w) ==
  Placed(q, w) => Owned(w) /\ row[w].pane = h[q].row.pane /\ row[w].term = h[q].row.term
Unclaimed(q, w) ==
  Placed(q, w) => \A v \in Workers \ {w} :
    Bound(v) /\ row[v].name = w /\ row[v].term = h[q].row.term
      => row[v].term \in moved \/ v \in overlapped

LinkInv ==
  /\ OneSpot /\ OneSeat /\ OneWorkerPerAgent
  /\ \A r \in Requests : Named(r)
  /\ \A q \in Requests, w \in Workers : InPlace(q, w) /\ Unclaimed(q, w)

LinkedInv == GoneInv /\ LaunchInv /\ OverInv /\ LinkInv

LEMMA NextNamed ==
  ASSUME TypeOK, [Next]_vars, NEW r \in Requests, Named(r)
  PROVE  Named(r)'
<1> SUFFICES ASSUME h'[r].step \in Launches PROVE h'[r].row.name = h'[r].worker
  BY DEF Named
<1>1. CASE h'[r] = h[r]
  BY <1>1 DEF Named
<1>2. CASE Goes(r)
  <2>1. LaunchTo(h[r], h'[r]) /\ h[r].step \in Steps
    BY <1>2 DEF Goes, Keeps
  <2>2. h[r].step \in Launches /\ h[r].step # "look" /\ h'[r].worker = h[r].worker
    BY <2>1 DEF LaunchTo, Launches, Early
  <2>3. h'[r].row.name = h[r].row.name
    BY <1>2, <2>1, <2>2, RowFields DEF Goes
  <2> QED
    BY <2>2, <2>3 DEF Named
<1>3. CASE Request(r)
  BY <1>3, Beginnings DEF Spawned, Adopted, Claimed, Launches, Early
<1>4. h'[r].step # "free"
  BY DEF Launches, Early
<1> QED
  BY <1>1, <1>2, <1>3, <1>4, HandlerBefore

\* A launch in its place was there before, unless it has just written its first row.
LEMMA PlacedBefore ==
  ASSUME TypeOK, OverInv, [Next]_vars, NEW q \in Requests, NEW w \in Workers, Placed(q, w)'
  PROVE  /\ LaunchOf(q, w) /\ h[q].step \in Steps
         /\ h'[q].row.pane = h[q].row.pane /\ h'[q].row.term = h[q].row.term
         /\ \/ Placed(q, w)
            \/ h[q].step \in {"record", "route"} /\ row'[w] = h[q].row
<1>o. w \notin overlapped
  BY HistoryGrows DEF Placed
<1>l. h'[q].step \in Launches /\ h'[q].worker = w
  BY DEF Placed, LaunchOf
<1>1. CASE h'[q] = h[q]
  BY <1>o, <1>1 DEF Placed, LaunchOf, Launches, Early, Steps
<1>2. CASE Goes(q)
  <2>1. LaunchTo(h[q], h'[q]) /\ h[q].step \in Steps /\ RowTo(q)
    BY <1>2, <1>l DEF Goes, Keeps
  <2>2. LaunchOf(q, w)
    BY <1>l, <2>1 DEF LaunchTo, LaunchOf, Launches, Early
  <2>3. OwnRow(q)
    BY DEF OverInv
  <2>4. PICK l, m : l = h[q].row /\ m = h'[q].row
    OBVIOUS
  <2>5. /\ h[q].step \notin {"capture", "take"} => m.proc = l.proc
        /\ h[q].step \notin {"tab", "look"} => m.term = l.term /\ m.pane = l.pane
    BY <2>1, <2>4, RowFields
  <2>6. h[q].step \in Early \cup {"confirm", "capture"} => l.proc = 0
    BY <2>3, <2>4 DEF OwnRow
  <2>7. h'[q].step \in {"shell", "start", "confirm", "capture", "commit"} \/ m.proc # 0
    BY <2>4 DEF Placed
  <2>8. h[q].step \notin {"tab", "look"}
    BY <2>1, <2>5, <2>6, <2>7 DEF LaunchTo, Early
  <2>9. CASE h[q].step \in {"record", "route"}
    BY <1>2, <1>l, <2>1, <2>2, <2>4, <2>5, <2>9 DEF Goes, LaunchOf
  <2>10. CASE h[q].step \notin {"record", "route"}
    <3>1. h[q].step \in {"shell", "start", "confirm", "capture", "commit"} \/ l.proc # 0
      BY <2>1, <2>5, <2>7, <2>8, <2>10 DEF LaunchTo
    <3> QED
      BY <1>o, <2>1, <2>2, <2>4, <2>5, <2>8, <3>1 DEF Placed
  <2> QED
    BY <2>9, <2>10
<1>3. ~Request(q)
  <2>1. ASSUME Request(q)
        PROVE  /\ h'[q].step \in {"tab", "record", "look", "inspect"}
               /\ h'[q].step \in {"tab", "record"} => h'[q].row.proc = 0
    BY <2>1, Beginnings DEF Spawned, Adopted, Claimed
  <2> QED
    BY <1>l, <2>1 DEF Placed, Launches, Early
<1>4. h'[q].step # "free"
  BY <1>l DEF Launches, Early
<1> QED
  BY <1>1, <1>2, <1>3, <1>4, HandlerBefore

LEMMA NextInPlace ==
  ASSUME LinkedInv, [Next]_vars, NEW q \in Requests, NEW w \in Workers
  PROVE  InPlace(q, w)'
<1> SUFFICES ASSUME Placed(q, w)'
             PROVE  Owned(w)' /\ row'[w].pane = h'[q].row.pane /\ row'[w].term = h'[q].row.term
  BY DEF InPlace
<1>i. TypeOK /\ LaunchInv /\ OverInv /\ InPlace(q, w)
  BY DEF LinkedInv, GoneInv, LinkInv
<1>1. /\ LaunchOf(q, w) /\ h[q].step \in Steps
      /\ h'[q].row.pane = h[q].row.pane /\ h'[q].row.term = h[q].row.term
      /\ \/ Placed(q, w)
         \/ h[q].step \in {"record", "route"} /\ row'[w] = h[q].row
  BY <1>i, PlacedBefore
<1>2. CASE row'[w] = h[q].row
  <2>1. h[q].row.state \in Standing
    BY <1>i, <1>1, BusyHandler DEF RowIn
  <2> QED
    BY <1>1, <1>2, <2>1 DEF Owned, Standing, Final
<1>3. CASE Placed(q, w)
  <2>1. Owned(w) /\ row[w].pane = h[q].row.pane /\ row[w].term = h[q].row.term
    BY <1>i, <1>3 DEF InPlace
  <2>2. LaunchOf(q, w)' /\ w \notin overlapped'
    BY DEF Placed
  <2>3. CASE row'[w] = row[w]
    BY <1>1, <2>1, <2>3 DEF Owned
  <2>4. CASE Owned(w)' /\ SameEvidence(row'[w], row[w])
    BY <1>1, <2>1, <2>4 DEF SameEvidence
  <2> QED
    BY <1>i, <1>1, <1>2, <2>2, <2>3, <2>4, LaunchedRow
<1> QED
  BY <1>1, <1>2, <1>3

\* Names of processes do not change.
LEMMA NameStays ==
  ASSUME TypeOK, [Next]_vars, NEW b \in Agents
  PROVE  name'[b] = name[b] /\ b \in Agents'
<1>1. Moves /\ Herdr
  BY NextMoves, TypeParts
<1>2. CASE Starting
  <2>1. PICK n \in Names : name' = Append(name, n)
    BY <1>2 DEF Starting, Starts
  <2> QED
    BY <1>1, <2>1, AppendProperties DEF Herdr, Agents
<1>3. CASE Fading \/ Opening \/ Moving
  BY <1>3 DEF Fading, Opening, Moving, Agents
<1> QED
  BY <1>1, <1>2, <1>3 DEF Moves

\* How a worker comes to its process: it had it, its launch found it, or an adoption did.
ClaimKept(v) ==
  /\ Bound(v)
  /\ row'[v].proc = row[v].proc /\ row'[v].name = row[v].name /\ row'[v].term = row[v].term
ByLaunch(x, v) ==
  /\ LaunchOf(x, v) /\ h[x].row.proc # 0 /\ h'[x] # h[x] /\ row' # row
  /\ row'[v].proc = h[x].row.proc /\ row'[v].name = h[x].row.name /\ row'[v].term = h[x].row.term
ByAdoption(x, v) ==
  /\ h[x].step = "bind" /\ h[x].worker = v /\ h'[x] # h[x] /\ row' # row
  /\ row'[v] = h[x].row /\ ~alreadyAdopted(v, h[x].row)

LEMMA ClaimStep ==
  ASSUME LinkedInv, [Next]_vars, NEW v \in Workers, Bound(v)', v \notin overlapped'
  PROVE  ClaimKept(v) \/ \E x \in Requests : ByLaunch(x, v) \/ ByAdoption(x, v)
<1>i. TypeOK /\ OverInv /\ OneSeat /\ GoneInv
  BY DEF LinkedInv, GoneInv, LinkInv
<1>o. v \notin overlapped
  BY HistoryGrows
<1>t. row[v] \in AnyRow
  BY <1>i, TypeParts DEF Tables
<1>b. Owned(v)' /\ row'[v].proc # 0 /\ name'[row'[v].proc] = row'[v].name
  BY DEF Bound
<1>k. ASSUME Owned(v), row'[v].proc = row[v].proc, row'[v].name = row[v].name, row'[v].term = row[v].term
      PROVE  ClaimKept(v)
  <2>1. row[v].proc \in Agents
    BY <1>b, <1>k, <1>t DEF AnyRow, RowIn
  <2>2. name[row[v].proc] = row[v].name
    BY <1>b, <1>i, <1>k, <2>1, NameStays
  <2> QED
    BY <1>b, <1>k, <2>2 DEF ClaimKept, Bound
<1>1. CASE row'[v] = row[v]
  BY <1>b, <1>k, <1>1 DEF Owned
<1>2. CASE row'[v] # row[v] /\ Changes(v)
  <2>1. ASSUME Stays(v), Owned(v) PROVE ClaimKept(v)
    BY <1>k, <2>1 DEF Stays
  <2> QED
    BY <1>i, <1>b, <1>2, <2>1, ChangesKeep
<1>3. ASSUME row'[v] # row[v], NEW x \in Requests, Writes(x, v)
      PROVE  ClaimKept(v) \/ ByLaunch(x, v) \/ ByAdoption(x, v)
  <2>1. h[x].worker = v /\ h[x].step \in Steps /\ OwnRow(x)
    BY <1>3, <1>i DEF Writes, Steps, OverInv
  <2>2. PICK l : l = h[x].row
    OBVIOUS
  <2>3. l \in RowIn(Standing)
    BY <1>i, <2>1, <2>2, BusyHandler
  <2>4. CASE h[x].step \in {"record", "route"} /\ row'[v] = l
    BY <1>b, <2>1, <2>2, <2>4 DEF OwnRow, Early
  <2>5. CASE /\ h[x].step \in {"commit", "failing"} /\ h'[x].step \in {"free", "ending"}
             /\ \/ row'[v] = l \/ \E s : row'[v] = [l EXCEPT !.state = s]
    <3>1. row'[v].proc = l.proc /\ row'[v].name = l.name /\ row'[v].term = l.term
      BY <2>3, <2>5 DEF RowIn
    <3>2. LaunchOf(x, v) /\ h'[x] # h[x] /\ row' # row
      BY <1>3, <2>1, <2>5 DEF LaunchOf, Launches
    <3> QED
      BY <1>b, <2>2, <3>1, <3>2 DEF ByLaunch
  <2>6. CASE h[x].step = "bind" /\ h'[x].step = "free" /\ row'[v] = l /\ ~alreadyAdopted(v, l)
    BY <1>3, <2>1, <2>2, <2>6 DEF ByAdoption
  <2>7. CASE h[x].step = "unsure" /\ row'[v] = [l EXCEPT !.state = "offline"]
    <3>1. h[x].step \in Checked /\ l.proc # 0
      BY <2>1, <2>2, <2>7 DEF OwnRow, Checked
    <3>2. Owned(v) /\ row[v].proc = l.proc /\ row[v].name = l.name
      BY <1>i, <1>o, <2>1, <2>2, <3>1, CheckedOwns
    <3>3. row'[v].proc = l.proc /\ row'[v].name = l.name /\ row'[v].term = l.term
      BY <2>3, <2>7 DEF RowIn
    <3>4. row[v].term = l.term
      <4>1. PICK b, t, u : b = l.proc /\ t = row[v].term /\ u = l.term
        OBVIOUS
      <4>2. b \in Agents /\ t \in Terms \cup {0} /\ u \in Terms \cup {0}
        BY <1>t, <2>3, <3>1, <4>1 DEF AnyRow, RowIn
      <4>3. Seat(b, t) /\ Seat(b, u)
        BY <2>2, <3>2, <4>1 DEF Seat
      <4> QED
        BY <1>i, <4>1, <4>2, <4>3 DEF OneSeat
    <3> QED
      BY <1>k, <3>2, <3>3, <3>4
  <2>8. CASE \/ row'[v] = [l EXCEPT !.state = "released"]
             \/ row'[v] = [row[v] EXCEPT !.state = "released", !.op = x]
    <3>1. row'[v].state = "released"
      BY <1>t, <2>3, <2>8 DEF AnyRow, RowIn
    <3> QED
      BY <1>b, <3>1 DEF Owned, Final
  <2>9. Free.step = "free"
    BY DEF Free
  <2> QED
    BY <1>3, <2>2, <2>4, <2>5, <2>6, <2>7, <2>8, <2>9 DEF Writes
<1> QED
  BY <1>i, <1>1, <1>2, <1>3, RowStep

\* One request at a time writes rows.
LEMMA OneWriter ==
  ASSUME TypeOK, [Next]_vars, NEW x \in Requests, NEW y \in Requests,
         h'[x] # h[x], h'[y] # h[y], row' # row
  PROVE  x = y
<1>1. ~Crash
  BY DEF Crash
<1>2. PICK q \in Requests :
        Request(q) \/ Launch(q) \/ Bind(q) \/ Cleanup(q) \/ End(q) \/ Resolution(q)
  BY <1>1, HandlersStay DEF Next
<1> QED
  BY <1>2, OthersStay

\* Who runs is known, and in its terminal; a process on record has a terminal.
LEMMA Recorded ==
  ASSUME LinkedInv, [Next]_vars, NEW v \in Workers, Bound(v)', NEW x \in Requests,
         row'[v].proc = h[x].row.proc, row'[v].term = h[x].row.term
  PROVE  /\ row'[v].proc \in Agents /\ name[row'[v].proc] = row'[v].name
         /\ row'[v].term \in Terms
<1>i. TypeOK /\ GoneInv /\ GoneInv'
  BY NextGone DEF LinkedInv, GoneInv
<1>b. row'[v].proc # 0 /\ name'[row'[v].proc] = row'[v].name
  BY DEF Bound
<1>1. row'[v].proc \in Agents /\ row'[v].term \in Terms \cup {0}
  BY <1>i, <1>b, KnownRows
<1>2. row'[v].term # 0
  <2>1. RowSafe(row'[v], pane', fg', alive', moved')
    BY <1>i DEF GoneInv, RowsSafe
  <2> QED
    BY <1>b, <2>1 DEF RowSafe, Tied
<1> QED
  BY <1>b, <1>i, <1>1, <1>2, NameStays

\* An adoption finds no other worker in its terminal, unless that moved.
LEMMA AdoptionClear ==
  ASSUME LinkedInv, [Next]_vars, NEW v \in Workers, Bound(v)', NEW x \in Requests, ByAdoption(x, v),
         NEW w \in Workers \ {v}, Owned(w), row[w].term = row'[v].term
  PROVE  row'[v].term \in moved
<1>i. TypeOK /\ OneSpot
  BY DEF LinkedInv, LinkInv, GoneInv
<1>1. PICK l : l = h[x].row
  OBVIOUS
<1>2. PICK t, p, r : t = l.term /\ p = l.pane /\ r = row[w].pane
  OBVIOUS
<1>3. row'[v] = l /\ ~alreadyAdopted(v, l)
  BY <1>1 DEF ByAdoption
<1>4. t \in Terms
  BY <1>1, <1>2, <1>3, Recorded
<1>5. p \in Panes \cup {None} /\ r \in Panes \cup {None}
  BY <1>i, <1>1, <1>2, KnownRows
<1>6. Spot(p, t) /\ Spot(r, t)
  BY <1>1, <1>2, <1>3 DEF Spot
<1>7. r # p
  BY <1>2, <1>3 DEF alreadyAdopted
<1> QED
  BY <1>i, <1>2, <1>3, <1>4, <1>5, <1>6, <1>7 DEF OneSpot

LEMMA NextUnclaimed ==
  ASSUME LinkedInv, [Next]_vars, NEW q \in Requests, NEW w \in Workers
  PROVE  Unclaimed(q, w)'
<1> SUFFICES ASSUME Placed(q, w)', NEW v \in Workers \ {w}, Bound(v)', row'[v].name = w,
                    row'[v].term = h'[q].row.term, v \notin overlapped'
             PROVE  row'[v].term \in moved'
  BY DEF Unclaimed
<1>i. /\ TypeOK /\ LaunchInv /\ OverInv /\ InPlace(q, w) /\ Unclaimed(q, w) /\ moved \subseteq moved'
      /\ \A x \in Requests : Named(x)
  BY NextMoves, MovedGrows DEF LinkedInv, GoneInv, LinkInv
<1>1. /\ LaunchOf(q, w) /\ row'[v].term = h[q].row.term
      /\ Placed(q, w) \/ h[q].step \in {"record", "route"}
  BY <1>i, PlacedBefore
<1>2. ASSUME NEW b \in Agents, name[b] = w PROVE Placed(q, w)
  <2>1. ~NeverRan(w)
    BY <1>2 DEF NeverRan
  <2>2. h[q].step \notin Early
    BY <1>i, <1>1, <2>1 DEF LaunchInv, LaunchSoFar, LaunchOf
  <2> QED
    BY <1>1, <2>2 DEF Early
<1>3. CASE ClaimKept(v)
  <2>1. Bound(v) /\ row[v].name = w /\ row[v].term = row'[v].term
    BY <1>3 DEF ClaimKept
  <2>2. row[v].proc \in Agents /\ name[row[v].proc] = w
    BY <1>i, <2>1, KnownRows DEF Bound
  <2>3. Placed(q, w)
    BY <1>2, <2>2
  <2>4. v \notin overlapped
    BY HistoryGrows
  <2> QED
    BY <1>i, <1>1, <2>1, <2>3, <2>4 DEF Unclaimed
<1>4. ASSUME NEW x \in Requests, ByLaunch(x, v) PROVE FALSE
  BY <1>i, <1>4 DEF ByLaunch, Named, LaunchOf
<1>5. ASSUME NEW x \in Requests, ByAdoption(x, v) PROVE row'[v].term \in moved'
  <2>1. row'[v].proc \in Agents /\ name[row'[v].proc] = w
    BY <1>5, Recorded DEF ByAdoption
  <2>2. Placed(q, w)
    BY <1>2, <2>1
  <2>3. Owned(w) /\ row[w].term = row'[v].term
    BY <1>i, <1>1, <2>2 DEF InPlace
  <2> QED
    BY <1>i, <1>5, <2>3, AdoptionClear
<1> QED
  BY <1>3, <1>4, <1>5, ClaimStep

\* A worker that comes to a process that another one has.
LEMMA Clash ==
  ASSUME LinkedInv, [Next]_vars, NEW v \in Workers, NEW w \in Workers, v # w, Bound(v)', Bound(w)',
         row'[v].proc = row'[w].proc, v \notin overlapped', w \notin overlapped',
         ClaimKept(v), NEW x \in Requests, ByLaunch(x, w) \/ ByAdoption(x, w)
  PROVE  row'[v].term \in moved' /\ row'[w].term \in moved'
<1>i. /\ TypeOK /\ OneSeat /\ Named(x) /\ Unclaimed(x, w) /\ moved \subseteq moved'
      /\ overlapped \subseteq overlapped'
  BY NextMoves, MovedGrows, HistoryGrows DEF LinkedInv, GoneInv, LinkInv
<1>1. PICK l : l = h[x].row
  OBVIOUS
<1>2. row'[w].proc = l.proc /\ row'[w].name = l.name /\ row'[w].term = l.term
  BY <1>1 DEF ByLaunch, ByAdoption
<1>3. l.proc \in Agents /\ name[l.proc] = l.name /\ l.term \in Terms
  BY <1>1, <1>2, Recorded
<1>4. /\ Bound(v) /\ row[v].proc = l.proc /\ row[v].term = row'[v].term
      /\ Owned(v) /\ row[v].name = l.name
  BY <1>2, <1>3 DEF ClaimKept, Bound
<1>5. row[v].term = l.term
  <2>1. PICK b, t, u : b = l.proc /\ t = row[v].term /\ u = l.term
    OBVIOUS
  <2>2. b \in Agents /\ t \in Terms \cup {0} /\ u \in Terms \cup {0}
    BY <1>i, <1>3, <2>1, KnownRows
  <2>3. Seat(b, t) /\ Seat(b, u)
    BY <1>1, <1>4, <2>1 DEF Seat
  <2> QED
    BY <1>i, <2>1, <2>2, <2>3 DEF OneSeat
<1>6. CASE ByLaunch(x, w)
  <2>1. LaunchOf(x, w) /\ l.proc # 0 /\ w \notin overlapped /\ v \notin overlapped
    BY <1>1, <1>6, <1>i DEF ByLaunch
  <2>2. Placed(x, w) /\ l.name = w
    BY <1>1, <1>i, <2>1 DEF Placed, Named, LaunchOf
  <2>3. row[v].term \in moved
    BY <1>1, <1>4, <1>5, <1>i, <2>1, <2>2 DEF Unclaimed
  <2> QED
    BY <1>2, <1>4, <1>5, <1>i, <2>3
<1>7. CASE ByAdoption(x, w)
  <2>1. row'[w].term \in moved
    BY <1>2, <1>4, <1>5, <1>7, AdoptionClear
  <2> QED
    BY <1>2, <1>4, <1>5, <1>i, <2>1
<1> QED
  BY <1>6, <1>7

LEMMA NextOneWorker ==
  ASSUME LinkedInv, [Next]_vars
  PROVE  OneWorkerPerAgent'
<1> SUFFICES ASSUME NEW v \in Workers, NEW w \in Workers, v # w, Bound(v)', Bound(w)',
                    row'[v].proc = row'[w].proc, v \notin overlapped', w \notin overlapped'
             PROVE  row'[v].term \in moved'
  BY DEF OneWorkerPerAgent
<1>i. /\ TypeOK /\ OneWorkerPerAgent /\ moved \subseteq moved' /\ overlapped \subseteq overlapped'
      /\ \A x \in Requests : Named(x)
  BY NextMoves, MovedGrows, HistoryGrows DEF LinkedInv, GoneInv, LinkInv
<1>1. CASE ClaimKept(v) /\ ClaimKept(w)
  <2>1. /\ Bound(v) /\ Bound(w) /\ row[v].proc = row[w].proc /\ row'[v].term = row[v].term
    BY <1>1 DEF ClaimKept
  <2>2. row[v].term \in moved \/ {v, w} \cap overlapped # {}
    BY <1>i, <2>1 DEF OneWorkerPerAgent
  <2> QED
    BY <1>i, <2>1, <2>2
<1>2. ASSUME ClaimKept(v), NEW x \in Requests, ByLaunch(x, w) \/ ByAdoption(x, w)
      PROVE  row'[v].term \in moved'
  BY <1>2, Clash
<1>3. ASSUME ClaimKept(w), NEW x \in Requests, ByLaunch(x, v) \/ ByAdoption(x, v)
      PROVE  row'[v].term \in moved'
  BY <1>3, Clash
<1>4. ASSUME NEW x \in Requests, ByLaunch(x, v) \/ ByAdoption(x, v),
             NEW y \in Requests, ByLaunch(y, w) \/ ByAdoption(y, w)
      PROVE  FALSE
  <2>1. h[x].worker = v /\ h[y].worker = w
    BY <1>4 DEF ByLaunch, ByAdoption, LaunchOf
  <2>2. h'[x] # h[x] /\ h'[y] # h[y] /\ row' # row
    BY <1>4 DEF ByLaunch, ByAdoption
  <2> QED
    BY <1>i, <2>1, <2>2, OneWriter
<1> QED
  BY <1>1, <1>2, <1>3, <1>4, ClaimStep

LEMMA NextLinked == LinkedInv /\ [Next]_vars => LinkedInv'
<1> SUFFICES ASSUME LinkedInv, [Next]_vars PROVE LinkedInv'
  OBVIOUS
<1>i. /\ GoneInv /\ TypeOK /\ LaunchInv /\ OverInv /\ OneSpot /\ OneSeat
      /\ \A r \in Requests : Named(r)
  BY DEF LinkedInv, GoneInv, LinkInv
<1>1. GoneInv' /\ LaunchInv' /\ OverInv'
  BY <1>i, NextGone, NextLaunch, NextOver
<1>2. OneSpot' /\ OneSeat' /\ OneWorkerPerAgent'
  BY <1>i, NextOneSpot, NextOneSeat, NextOneWorker
<1>3. \A r \in Requests : Named(r)'
  BY <1>i, NextNamed
<1>4. \A q \in Requests, w \in Workers : InPlace(q, w)' /\ Unclaimed(q, w)'
  BY NextInPlace, NextUnclaimed
<1> QED
  BY <1>1, <1>2, <1>3, <1>4 DEF LinkedInv, LinkInv

LEMMA InitLinked == Init => LinkedInv
<1> SUFFICES ASSUME Init PROVE LinkedInv
  OBVIOUS
<1>1. obs = NoSample /\ h = [r \in Requests |-> Free]
  BY DEF Init
<1>2. \A r \in Requests : h[r].step = "free" /\ h[r].row.term = 0 /\ h[r].row.proc = 0
  BY <1>1 DEF Free, NoRow
<1>3. /\ \A r \in Requests : Named(r)
      /\ \A q \in Requests, w \in Workers : InPlace(q, w) /\ Unclaimed(q, w)
  BY <1>2 DEF Named, InPlace, Unclaimed, Placed, LaunchOf, Launches, Early
<1>4. OneSpot /\ OneSeat /\ OneWorkerPerAgent
  <2>1. CASE /\ pane = [p \in Panes |-> 0] /\ fg = <<>> /\ name = <<>> /\ alive = {}
             /\ row = [x \in Workers |-> NoRow]
    BY <2>1 DEF OneSpot, OneSeat, OneWorkerPerAgent, Terms, Agents, Bound, Owned, NoRow
  <2>2. ASSUME NEW v \in Workers, NEW p \in Panes,
               pane = [q \in Panes |-> IF q = p THEN 1 ELSE 0],
               fg = << 1 >>, name = << v >>, alive = {1},
               row = [x \in Workers |-> IF x # v THEN NoRow
                                        ELSE [Established EXCEPT !.pane = p, !.name = v]]
        PROVE  OneSpot /\ OneSeat /\ OneWorkerPerAgent
    <3>1. /\ \A w \in Workers : row[w].term # 0 \/ row[w].proc # 0
               => w = v /\ row[w].term = 1 /\ row[w].pane = p
      BY <2>2 DEF NoRow, Established
    <3>2. Terms = {1} /\ Agents = {1} /\ obs.term = 0
      BY <1>1, <2>2 DEF Terms, Agents, NoSample
    <3>3. OneSpot
      <4>1. ASSUME NEW t \in Terms, NEW q, Spot(q, t) PROVE q = p
        BY <1>2, <2>2, <3>1, <3>2, <4>1 DEF Spot
      <4> QED
        BY <4>1 DEF OneSpot
    <3>4. OneSeat
      <4>1. ASSUME NEW b \in Agents, NEW t, Seat(b, t) PROVE t = 1
        BY <1>2, <3>1, <3>2, <4>1 DEF Seat
      <4> QED
        BY <4>1 DEF OneSeat
    <3>5. OneWorkerPerAgent
      BY <3>1 DEF OneWorkerPerAgent, Bound
    <3> QED
      BY <3>3, <3>4, <3>5
  <2>3. \/ /\ pane = [p \in Panes |-> 0] /\ fg = <<>> /\ name = <<>> /\ alive = {}
           /\ row = [x \in Workers |-> NoRow]
        \/ \E v \in Workers, p \in Panes :
             /\ pane = [q \in Panes |-> IF q = p THEN 1 ELSE 0]
             /\ fg = << 1 >> /\ name = << v >> /\ alive = {1}
             /\ row = [x \in Workers |-> IF x # v THEN NoRow
                                         ELSE [Established EXCEPT !.pane = p, !.name = v]]
    BY DEF Init
  <2> QED
    BY <2>1, <2>2, <2>3
<1> QED
  BY <1>3, <1>4, InitGone, InitLaunch, InitOver DEF LinkedInv, LinkInv

\* No agent belongs to two workers, as long as its pane did not move and neither of them was
\* adopted, or declared failed by a person, during its own launch.
THEOREM AgentsHaveOneWorker == Spec => []OneWorkerPerAgent
<1>1. LinkedInv => OneWorkerPerAgent
  BY DEF LinkedInv, LinkInv
<1> QED
  BY <1>1, InitLinked, NextLinked, PTL DEF Spec
=============================================================================
