---------------------------- MODULE ServiceProofs ----------------------------
(***************************************************************************)
(* What holds of Service for every number of clients and daemons, every    *)
(* set of disturbances and every bound: the types, the ownership of the    *)
(* database, that a request takes effect at most once, and that what its   *)
(* client was told is true.                                                *)
(***************************************************************************)
EXTENDS Service, TLAPS

-----------------------------------------------------------------------------
(* Types.                                                                  *)

\* The initial states have the types.
LEMMA InitTypes == Init => TypeOK
<1> SUFFICES ASSUME Init PROVE TypeOK
  OBVIOUS
<1>1. First \in Daemons
  BY ProcessesAssumption DEF First
<1>2. hd \in Handlers /\ told \in [Clients -> Told] /\ receipt \in [Clients -> Receipt]
  BY DEF Init, Handlers, NoHandler, HandlerState, Told, Receipt
<1>3. st \in [Daemons -> DaemonState] /\ pc \in [Clients -> ClientStep]
  BY DEF Init, DaemonState, ClientStep
<1>4. lock \in Daemons \cup Clients \cup {None} /\ sock \in Daemons \cup {None}
  BY <1>1 DEF Init
<1> QED
  BY <1>2, <1>3, <1>4 DEF Init, TypeOK, Attempts

-----------------------------------------------------------------------------
(* The table of handlers: what its updates leave.                          *)

\* A handler moves on, and no other one.
LEMMA StepMoves ==
  ASSUME hd \in Handlers, NEW c \in Clients, NEW i \in Attempts, NEW s \in HandlerState,
         Step(c, i, s)
  PROVE  /\ hd' \in Handlers
         /\ \A e \in Clients, j \in Attempts :
              /\ hd'[e][j].at = hd[e][j].at
              /\ hd'[e][j].st = IF e = c /\ j = i THEN s ELSE hd[e][j].st
<1> DEFINE h == [hd[c][i] EXCEPT !.st = s]
           t == [hd[c] EXCEPT ![i] = h]
<1>1. hd[c] \in [Attempts -> [st: HandlerState, at: Daemons \cup {None}]]
  BY DEF Handlers
<1>2. h \in [st: HandlerState, at: Daemons \cup {None}] /\ h.st = s /\ h.at = hd[c][i].at
  BY <1>1
<1>3. hd' = [hd EXCEPT ![c] = t]
  BY DEF Step
<1>4. t \in [Attempts -> [st: HandlerState, at: Daemons \cup {None}]] /\ t[i] = h
      /\ \A j \in Attempts : j # i => t[j] = hd[c][j]
  BY <1>1, <1>2
<1>5. hd' \in Handlers /\ hd'[c] = t /\ \A e \in Clients : e # c => hd'[e] = hd[e]
  BY <1>3, <1>4 DEF Handlers
<1> QED
  BY <1>2, <1>4, <1>5

\* A request is put in the queue of a listener.
LEMMA SubmitMoves ==
  ASSUME hd \in Handlers, NEW c \in Clients, NEW i \in Attempts, NEW d \in Daemons,
         Submit(c, i, d)
  PROVE  /\ hd' \in Handlers
         /\ \A e \in Clients, j \in Attempts :
              hd'[e][j] = IF e = c /\ j = i THEN [st |-> "queued", at |-> d] ELSE hd[e][j]
<1> DEFINE h == [st |-> "queued", at |-> d]
           t == [hd[c] EXCEPT ![i] = h]
<1>1. hd[c] \in [Attempts -> [st: HandlerState, at: Daemons \cup {None}]]
  BY DEF Handlers
<1>2. h \in [st: HandlerState, at: Daemons \cup {None}]
  BY DEF HandlerState
<1>3. hd' = [hd EXCEPT ![c] = t]
  BY DEF Submit
<1>4. t \in [Attempts -> [st: HandlerState, at: Daemons \cup {None}]] /\ t[i] = h
      /\ \A j \in Attempts : j # i => t[j] = hd[c][j]
  BY <1>1, <1>2
<1>5. hd' \in Handlers /\ hd'[c] = t /\ \A e \in Clients : e # c => hd'[e] = hd[e]
  BY <1>3, <1>4 DEF Handlers
<1> QED
  BY <1>4, <1>5

\* What breaks, breaks; nothing else moves.
LEMMA BreakMoves ==
  ASSUME hd \in Handlers, NEW d, NEW S, Break(d, S)
  PROVE  /\ hd' \in Handlers
         /\ \A e \in Clients, j \in Attempts :
              hd'[e][j].st = "broken" \/ hd'[e][j] = hd[e][j]
<1>1. \A e \in Clients, j \in Attempts :
        /\ hd[e][j] \in [st: HandlerState, at: Daemons \cup {None}]
        /\ [hd[e][j] EXCEPT !.st = "broken"] \in [st: HandlerState, at: Daemons \cup {None}]
        /\ [hd[e][j] EXCEPT !.st = "broken"].st = "broken"
  BY DEF Handlers, HandlerState
<1> QED
  BY <1>1 DEF Break, Handlers

-----------------------------------------------------------------------------
(* Every step keeps the types.                                             *)

\* A daemon that is started is one of them.
LEMMA StartsOne ==
  ASSUME Starts
  PROVE  \E d \in Daemons : Fresh(d) /\ Become(d, "start")
  BY DEF Starts

\* The state of one daemon changes within its type.
LEMMA BecomeTypes ==
  ASSUME TypeOK, NEW d \in Daemons, NEW s \in DaemonState, Become(d, s)
  PROVE  st' \in [Daemons -> DaemonState]
  BY DEF TypeOK, Become

\* The daemon's own steps keep the types.
LEMMA DaemonTypes ==
  ASSUME TypeOK, NEW d \in Daemons, Starting(d) \/ Ending(d) \/ Stop(d) \/ Kill(d)
  PROVE  TypeOK'
<1>1. st' \in [Daemons -> DaemonState]
  BY BecomeTypes, Zenon DEF TypeOK, Starting, Ending, TakeLock, RemoveStale, Listen, CloseListener,
     Unlink, Unlock, Stop, Kill, DaemonState
<1>2. hd' \in Handlers
  BY BreakMoves DEF TypeOK, Starting, Ending, TakeLock, RemoveStale, Listen, CloseListener,
     Unlink, Unlock, Stop, Kill, OnlyDaemon, requestVars
<1>3. lock' \in Daemons \cup Clients \cup {None} /\ sock' \in Daemons \cup {None}
  BY DEF TypeOK, Starting, Ending, TakeLock, RemoveStale, Listen, CloseListener,
     Unlink, Unlock, Stop, Kill
<1>4. UNCHANGED <<boot, pc, rounds, told, conn, receipt, applied, old, by>>
  BY DEF Starting, Ending, TakeLock, RemoveStale, Listen, CloseListener,
     Unlink, Unlock, Stop, Kill, OnlyDaemon, clientVars, requestVars
<1>5. hits' \subseteq Kinds /\ down' \in BOOLEAN
  BY DEF TypeOK, Starting, Ending, TakeLock, RemoveStale, Listen, CloseListener,
     Unlink, Unlock, Stop, Kill, OnlyDaemon, Calm, Disturb
<1> QED
  BY <1>1, <1>2, <1>3, <1>4, <1>5 DEF TypeOK

\* Every step of a handler moves it to some state.
LEMMA HandleSteps ==
  ASSUME TypeOK, NEW c \in Clients, NEW i \in Attempts, Handle(c, i)
  PROVE  \E s \in HandlerState : Step(c, i, s)
<1>1. \A r : answer(r) \in HandlerState
  BY DEF answer, HandlerState
<1> QED
  BY <1>1, Zenon DEF Handle, Take, Look, Reject, Claim, Apply, Finish, Respond, HandlerState

\* The steps of a handler keep the types.
LEMMA HandlerTypes ==
  ASSUME TypeOK, NEW c \in Clients, NEW i \in Attempts, Handle(c, i)
  PROVE  TypeOK'
<1>1. hd' \in Handlers
  BY HandleSteps, StepMoves DEF TypeOK
<1>2. /\ UNCHANGED <<lock, sock, boot, rounds, conn, by, hits>>
      /\ receipt' \in [Clients -> Receipt] /\ applied' \in [Clients -> Nat]
  BY DEF TypeOK, Handle, Take, Look, Reject, Claim, Apply, Finish, Respond, OnlyHandler, Calm,
     daemonVars, clientVars, Receipt
<1>3. CASE Respond(c, i)
  <2>0. hd[c][i].at \in Daemons \cup {None}
    BY DEF TypeOK, Handlers
  <2>1. /\ st' \in [Daemons -> DaemonState] /\ down' \in BOOLEAN
        /\ pc' \in [Clients -> ClientStep] /\ old' \in [Clients -> Daemons \cup {None}]
    BY <1>3, <2>0 DEF TypeOK, Respond, Go, End, DaemonState, ClientStep
  <2>2. told' \in [Clients -> Told]
    BY <1>3 DEF TypeOK, Respond, Go, End, Told
  <2> QED
    BY <1>1, <1>2, <2>1, <2>2 DEF TypeOK
<1>4. CASE ~Respond(c, i)
  <2>1. UNCHANGED <<st, pc, told, old, down>>
    BY <1>4 DEF Handle, Take, Look, Reject, Claim, Apply, Finish, OnlyHandler, Calm, daemonVars,
       clientVars
  <2> QED
    BY <1>1, <1>2, <2>1 DEF TypeOK
<1> QED
  BY <1>3, <1>4

\* The table of handlers after a step of a client.
LEMMA ClientHandlers ==
  ASSUME TypeOK, NEW c \in Clients, Send(c) \/ Client(c) \/ TimeOut(c) \/ Quit(c) \/ Cut(c) \/ Repeat(c)
  PROVE  UNCHANGED hd \/ \E i \in Attempts, d \in Daemons : Submit(c, i, d)
  BY Zenon DEF Send, Client, TimeOut, Quit, Cut, Repeat, Lost, WaitDrain, Ping, LockBootstrap, Probe,
     TryLock, ReleaseLock, Spawn, Await, Resend, Status, GiveUp, OnlyClient, Expire, requestVars,
     Attempts

\* The steps of a client keep the types.
LEMMA ClientTypes ==
  ASSUME TypeOK, NEW c \in Clients,
         Send(c) \/ Client(c) \/ TimeOut(c) \/ Quit(c) \/ Cut(c) \/ Repeat(c)
  PROVE  TypeOK'
<1>1. hd' \in Handlers
  BY ClientHandlers, SubmitMoves DEF TypeOK
<1> USE DEF Go, End, OnlyClient, Calm, Disturb, Drops, Ensured, Expire, daemonVars, requestVars
<1>2. CASE Send(c) \/ Lost(c) \/ WaitDrain(c) \/ Ping(c) \/ LockBootstrap(c) \/ Probe(c)
  BY <1>1, <1>2 DEF TypeOK, Send, Lost, WaitDrain, Ping, LockBootstrap, Probe, ClientStep, Told
<1>3. CASE TryLock(c) \/ ReleaseLock(c) \/ Await(c) \/ Resend(c) \/ Status(c)
  BY <1>1, <1>3 DEF TypeOK, TryLock, ReleaseLock, Await, Resend, Status, ClientStep, Told
<1>4. CASE Spawn(c)
  BY <1>1, <1>4, StartsOne DEF TypeOK, Spawn, Become, ClientStep, DaemonState
<1>5. CASE GiveUp(c) \/ TimeOut(c) \/ Quit(c) \/ Cut(c) \/ Repeat(c)
  BY <1>1, <1>5 DEF TypeOK, GiveUp, TimeOut, Quit, Cut, Repeat, ClientStep, Told, Attempts
<1> QED
  BY <1>2, <1>3, <1>4, <1>5 DEF Client

\* A daemon started by hand keeps the types.
LEMMA StartTypes == TypeOK /\ StartByHand => TypeOK'
  BY StartsOne DEF TypeOK, StartByHand, Become, Disturb, DaemonState, clientVars, requestVars

\* Every step keeps the types.
LEMMA TypesStep == TypeOK /\ [Next]_vars => TypeOK'
<1> SUFFICES ASSUME TypeOK, [Next]_vars PROVE TypeOK'
  OBVIOUS
<1>1. CASE UNCHANGED vars
  BY <1>1 DEF TypeOK, vars
<1>2. CASE Next
  BY <1>2, DaemonTypes, HandlerTypes, ClientTypes, StartTypes DEF Next
<1> QED
  BY <1>1, <1>2

\* Every variable of Service keeps its type.
THEOREM TypeCorrect == Spec => []TypeOK
  BY InitTypes, TypesStep, PTL DEF Spec

-----------------------------------------------------------------------------
(* Ownership. The lock tells who has the database and every step between   *)
(* taking and giving it back leaves it alone; OneOwner alone is not kept   *)
(* by TakeLock or Listen, for it says nothing of the lock.                 *)

Holds == HasDatabase \cup {"owner"}

Ownership ==
  /\ \A d \in Daemons : st[d] \in Holds => lock = d
  /\ \A c \in Clients : pc[c] = "held" => lock = c
  /\ \A d \in Daemons : st[d] \in Accepting => sock = d

\* Whoever has the database holds the one lock.
LEMMA OwnershipImpliesOneOwner == Ownership => OneOwner
  BY DEF Ownership, OneOwner, Holds

\* The initial states.
LEMMA InitOwnership == Init => Ownership
<1> SUFFICES ASSUME Init PROVE Ownership
  OBVIOUS
<1>1. \A d \in Daemons : st[d] \in Holds => d = First /\ st[First] \in HasDatabase
  BY DEF Init, Holds, HasDatabase
<1>2. st[First] \in HasDatabase => lock = First /\ sock = First
  BY ProcessesAssumption DEF Init, First, HasDatabase
<1>3. \A c \in Clients : pc[c] # "held"
  BY DEF Init
<1>4. \A d \in Daemons : st[d] \in Accepting => st[d] \in Holds
  BY DEF Accepting, Holds, HasDatabase
<1> QED
  BY <1>1, <1>2, <1>3, <1>4 DEF Ownership

\* A daemon starts, serves, ends or dies: only Unlock and Kill give the lock away, and
\* nobody else relied on it.
LEMMA DaemonOwnership ==
  ASSUME TypeOK, Ownership, NEW d \in Daemons, Starting(d) \/ Ending(d) \/ Stop(d) \/ Kill(d)
  PROVE  Ownership'
<1> USE ProcessesAssumption DEF Ownership, Holds, HasDatabase, Accepting, Become
<1>1. UNCHANGED pc /\ st \in [Daemons -> DaemonState]
  BY DEF Starting, Ending, TakeLock, RemoveStale, Listen, CloseListener, Unlink, Unlock, Stop,
     Kill, OnlyDaemon, clientVars, TypeOK
<1>2. \A x \in Daemons \ {d} : st'[x] = st[x]
  BY <1>1 DEF Starting, Ending, TakeLock, RemoveStale, Listen, CloseListener, Unlink, Unlock,
     Stop, Kill
<1>3. CASE TakeLock(d)
  BY <1>1, <1>3 DEF TakeLock
<1>4. CASE RemoveStale(d)
  BY <1>1, <1>4 DEF RemoveStale
<1>5. CASE Listen(d)
  BY <1>1, <1>5 DEF Listen
<1>6. CASE CloseListener(d)
  BY <1>1, <1>6 DEF CloseListener
<1>7. CASE Unlink(d)
  BY <1>1, <1>7 DEF Unlink
<1>8. CASE Unlock(d)
  BY <1>1, <1>8 DEF Unlock
<1>9. CASE Stop(d)
  BY <1>1, <1>9 DEF Stop
<1>10. CASE Kill(d)
  BY <1>1, <1>10 DEF Kill
<1> QED
  BY <1>3, <1>4, <1>5, <1>6, <1>7, <1>8, <1>9, <1>10 DEF Starting, Ending

\* A handler leaves lock and socket alone; an answered stop moves a daemon from serving
\* to stopping, and no client to held.
LEMMA HandlerOwnership ==
  ASSUME TypeOK, Ownership, NEW c \in Clients, NEW i \in Attempts, Handle(c, i)
  PROVE  Ownership'
<1>1. UNCHANGED <<lock, sock>>
  BY DEF Handle, Take, Look, Reject, Claim, Apply, Finish, Respond, OnlyHandler, daemonVars
<1>2. \A x \in Clients : pc'[x] = "held" => pc[x] = "held"
  BY DEF Handle, Take, Look, Reject, Claim, Apply, Finish, Respond, OnlyHandler, clientVars, Go,
     End, TypeOK
<1>3. \A d \in Daemons : st'[d] = st[d] \/ (st[d] = "serving" /\ st'[d] = "stopping")
  BY DEF Handle, Take, Look, Reject, Claim, Apply, Finish, Respond, OnlyHandler, daemonVars, TypeOK
<1> QED
  BY <1>1, <1>2, <1>3 DEF Ownership, Holds, HasDatabase, Accepting

\* A client takes the lock when nobody has it and gives back only its own.
LEMMA ClientOwnership ==
  ASSUME TypeOK, Ownership, NEW c \in Clients,
         Send(c) \/ Client(c) \/ TimeOut(c) \/ Quit(c) \/ Cut(c) \/ Repeat(c)
  PROVE  Ownership'
<1> USE ProcessesAssumption
    DEF Ownership, Go, End, Drops, Ensured, Expire, OnlyClient, daemonVars
<1>1. CASE TryLock(c)
  BY <1>1 DEF TryLock, TypeOK, Holds, HasDatabase, Accepting
<1>2. CASE ReleaseLock(c)
  BY <1>2 DEF ReleaseLock, TypeOK
<1>3. CASE Spawn(c)
  <2>1. PICK d \in Daemons : Fresh(d) /\ Become(d, "start")
    BY <1>3, StartsOne DEF Spawn
  <2> QED
    BY <1>3, <2>1 DEF Spawn, Become, TypeOK, Holds, HasDatabase, Accepting
<1>4. CASE GiveUp(c) \/ TimeOut(c) \/ Quit(c)
  BY <1>4 DEF GiveUp, TimeOut, Quit, TypeOK
<1>5. CASE Send(c) \/ Lost(c) \/ WaitDrain(c) \/ Ping(c) \/ LockBootstrap(c) \/ Probe(c)
  BY <1>5 DEF Send, Lost, WaitDrain, Ping, LockBootstrap, Probe, TypeOK
<1>6. CASE Await(c) \/ Resend(c) \/ Status(c) \/ Cut(c) \/ Repeat(c)
  BY <1>6 DEF Await, Resend, Status, Cut, Repeat, TypeOK
<1> QED
  BY <1>1, <1>2, <1>3, <1>4, <1>5, <1>6 DEF Client

\* A daemon that is only started has nothing yet.
LEMMA StartOwnership == TypeOK /\ Ownership /\ StartByHand => Ownership'
<1> SUFFICES ASSUME TypeOK, Ownership, StartByHand PROVE Ownership'
  OBVIOUS
<1>1. PICK d \in Daemons : Fresh(d) /\ Become(d, "start")
  BY StartsOne DEF StartByHand
<1> QED
  BY <1>1 DEF StartByHand, Become, TypeOK, Ownership, Holds, HasDatabase, Accepting, clientVars

\* Every step keeps the ownership.
LEMMA OwnershipStep == TypeOK /\ Ownership /\ [Next]_vars => Ownership'
<1> SUFFICES ASSUME TypeOK, Ownership, [Next]_vars PROVE Ownership'
  OBVIOUS
<1>1. CASE UNCHANGED vars
  BY <1>1 DEF Ownership, vars
<1>2. CASE Next
  BY <1>2, DaemonOwnership, HandlerOwnership, ClientOwnership, StartOwnership DEF Next
<1> QED
  BY <1>1, <1>2

\* At most one process has the database, and the daemon that serves is the one the
\* socket path names, whoever starts, probes, stops, drains or dies.
THEOREM OneOwnerHolds == Spec => []OneOwner
  BY InitOwnership, TypeCorrect, OwnershipImpliesOneOwner, OwnershipStep, PTL DEF Spec

-----------------------------------------------------------------------------
(* Effects. A request is claimed under the lock of the receipts only while *)
(* it has none, so at most one handler of it ever executes, and only one   *)
(* that has not taken effect is about to.                                  *)

Executes(c, i) == hd[c][i].st \in Executing

Effects ==
  \A c \in Clients :
    /\ applied[c] \in {0, 1}
    /\ receipt[c] = "none" => applied[c] = 0 /\ \A i \in Attempts : ~Executes(c, i)
    /\ \A i \in Attempts : hd[c][i].st = "apply" => applied[c] = 0
    /\ \A i, j \in Attempts : Executes(c, i) /\ Executes(c, j) => i = j

\* A step that touches neither receipts nor effects, and starts no handler, keeps them.
LEMMA EffectsStay ==
  ASSUME Effects, UNCHANGED <<receipt, applied>>,
         \A c \in Clients, i \in Attempts :
           hd'[c][i].st \in Executing => hd'[c][i].st = hd[c][i].st
  PROVE  Effects'
  BY DEF Effects, Executes, Executing

\* Daemons end handlers; they start none.
LEMMA DaemonEffects ==
  ASSUME TypeOK, Effects, NEW d \in Daemons, Starting(d) \/ Ending(d) \/ Stop(d) \/ Kill(d)
  PROVE  Effects'
<1>1. UNCHANGED <<receipt, applied>>
  BY DEF Starting, Ending, TakeLock, RemoveStale, Listen, CloseListener, Unlink, Unlock, Stop,
     Kill, OnlyDaemon, requestVars
<1>2. UNCHANGED hd \/ \E S : Break(d, S)
  BY DEF Starting, Ending, TakeLock, RemoveStale, Listen, CloseListener, Unlink, Unlock, Stop,
     Kill, OnlyDaemon, requestVars
<1>3. \A c \in Clients, i \in Attempts :
        hd'[c][i].st \in Executing => hd'[c][i].st = hd[c][i].st
  BY <1>2, BreakMoves DEF TypeOK, Executing
<1> QED
  BY <1>1, <1>3, EffectsStay

\* Clients submit requests; a submitted one does not execute yet.
LEMMA ClientEffects ==
  ASSUME TypeOK, Effects, NEW c \in Clients,
         Send(c) \/ Client(c) \/ TimeOut(c) \/ Quit(c) \/ Cut(c) \/ Repeat(c)
  PROVE  Effects'
<1>1. UNCHANGED <<receipt, applied>>
  BY DEF Send, Client, TimeOut, Quit, Cut, Repeat, Lost, WaitDrain, Ping, LockBootstrap, Probe,
     TryLock, ReleaseLock, Spawn, Await, Resend, Status, GiveUp, OnlyClient, Expire, requestVars
<1>2. \A e \in Clients, i \in Attempts :
        hd'[e][i].st \in Executing => hd'[e][i].st = hd[e][i].st
  <2>1. CASE UNCHANGED hd
    BY <2>1
  <2>2. ASSUME NEW i \in Attempts, NEW d \in Daemons, Submit(c, i, d)
        PROVE  \A e \in Clients, j \in Attempts :
                 hd'[e][j].st \in Executing => hd'[e][j].st = hd[e][j].st
    <3> TAKE e \in Clients, j \in Attempts
    <3>1. hd'[e][j] = IF e = c /\ j = i THEN [st |-> "queued", at |-> d] ELSE hd[e][j]
      BY <2>2, SubmitMoves DEF TypeOK
    <3>2. CASE e = c /\ j = i
      <4>1. hd'[e][j] = [st |-> "queued", at |-> d]
        BY <3>1, <3>2
      <4>2. hd'[e][j].st = "queued"
        BY <4>1
      <4> QED
        BY <4>2 DEF Executing
    <3>3. CASE ~(e = c /\ j = i)
      <4>1. hd'[e][j] = hd[e][j]
        BY <3>1, <3>3
      <4> QED
        BY <4>1
    <3> QED
      BY <3>2, <3>3
  <2>3. UNCHANGED hd \/ \E i \in Attempts, d \in Daemons : Submit(c, i, d)
    BY ClientHandlers
  <2> QED
    BY <2>1, <2>2, <2>3, Zenon
<1> QED
  BY <1>1, <1>2, EffectsStay

\* The steps of a handler: Claim needs an empty receipt, Apply the claim.
LEMMA HandlerEffects ==
  ASSUME TypeOK, Effects, NEW c \in Clients, NEW i \in Attempts, Handle(c, i)
  PROVE  Effects'
<1>1. ASSUME NEW s \in HandlerState, Step(c, i, s)
      PROVE  \A e \in Clients, j \in Attempts :
               hd'[e][j].st = IF e = c /\ j = i THEN s ELSE hd[e][j].st
  BY <1>1, StepMoves DEF TypeOK
<1>2. \A r : answer(r) \in HandlerState \ Executing
  BY DEF answer, HandlerState, Executing
<1>3. CASE Take(c, i) \/ Look(c, i) \/ Reject(c, i) \/ Respond(c, i)
  <2>1. /\ UNCHANGED <<receipt, applied>>
        /\ \E s \in HandlerState \ Executing : Step(c, i, s)
    BY <1>2, <1>3, Zenon DEF Take, Look, Reject, Respond, OnlyHandler, HandlerState,
       Executing
  <2> QED
    BY <1>1, <2>1, EffectsStay
<1>4. CASE Claim(c, i)
  <2>1. \/ /\ UNCHANGED <<receipt, applied>>
           /\ \E s \in HandlerState \ Executing : Step(c, i, s)
        \/ /\ receipt[c] = "none" /\ receipt' = [receipt EXCEPT ![c] = "accepted"]
           /\ UNCHANGED applied /\ Step(c, i, "apply")
    BY <1>2, <1>4, Zenon DEF Claim, HandlerState, Executing
  <2>2. CASE \E s \in HandlerState \ Executing : UNCHANGED <<receipt, applied>> /\ Step(c, i, s)
    BY <1>1, <2>2, EffectsStay
  <2>3. CASE /\ receipt[c] = "none" /\ receipt' = [receipt EXCEPT ![c] = "accepted"]
             /\ UNCHANGED applied /\ Step(c, i, "apply")
    <3>1. \A e \in Clients, j \in Attempts :
            hd'[e][j].st = IF e = c /\ j = i THEN "apply" ELSE hd[e][j].st
      BY <1>1, <2>3 DEF HandlerState
    <3>2. \A e \in Clients : receipt'[e] = IF e = c THEN "accepted" ELSE receipt[e]
      BY <2>3 DEF TypeOK
    <3> QED
      BY <2>3, <3>1, <3>2 DEF Effects, Executes, Executing
  <2> QED
    BY <2>1, <2>2, <2>3
<1>5. CASE Apply(c, i)
  <2>1. ASSUME NEW s \in {"done", "uncertain"}, Step(c, i, s),
               applied' = [applied EXCEPT ![c] = @ + 1]
        PROVE  Effects'
    <3>1. \A e \in Clients, j \in Attempts :
            hd'[e][j].st = IF e = c /\ j = i THEN s ELSE hd[e][j].st
      BY <1>1, <2>1 DEF HandlerState
    <3>2. applied[c] = 0 /\ Executes(c, i) /\ UNCHANGED receipt
      BY <1>5 DEF Apply, Effects, Executes, Executing
    <3>3. \A e \in Clients : applied'[e] = IF e = c THEN 1 ELSE applied[e]
      BY <2>1, <3>2 DEF TypeOK
    <3> QED
      BY <2>1, <3>1, <3>2, <3>3 DEF Effects, Executes, Executing
  <2>2. ASSUME NEW s \in {"refused", "uncertain"}, Step(c, i, s), UNCHANGED applied
        PROVE  Effects'
    <3>1. \A e \in Clients, j \in Attempts :
            hd'[e][j].st = IF e = c /\ j = i THEN s ELSE hd[e][j].st
      BY <1>1, <2>2 DEF HandlerState
    <3>2. Executes(c, i) /\ UNCHANGED <<receipt, applied>>
      BY <1>5, <2>2 DEF Apply, Executes, Executing
    <3> QED
      BY <2>2, <3>1, <3>2 DEF Effects, Executes, Executing
  <2> QED
    BY <1>5, <2>1, <2>2 DEF Apply
<1>6. CASE Finish(c, i)
  <2>1. PICK r \in {"completed", "failed"} :
          receipt' = [receipt EXCEPT ![c] = r] /\ Step(c, i, answer(r)) /\ UNCHANGED applied
    BY <1>6 DEF Finish
  <2> QED
    <3>1. \A e \in Clients, j \in Attempts :
            hd'[e][j].st = IF e = c /\ j = i THEN answer(r) ELSE hd[e][j].st
      BY <1>1, <1>2, <2>1
    <3>2. \A e \in Clients : receipt'[e] = IF e = c THEN r ELSE receipt[e]
      BY <2>1 DEF TypeOK
    <3> QED
      BY <1>2, <2>1, <3>1, <3>2 DEF Effects, Executes, Executing
<1> QED
  BY <1>3, <1>4, <1>5, <1>6 DEF Handle

\* The initial states: nothing was sent.
LEMMA InitEffects == Init => Effects
  BY DEF Init, Effects, Executes, Executing, NoHandler

\* Every step keeps the effects.
LEMMA EffectsStep == TypeOK /\ Effects /\ [Next]_vars => Effects'
<1> SUFFICES ASSUME TypeOK, Effects, [Next]_vars PROVE Effects'
  OBVIOUS
<1>1. CASE UNCHANGED vars
  BY <1>1 DEF Effects, Executes, vars
<1>2. CASE StartByHand
  BY <1>2 DEF StartByHand, requestVars, Effects, Executes
<1>3. CASE Next /\ ~StartByHand
  BY <1>3, DaemonEffects, HandlerEffects, ClientEffects DEF Next
<1> QED
  BY <1>1, <1>2, <1>3

\* A request takes effect at most once, however often it is sent and whatever daemons
\* it meets.
THEOREM AppliedOnceHolds == Spec => []AppliedOnce
<1>1. Effects => AppliedOnce
  BY DEF Effects, AppliedOnce
<1> QED
  BY TypeCorrect, InitEffects, EffectsStep, <1>1, PTL DEF Spec

-----------------------------------------------------------------------------
(* Answers. What a handler is about to answer, and what a client was told, *)
(* follows from the receipt; what a client was not told, from where its    *)
(* request got to.                                                         *)

\* Receipts. Only an accepted request executes; the receipt becomes final with what the
\* execution came to, and a handler answers what it says.
ReceiptInv(c) ==
  /\ \A i \in Attempts :
       /\ Executes(c, i) => receipt[c] = "accepted"
       /\ hd[c][i].st = "done" => applied[c] = 1
       /\ hd[c][i].st = "refused" => applied[c] = 0
       /\ hd[c][i].st = "ok" => receipt[c] = "completed"
       /\ hd[c][i].st = "failed" => receipt[c] = "failed"
  /\ receipt[c] = "completed" => applied[c] = 1
  /\ receipt[c] = "failed" => applied[c] = 0

\* Handlers that run have a daemon that serves, or waits for them.
PlaceInv ==
  \A c \in Clients, i \in Attempts :
    hd[c][i].st \in Running => /\ hd[c][i].at \in Daemons
                               /\ st[hd[c][i].at] \in {"serving", "stopping", "drain"}

\* Where a caller has not sent its request yet.
Untried == {"idle", "call"} \cup Ensuring
Unsent(c) == \A i \in Attempts : hd[c][i].st = "none"

\* Clients. Who has been told something is at the end, and was told what the receipt says;
\* who was told "unavailable" never sent anything.
CallInv(c) ==
  /\ told[c] # "none" => pc[c] = "end"
  /\ conn[c] = 1 => hd[c][2].st = "none"
  /\ Unsent(c) => receipt[c] = "none"
  /\ pc[c] = "idle" => Unsent(c) /\ conn[c] = 1
  /\ c \in Callers =>
       /\ pc[c] # "drained"
       /\ pc[c] \in Untried => Unsent(c) /\ conn[c] = 1
       /\ told[c] = "unavailable" => Unsent(c)
       /\ told[c] = "ok" => receipt[c] = "completed"
       /\ told[c] = "failed" => receipt[c] = "failed"

\* A daemon that acknowledged its stop serves no more once the restarter has seen it gone.
OldInv(c) ==
  /\ old[c] # None => st[old[c]] \in {"stopping", "drain", "closing", "off"}
  /\ c \in Restarters /\ old[c] # None /\ pc[c] \in Ensuring \cup {"call"} =>
       st[old[c]] \in {"drain", "closing", "off"}
  /\ c \in Restarters /\ told[c] = "ok" => by[c] # old[c]

\* As long as nobody is killed and nothing cut, only what waited in a queue breaks: a
\* request with a receipt has a handler, or an answer, on the connection in use.
Unhurt == hits \cap {"kill", "cut"} = {}
UnhurtInv(c) ==
  Unhurt =>
    /\ \A i \in Attempts : i # conn[c] => hd[c][i].st \in {"none", "broken"}
    /\ receipt[c] # "none" => hd[c][conn[c]].st \notin {"none", "queued", "broken"}
    /\ told[c] = "unknown" => hd[c][conn[c]].st = "broken"

\* Who did not repeat the request, or repeated it after a connection that was lost and not
\* cut off, has only the handler of that connection: it alone could write a receipt, so that
\* one that claims or is rejected has none, and none follows.
Whole(c) == conn[c] = 1 \/ "cut" \notin hits
WholeInv(c) ==
  Whole(c) =>
    /\ \A i \in Attempts : i # conn[c] => hd[c][i].st \in {"none", "broken"}
    /\ hd[c][conn[c]].st \in {"claim", "rejected"} => receipt[c] = "none"
    /\ told[c] = "rejected" => receipt[c] = "none" /\ hd[c][conn[c]].st = "over"
    /\ "cut" \notin hits /\ told[c] = "unknown" => hd[c][conn[c]].st = "broken"

\* A step that touches neither receipts nor effects keeps ReceiptInv if no handler comes to
\* execute or to answer by it.
LEMMA ReceiptsStay ==
  ASSUME NEW c \in Clients, ReceiptInv(c), receipt'[c] = receipt[c], applied'[c] = applied[c],
         \A i \in Attempts :
           hd'[c][i].st \in Executing \cup {"ok", "failed"} => hd'[c][i].st = hd[c][i].st
  PROVE  ReceiptInv(c)'
  BY DEF ReceiptInv, Executes, Executing

\* What breaks is at one daemon and in the states given.
LEMMA BreakStates ==
  ASSUME hd \in Handlers, NEW d, NEW S, Break(d, S)
  PROVE  \A e \in Clients, j \in Attempts :
           /\ hd'[e][j].at = hd[e][j].at
           /\ hd'[e][j].st = IF hd[e][j].at = d /\ hd[e][j].st \in S THEN "broken"
                             ELSE hd[e][j].st
<1>1. \A e \in Clients, j \in Attempts :
        /\ hd[e][j] \in [st: HandlerState, at: Daemons \cup {None}]
        /\ [hd[e][j] EXCEPT !.st = "broken"].st = "broken"
        /\ [hd[e][j] EXCEPT !.st = "broken"].at = hd[e][j].at
  BY DEF Handlers, HandlerState
<1> QED
  BY <1>1 DEF Break

\* The table of handlers after a step of a daemon.
LEMMA DaemonBreaks ==
  ASSUME TypeOK, NEW d \in Daemons, Starting(d) \/ Ending(d) \/ Stop(d) \/ Kill(d)
  PROVE  /\ hd' \in Handlers
         /\ \A e \in Clients, j \in Attempts :
              /\ hd'[e][j].at = hd[e][j].at
              /\ \/ hd'[e][j].st = hd[e][j].st
                 \/ /\ hd'[e][j].st = "broken" /\ hd[e][j].at = d
                    /\ \/ CloseListener(d) /\ hd[e][j].st = "queued"
                       \/ (Unlock(d) \/ Kill(d)) /\ hd[e][j].st \in Running
<1>1. CASE CloseListener(d)
  BY <1>1, BreakStates, BreakMoves DEF CloseListener, TypeOK
<1>2. CASE Unlock(d) \/ Kill(d)
  BY <1>2, BreakStates, BreakMoves DEF Unlock, Kill, TypeOK
<1>3. CASE Starting(d) \/ Unlink(d) \/ Stop(d)
  <2>1. UNCHANGED hd
    BY <1>3 DEF Starting, TakeLock, RemoveStale, Listen, Unlink, Stop, OnlyDaemon, requestVars
  <2> QED
    BY <2>1 DEF TypeOK
<1> QED
  BY <1>1, <1>2, <1>3 DEF Ending

\* What a daemon's step leaves alone.
LEMMA DaemonLeaves ==
  ASSUME TypeOK, NEW d \in Daemons, Starting(d) \/ Ending(d) \/ Stop(d) \/ Kill(d)
  PROVE  /\ UNCHANGED <<boot, pc, rounds, told, conn, receipt, applied, old, by>>
         /\ \A x \in Daemons \ {d} : st'[x] = st[x]
<1>1. UNCHANGED <<boot, pc, rounds, told, conn, receipt, applied, old, by>>
  BY DEF Starting, Ending, TakeLock, RemoveStale, Listen, CloseListener,
     Unlink, Unlock, Stop, Kill, OnlyDaemon, clientVars, requestVars
<1>2. \A x \in Daemons \ {d} : st'[x] = st[x]
  BY DEF Starting, Ending, TakeLock, RemoveStale, Listen, CloseListener, Unlink, Unlock,
     Stop, Kill, Become, TypeOK
<1> QED
  BY <1>1, <1>2

\* Daemons keep the receipts.
LEMMA DaemonReceipts ==
  ASSUME TypeOK, NEW d \in Daemons, Starting(d) \/ Ending(d) \/ Stop(d) \/ Kill(d),
         NEW c \in Clients, ReceiptInv(c)
  PROVE  ReceiptInv(c)'
  BY DaemonBreaks, DaemonLeaves, ReceiptsStay DEF Executing

\* A client puts a request in a queue, or leaves the handlers alone.
LEMMA ClientSubmits ==
  ASSUME TypeOK, NEW c \in Clients,
         Send(c) \/ Client(c) \/ TimeOut(c) \/ Quit(c) \/ Cut(c) \/ Repeat(c)
  PROVE  /\ UNCHANGED <<receipt, applied>>
         /\ \A e \in Clients, j \in Attempts :
              \/ hd'[e][j].at = hd[e][j].at /\ hd'[e][j].st = hd[e][j].st
              \/ e = c /\ hd'[e][j].st = "queued"
<1>1. UNCHANGED <<receipt, applied>>
  BY DEF Send, Client, TimeOut, Quit, Cut, Repeat, Lost, WaitDrain, Ping, LockBootstrap, Probe,
     TryLock, ReleaseLock, Spawn, Await, Resend, Status, GiveUp, OnlyClient, Expire, requestVars
<1>2. ASSUME NEW i \in Attempts, NEW d \in Daemons, Submit(c, i, d),
             NEW e \in Clients, NEW j \in Attempts
      PROVE  \/ hd'[e][j].at = hd[e][j].at /\ hd'[e][j].st = hd[e][j].st
             \/ e = c /\ hd'[e][j].st = "queued"
  <2>1. hd'[e][j] = IF e = c /\ j = i THEN [st |-> "queued", at |-> d] ELSE hd[e][j]
    BY <1>2, SubmitMoves DEF TypeOK
  <2>2. [st |-> "queued", at |-> d].st = "queued"
    OBVIOUS
  <2>3. CASE e = c /\ j = i
    BY <2>1, <2>2, <2>3
  <2>4. CASE ~(e = c /\ j = i)
    BY <2>1, <2>4
  <2> QED
    BY <2>3, <2>4
<1> QED
  BY <1>1, <1>2, ClientHandlers, Zenon

\* Clients keep the receipts.
LEMMA ClientReceipts ==
  ASSUME TypeOK, NEW e \in Clients,
         Send(e) \/ Client(e) \/ TimeOut(e) \/ Quit(e) \/ Cut(e) \/ Repeat(e),
         NEW c \in Clients, ReceiptInv(c)
  PROVE  ReceiptInv(c)'
<1>1. /\ UNCHANGED <<receipt, applied>>
      /\ \A j \in Attempts : hd'[c][j].st = hd[c][j].st \/ hd'[c][j].st = "queued"
  BY ClientSubmits
<1> QED
  BY <1>1, ReceiptsStay DEF Executing

\* Handlers keep the receipts: only the one that executes makes one final, and it alone
\* answers by it.
LEMMA HandlerReceipts ==
  ASSUME TypeOK, Effects, NEW e \in Clients, NEW i \in Attempts, Handle(e, i),
         NEW c \in Clients, ReceiptInv(c)
  PROVE  ReceiptInv(c)'
<1>1. ASSUME NEW s \in HandlerState, Step(e, i, s)
      PROVE  \A j \in Attempts : hd'[c][j].st = IF c = e /\ j = i THEN s ELSE hd[c][j].st
  BY <1>1, StepMoves DEF TypeOK
<1>2. CASE c # e
  <2>1. \A j \in Attempts : hd'[c][j].st = hd[c][j].st
    BY <1>1, <1>2, HandleSteps
  <2>2. receipt'[c] = receipt[c] /\ applied'[c] = applied[c]
    BY <1>2 DEF TypeOK, Handle, Take, Look, Reject, Claim, Apply, Finish, Respond, OnlyHandler
  <2> QED
    BY <2>1, <2>2, ReceiptsStay
<1>3. CASE c = e /\ (Take(e, i) \/ Reject(e, i) \/ Respond(e, i))
  <2>1. UNCHANGED <<receipt, applied>> /\ \E s \in {"look", "rejected", "over"} : Step(c, i, s)
    BY <1>3 DEF Take, Reject, Respond, OnlyHandler
  <2>2. \A j \in Attempts :
          hd'[c][j].st \in {"look", "rejected", "over"} \/ hd'[c][j].st = hd[c][j].st
    BY <1>1, <1>3, <2>1 DEF HandlerState
  <2> QED
    BY <2>1, <2>2, ReceiptsStay DEF Executing
<1>4. ASSUME NEW s \in HandlerState, Step(c, i, s), c = e, UNCHANGED <<receipt, applied>>,
             s = answer(receipt[c]) \/ s \in {"claim", "uncertain"}
      PROVE  ReceiptInv(c)'
  <2>1. \A j \in Attempts : hd'[c][j].st = IF j = i THEN s ELSE hd[c][j].st
    BY <1>1, <1>4
  <2>2. s \notin Executing /\ (s = "ok" => receipt[c] = "completed")
        /\ (s = "failed" => receipt[c] = "failed") /\ s \notin {"done", "refused"}
    BY <1>4 DEF answer, Executing
  <2> QED
    BY <1>4, <2>1, <2>2 DEF ReceiptInv, Executes, Executing
<1>5. \A r : answer(r) \in HandlerState
  BY DEF answer, HandlerState
<1>6. CASE c = e /\ Look(e, i)
  BY <1>4, <1>5, <1>6 DEF Look, OnlyHandler, HandlerState
<1>7. CASE c = e /\ Claim(e, i)
  <2>1. CASE /\ receipt[c] = "none" /\ receipt' = [receipt EXCEPT ![c] = "accepted"]
             /\ UNCHANGED applied /\ Step(c, i, "apply")
    <3>1. \A j \in Attempts : hd'[c][j].st = IF j = i THEN "apply" ELSE hd[c][j].st
      BY <1>1, <1>7, <2>1 DEF HandlerState
    <3>2. receipt'[c] = "accepted" /\ applied'[c] = applied[c]
      BY <2>1 DEF TypeOK
    <3>3. \A j \in Attempts : ~Executes(c, j) /\ hd[c][j].st \notin {"ok", "failed"}
      BY <2>1 DEF Effects, ReceiptInv
    <3> QED
      BY <3>1, <3>2, <3>3 DEF ReceiptInv, Executes, Executing
  <2> QED
    BY <1>4, <1>5, <1>7, <2>1 DEF Claim, OnlyHandler, HandlerState
<1>8. CASE c = e /\ Apply(e, i)
  <2>1. PICK s \in {"done", "refused", "uncertain"} :
          /\ Step(c, i, s) /\ UNCHANGED receipt
          /\ s = "done" => applied' = [applied EXCEPT ![c] = @ + 1]
          /\ s = "refused" => UNCHANGED applied
          /\ applied' \in {applied, [applied EXCEPT ![c] = @ + 1]}
    BY <1>8 DEF Apply, OnlyHandler
  <2>2. \A j \in Attempts : hd'[c][j].st = IF j = i THEN s ELSE hd[c][j].st
    BY <1>1, <1>8, <2>1 DEF HandlerState
  <2>3. Executes(c, i) /\ applied[c] = 0 /\ receipt[c] = "accepted"
    BY <1>8 DEF Apply, Effects, Executes, Executing, ReceiptInv
  <2>4. (s = "done" => applied'[c] = 1) /\ (s = "refused" => applied'[c] = 0)
    BY <2>1, <2>3 DEF TypeOK
  <2>5. \A j \in Attempts : j # i => ~Executes(c, j)
    BY <2>3 DEF Effects
  <2> QED
    BY <2>1, <2>2, <2>3, <2>4, <2>5 DEF ReceiptInv, Executes, Executing
<1>9. CASE c = e /\ Finish(e, i)
  <2>1. PICK r \in {"completed", "failed"} :
          /\ receipt' = [receipt EXCEPT ![c] = r] /\ Step(c, i, answer(r)) /\ UNCHANGED applied
          /\ r = IF hd[c][i].st = "done" THEN "completed" ELSE "failed"
    BY <1>9 DEF Finish
  <2>2. hd[c][i].st \in {"done", "refused"}
    BY <1>9 DEF Finish
  <2>3. \A j \in Attempts : hd'[c][j].st = IF j = i THEN answer(r) ELSE hd[c][j].st
    BY <1>1, <1>5, <1>9, <2>1
  <2>4. Executes(c, i) /\ receipt[c] = "accepted"
    BY <2>2 DEF Executes, Executing, ReceiptInv
  <2>5. \A j \in Attempts : j # i => ~Executes(c, j) /\ hd[c][j].st \notin {"ok", "failed"}
    BY <2>4 DEF Effects, ReceiptInv
  <2>6. /\ receipt'[c] = r /\ applied'[c] = applied[c]
        /\ r = "completed" => applied[c] = 1
        /\ r = "failed" => applied[c] = 0
    BY <2>1, <2>2 DEF TypeOK, ReceiptInv
  <2>7. answer(r) \in {"ok", "failed"} /\ (answer(r) = "ok" <=> r = "completed")
    BY <2>1 DEF answer
  <2> QED
    BY <2>1, <2>3, <2>5, <2>6, <2>7 DEF ReceiptInv, Executes, Executing
<1> QED
  BY <1>2, <1>3, <1>6, <1>7, <1>8, <1>9 DEF Handle

-----------------------------------------------------------------------------
(* Handlers that run are at a daemon that serves them or waits for them.   *)

\* A daemon goes on only when its handlers have ended, or ends them.
LEMMA DaemonPlace ==
  ASSUME TypeOK, PlaceInv, NEW d \in Daemons, Starting(d) \/ Ending(d) \/ Stop(d) \/ Kill(d)
  PROVE  PlaceInv'
<1> SUFFICES ASSUME NEW c \in Clients, NEW i \in Attempts, hd'[c][i].st \in Running
             PROVE  /\ hd'[c][i].at \in Daemons
                    /\ st'[hd'[c][i].at] \in {"serving", "stopping", "drain"}
  BY DEF PlaceInv
<1>1. hd'[c][i].at = hd[c][i].at /\ hd'[c][i].st = hd[c][i].st
  BY DaemonBreaks DEF Running
<1>2. hd[c][i].at \in Daemons /\ st[hd[c][i].at] \in {"serving", "stopping", "drain"}
  BY <1>1 DEF PlaceInv
<1>3. CASE hd[c][i].at # d
  BY <1>1, <1>2, <1>3, DaemonLeaves
<1>4. CASE hd[c][i].at = d
  <2>1. ~Unlink(d)
    BY <1>1, <1>4 DEF Unlink, Drained
  <2>2. ~Kill(d)
    <3>1. SUFFICES ASSUME Kill(d) PROVE FALSE
      OBVIOUS
    <3>2. hd \in Handlers /\ Break(d, Running)
      BY <3>1 DEF Kill, TypeOK
    <3>3. hd'[c][i].st = "broken"
      BY <1>1, <1>4, <3>2, BreakStates
    <3> QED
      BY <3>3 DEF Running
  <2>3. Stop(d) \/ CloseListener(d)
    BY <1>2, <1>4, <2>1, <2>2 DEF Starting, Ending, TakeLock, RemoveStale, Listen, Unlock
  <2>4. st'[d] \in {"stopping", "drain"}
    BY <2>3 DEF Stop, CloseListener, Become, TypeOK
  <2> QED
    BY <1>1, <1>2, <1>4, <2>4
<1> QED
  BY <1>3, <1>4

\* A stop that is answered leaves the daemon where it still waits for its handlers.
LEMMA HandlerMovesDaemon ==
  ASSUME TypeOK, NEW e \in Clients, NEW i \in Attempts, Handle(e, i)
  PROVE  /\ UNCHANGED <<lock, sock, boot, rounds, conn, by, hits>>
         /\ \/ UNCHANGED <<st, down>>
            \/ /\ Respond(e, i) /\ down' = TRUE /\ st[hd[e][i].at] = "serving"
               /\ st' = [st EXCEPT ![hd[e][i].at] = "stopping"]
         /\ hd[e][i].st \in Running
<1>1. CASE Respond(e, i)
  BY <1>1 DEF Respond, TypeOK, Running, HandlerState
<1>2. CASE ~Respond(e, i)
  BY <1>2 DEF Handle, Take, Look, Reject, Claim, Apply, Finish, OnlyHandler, Calm, daemonVars,
     clientVars, Running, HandlerState
<1> QED
  BY <1>1, <1>2

\* A handler's step leaves it at a daemon that waits for it.
LEMMA HandlerPlace ==
  ASSUME TypeOK, PlaceInv, NEW e \in Clients, NEW i \in Attempts, Handle(e, i)
  PROVE  PlaceInv'
<1> SUFFICES ASSUME NEW c \in Clients, NEW j \in Attempts, hd'[c][j].st \in Running
             PROVE  /\ hd'[c][j].at \in Daemons
                    /\ st'[hd'[c][j].at] \in {"serving", "stopping", "drain"}
  BY DEF PlaceInv
<1>1. PICK s \in HandlerState : Step(e, i, s)
  BY HandleSteps
<1>2. /\ hd'[c][j].at = hd[c][j].at
      /\ hd'[c][j].st = IF c = e /\ j = i THEN s ELSE hd[c][j].st
  BY <1>1, StepMoves DEF TypeOK
<1>3. hd[c][j].st \in Running
  BY <1>2, HandlerMovesDaemon
<1>4. hd[c][j].at \in Daemons /\ st[hd[c][j].at] \in {"serving", "stopping", "drain"}
  BY <1>3 DEF PlaceInv
<1>5. \A d \in Daemons : st'[d] = st[d] \/ st'[d] = "stopping"
  BY HandlerMovesDaemon DEF TypeOK
<1> QED
  BY <1>2, <1>4, <1>5

\* A request is submitted to a daemon that answers; a daemon that comes up was off.
LEMMA ClientCalls ==
  ASSUME TypeOK, NEW c \in Clients,
         Send(c) \/ Client(c) \/ TimeOut(c) \/ Quit(c) \/ Cut(c) \/ Repeat(c)
  PROVE  /\ \/ UNCHANGED hd
            \/ \E i \in Attempts, d \in Daemons : Answers(d) /\ Submit(c, i, d)
         /\ \/ UNCHANGED st
            \/ Spawn(c) /\ \E d \in Daemons : Fresh(d) /\ st' = [st EXCEPT ![d] = "start"]
<1>1. \/ UNCHANGED hd
      \/ \E i \in Attempts, d \in Daemons : Answers(d) /\ Submit(c, i, d)
  BY Zenon DEF Send, Client, TimeOut, Quit, Cut, Repeat, Lost, WaitDrain, Ping, LockBootstrap,
     Probe, TryLock, ReleaseLock, Spawn, Await, Resend, Status, GiveUp, OnlyClient, Expire,
     requestVars, Attempts
<1>2. CASE Spawn(c)
  BY <1>1, <1>2, StartsOne DEF Spawn, Become
<1>3. CASE ~Spawn(c)
  <2>1. UNCHANGED st
    BY <1>3 DEF Send, Client, TimeOut, Quit, Cut, Repeat, Lost, WaitDrain, Ping, LockBootstrap,
       Probe, TryLock, ReleaseLock, Await, Resend, Status, GiveUp, OnlyClient, Expire, daemonVars
  <2> QED
    BY <1>1, <2>1
<1> QED
  BY <1>2, <1>3

\* A client's step submits to a daemon that answers.
LEMMA ClientPlace ==
  ASSUME TypeOK, PlaceInv, NEW e \in Clients,
         Send(e) \/ Client(e) \/ TimeOut(e) \/ Quit(e) \/ Cut(e) \/ Repeat(e)
  PROVE  PlaceInv'
<1> SUFFICES ASSUME NEW c \in Clients, NEW j \in Attempts, hd'[c][j].st \in Running
             PROVE  /\ hd'[c][j].at \in Daemons
                    /\ st'[hd'[c][j].at] \in {"serving", "stopping", "drain"}
  BY DEF PlaceInv
<1>1. hd'[c][j].at \in Daemons /\ st[hd'[c][j].at] \in {"serving", "stopping", "drain"}
  <2>1. CASE UNCHANGED hd
    BY <2>1 DEF PlaceInv
  <2>2. ASSUME NEW i \in Attempts, NEW d \in Daemons, Answers(d), Submit(e, i, d)
        PROVE  hd'[c][j].at \in Daemons /\ st[hd'[c][j].at] \in {"serving", "stopping", "drain"}
    <3>1. hd'[c][j] = IF c = e /\ j = i THEN [st |-> "queued", at |-> d] ELSE hd[c][j]
      BY <2>2, SubmitMoves DEF TypeOK
    <3>2. CASE c = e /\ j = i
      <4>1. hd'[c][j].at = d
        BY <3>1, <3>2
      <4> QED
        BY <2>2, <4>1 DEF Answers, Accepting
    <3>3. CASE ~(c = e /\ j = i)
      BY <3>1, <3>3 DEF PlaceInv
    <3> QED
      BY <3>2, <3>3
  <2> QED
    BY <2>1, <2>2, ClientCalls
<1>2. \A d \in Daemons : st[d] # "off" => st'[d] = st[d]
  BY ClientCalls DEF Fresh, TypeOK
<1> QED
  BY <1>1, <1>2

-----------------------------------------------------------------------------
(* Clients: who was told what, who has sent nothing yet, and whose daemon  *)
(* has gone.                                                               *)

\* A final receipt stays, and a request that is known stays known.
LEMMA FinalStays ==
  ASSUME TypeOK, Effects, NEW e \in Clients, NEW i \in Attempts, Handle(e, i),
         NEW c \in Clients, ReceiptInv(c)
  PROVE  /\ receipt[c] \in {"completed", "failed"} => receipt'[c] = receipt[c]
         /\ c # e => receipt'[c] = receipt[c]
  BY DEF Handle, Take, Look, Reject, Claim, Apply, Finish, Respond, OnlyHandler, TypeOK, ReceiptInv,
     Executes, Executing

\* What a handler does to its client: it may answer.
LEMMA HandlerAnswers ==
  ASSUME TypeOK, NEW e \in Clients, NEW i \in Attempts, Handle(e, i)
  PROVE  /\ \A c \in Clients : c # e => pc'[c] = pc[c] /\ told'[c] = told[c] /\ old'[c] = old[c]
         /\ \/ UNCHANGED <<pc, told, old>>
            \/ /\ Listens(e, i) /\ pc'[e] = "drained" /\ e \in Restarters
               /\ UNCHANGED told /\ hd[e][i].st = "ok" /\ old'[e] = hd[e][i].at
            \/ /\ Listens(e, i) /\ pc'[e] = "end" /\ UNCHANGED old
               /\ told'[e] = hd[e][i].st /\ hd[e][i].st \in {"ok", "failed", "rejected", "uncertain"}
               /\ e \in Restarters => hd[e][i].st # "ok"
<1>1. CASE ~Respond(e, i)
  BY <1>1 DEF Handle, Take, Look, Reject, Claim, Apply, Finish, OnlyHandler, clientVars
<1>2. CASE Respond(e, i)
  <2>1. hd[e][i].st \in {"ok", "failed", "rejected", "uncertain"}
    BY <1>2 DEF Respond
  <2>2. CASE ~Listens(e, i)
    BY <1>2, <2>2 DEF Respond
  <2>3. CASE Listens(e, i) /\ e \in Restarters /\ hd[e][i].st = "ok"
    BY <1>2, <2>3 DEF Respond, Go, TypeOK
  <2>4. CASE Listens(e, i) /\ ~(e \in Restarters /\ hd[e][i].st = "ok")
    <3>1. End(e, hd[e][i].st) /\ UNCHANGED old
      BY <1>2, <2>4 DEF Respond
    <3> QED
      BY <2>1, <2>4, <3>1 DEF End, Go, TypeOK
  <2> QED
    BY <2>2, <2>3, <2>4
<1> QED
  BY <1>1, <1>2

\* The state of the handlers of a request after a handler's step.
LEMMA HandlerStates ==
  ASSUME TypeOK, NEW e \in Clients, NEW i \in Attempts, Handle(e, i)
  PROVE  /\ \A c \in Clients, j \in Attempts :
              /\ hd'[c][j].at = hd[c][j].at
              /\ c # e \/ j # i => hd'[c][j].st = hd[c][j].st
         /\ hd'[e][i].st \notin {"none", "queued", "broken"}
         /\ hd[e][i].st \notin {"none", "broken"}
<1>1. \E s \in HandlerState \ {"none", "queued", "broken"} : Step(e, i, s)
  <2>1. \A r : answer(r) \in HandlerState \ {"none", "queued", "broken"}
    BY DEF answer, HandlerState
  <2> QED
    BY <2>1, Zenon DEF Handle, Take, Look, Reject, Claim, Apply, Finish, Respond, HandlerState
<1>2. PICK s \in HandlerState \ {"none", "queued", "broken"} : Step(e, i, s)
  BY <1>1
<1>3. \A c \in Clients, j \in Attempts :
        hd'[c][j].at = hd[c][j].at /\ hd'[c][j].st = IF c = e /\ j = i THEN s ELSE hd[c][j].st
  BY <1>2, StepMoves DEF TypeOK
<1>4. hd[e][i].st \in Running
  BY HandlerMovesDaemon
<1> QED
  BY <1>2, <1>3, <1>4 DEF Running

\* A handler tells its client what the receipt says, and only who waits for it.
LEMMA HandlerCall ==
  ASSUME TypeOK, Effects, NEW e \in Clients, NEW i \in Attempts, Handle(e, i),
         NEW c \in Clients, ReceiptInv(c), CallInv(c)
  PROVE  CallInv(c)'
<1>1. conn' = conn
  BY HandlerMovesDaemon
<1>2. CASE c # e
  <2>1. /\ pc'[c] = pc[c] /\ told'[c] = told[c] /\ receipt'[c] = receipt[c]
        /\ \A j \in Attempts : hd'[c][j].st = hd[c][j].st
    BY <1>2, HandlerAnswers, FinalStays, HandlerStates
  <2> QED
    BY <1>1, <2>1 DEF CallInv, Unsent, Attempts
<1>3. CASE c = e
  <2>1. ~Unsent(c) /\ ~Unsent(c)'
    BY <1>3, HandlerStates DEF Unsent
  <2>2. i = 2 => conn[c] # 1
    BY <1>3, HandlerStates DEF CallInv
  <2>3. conn[c] = 1 => hd'[c][2].st = "none"
    BY <1>3, <2>2, HandlerStates DEF CallInv, Attempts
  <2>4. pc[c] # "idle" /\ (c \in Callers => pc[c] \notin Untried /\ told[c] # "unavailable")
    BY <2>1 DEF CallInv
  <2>5. receipt[c] \in {"completed", "failed"} => receipt'[c] = receipt[c]
    BY FinalStays
  <2>6. CASE UNCHANGED <<pc, told, old>>
    BY <1>1, <2>1, <2>3, <2>4, <2>5, <2>6 DEF CallInv
  <2>7. c \in Callers => c \notin Restarters
    BY ProcessesAssumption
  <2>8. CASE Listens(e, i) /\ pc'[e] = "drained" /\ e \in Restarters /\ UNCHANGED told
    BY <1>1, <1>3, <2>1, <2>3, <2>4, <2>5, <2>7, <2>8 DEF CallInv, Listens
  <2>9. CASE /\ Listens(e, i) /\ pc'[e] = "end"
             /\ told'[e] = hd[e][i].st /\ hd[e][i].st \in {"ok", "failed", "rejected", "uncertain"}
    <3>1. told'[c] = "ok" => receipt[c] = "completed"
      BY <1>3, <2>9 DEF ReceiptInv
    <3>2. told'[c] = "failed" => receipt[c] = "failed"
      BY <1>3, <2>9 DEF ReceiptInv
    <3>3. told'[c] # "unavailable" /\ pc'[c] = "end"
      BY <1>3, <2>9
    <3>4. "end" \notin Untried
      BY DEF Untried, Ensuring
    <3> QED
      BY <1>1, <2>1, <2>3, <2>5, <3>1, <3>2, <3>3, <3>4 DEF CallInv
  <2> QED
    BY <2>6, <2>8, <2>9, HandlerAnswers
<1> QED
  BY <1>2, <1>3

\* A stop that is acknowledged has begun.
LEMMA HandlerOld ==
  ASSUME TypeOK, PlaceInv, NEW e \in Clients, NEW i \in Attempts, Handle(e, i),
         NEW c \in Clients, CallInv(c), OldInv(c)
  PROVE  OldInv(c)'
<1>1. \A d \in Daemons : st[d] # "serving" => st'[d] = st[d]
  BY HandlerMovesDaemon DEF TypeOK
<1>2. by' = by /\ old[c] \in Daemons \cup {None}
  BY HandlerMovesDaemon DEF TypeOK
<1>3. CASE pc'[c] = pc[c] /\ told'[c] = told[c] /\ old'[c] = old[c]
  BY <1>1, <1>2, <1>3 DEF OldInv
<1>4. CASE c = e /\ Listens(e, i) /\ pc'[e] = "drained" /\ e \in Restarters /\ UNCHANGED told
           /\ hd[e][i].st = "ok" /\ old'[e] = hd[e][i].at
  <2>1. Respond(e, i)
    BY <1>4 DEF Handle, Take, Look, Reject, Claim, Apply, Finish
  <2>2. hd[e][i].at \in Daemons /\ st[hd[e][i].at] \in {"serving", "stopping", "drain"}
    BY <1>4 DEF PlaceInv, Running, HandlerState
  <2>3. st'[hd[e][i].at] \in {"stopping", "drain"}
    BY <1>4, <2>1, <2>2 DEF Respond, TypeOK
  <2>4. told[c] = "none" /\ "drained" \notin Ensuring \cup {"call"}
    BY <1>4 DEF CallInv, Listens, Ensuring
  <2> QED
    BY <1>4, <2>3, <2>4 DEF OldInv
<1>5. CASE /\ c = e /\ Listens(e, i) /\ pc'[e] = "end" /\ UNCHANGED old
           /\ told'[e] = hd[e][i].st /\ (e \in Restarters => hd[e][i].st # "ok")
  <2>1. "end" \notin Ensuring \cup {"call"}
    BY DEF Ensuring
  <2> QED
    BY <1>1, <1>2, <1>5, <2>1 DEF OldInv
<1> QED
  BY <1>3, <1>4, <1>5, HandlerAnswers

\* The handler on the connection in use is the only one there is.
LEMMA HandlerUnhurt ==
  ASSUME TypeOK, Effects, NEW e \in Clients, NEW i \in Attempts, Handle(e, i),
         NEW c \in Clients, ReceiptInv(c), UnhurtInv(c)
  PROVE  UnhurtInv(c)'
<1>1. UNCHANGED <<conn, hits>>
  BY HandlerMovesDaemon
<1>2. conn[c] \in Attempts
  BY DEF TypeOK
<1>3. CASE c # e
  <2>1. /\ told'[c] = told[c] /\ receipt'[c] = receipt[c]
        /\ \A j \in Attempts : hd'[c][j].st = hd[c][j].st
    BY <1>3, HandlerAnswers, FinalStays, HandlerStates
  <2> QED
    BY <1>1, <1>2, <2>1 DEF UnhurtInv, Unhurt
<1>4. CASE c = e
  <2> SUFFICES ASSUME Unhurt
               PROVE  /\ \A j \in Attempts : j # conn[c] => hd'[c][j].st \in {"none", "broken"}
                      /\ hd'[c][conn[c]].st \notin {"none", "queued", "broken"}
                      /\ told'[c] # "unknown"
    BY <1>1 DEF UnhurtInv, Unhurt
  <2>1. conn[c] = i
    BY <1>4, HandlerStates DEF UnhurtInv
  <2>2. told[c] # "unknown"
    BY <1>4, <2>1, HandlerStates DEF UnhurtInv
  <2>3. told'[c] # "unknown"
    BY <1>4, <2>2, HandlerAnswers
  <2> QED
    BY <1>4, <2>1, <2>3, HandlerStates DEF UnhurtInv
<1> QED
  BY <1>3, <1>4

\* A handler is rejected before there is a receipt, and answers once.
LEMMA HandlerWhole ==
  ASSUME TypeOK, Effects, NEW e \in Clients, NEW i \in Attempts, Handle(e, i),
         NEW c \in Clients, ReceiptInv(c), CallInv(c), WholeInv(c)
  PROVE  WholeInv(c)'
<1>1. UNCHANGED <<conn, hits>>
  BY HandlerMovesDaemon
<1>2. conn[c] \in Attempts
  BY DEF TypeOK
<1>3. CASE c # e
  <2>1. /\ told'[c] = told[c] /\ receipt'[c] = receipt[c]
        /\ \A j \in Attempts : hd'[c][j].st = hd[c][j].st
    BY <1>3, HandlerAnswers, FinalStays, HandlerStates
  <2> QED
    BY <1>1, <1>2, <2>1 DEF WholeInv, Whole
<1>4. CASE c = e
  <2> SUFFICES ASSUME Whole(c)
               PROVE  /\ \A j \in Attempts : j # conn[c] => hd'[c][j].st \in {"none", "broken"}
                      /\ hd'[c][i].st \in {"claim", "rejected"} => receipt'[c] = "none"
                      /\ told'[c] = "rejected" => receipt'[c] = "none" /\ hd'[c][i].st = "over"
                      /\ "cut" \notin hits => told'[c] # "unknown"
                      /\ conn[c] = i
    BY <1>1 DEF WholeInv, Whole
  <2>1. conn[c] = i
    BY <1>4, HandlerStates DEF WholeInv
  <2>2. \A j \in Attempts : j # i => hd'[c][j].st \in {"none", "broken"}
    BY <1>4, <2>1, HandlerStates DEF WholeInv
  <2>3. told[c] # "rejected" /\ ("cut" \notin hits => told[c] # "unknown")
    BY <1>4, <2>1, HandlerMovesDaemon DEF WholeInv, Running
  <2>4. "cut" \notin hits => told'[c] # "unknown"
    BY <1>4, <2>3, HandlerAnswers
  <2>5. hd'[c][i].st \in {"claim", "rejected"} => receipt'[c] = "none"
    <3>1. ASSUME NEW s \in HandlerState, Step(c, i, s)
          PROVE  hd'[c][i].st = s
      BY <3>1, StepMoves DEF TypeOK
    <3>2. \A r : answer(r) \in HandlerState \ {"claim", "rejected"}
      BY DEF answer, HandlerState
    <3>3. CASE Look(c, i)
      <4>1. receipt' = receipt /\ (receipt[c] = "none" \/ Step(c, i, answer(receipt[c])))
        BY <3>3 DEF Look
      <4> QED
        BY <3>1, <3>2, <4>1
    <3>4. CASE Reject(c, i)
      BY <2>1, <3>4 DEF Reject, WholeInv
    <3>5. CASE Take(c, i) \/ Claim(c, i) \/ Apply(c, i) \/ Finish(c, i) \/ Respond(c, i)
      <4>1. \E s \in HandlerState \ {"claim", "rejected"} : Step(c, i, s)
        BY <3>2, <3>5, Zenon DEF Take, Claim, Apply, Finish, Respond, HandlerState
      <4> QED
        BY <3>1, <4>1
    <3> QED
      BY <1>4, <3>3, <3>4, <3>5 DEF Handle
  <2>6. told'[c] = "rejected" => receipt'[c] = "none" /\ hd'[c][i].st = "over"
    <3> SUFFICES ASSUME told'[c] = "rejected"
                 PROVE  receipt'[c] = "none" /\ hd'[c][i].st = "over"
      OBVIOUS
    <3>1. hd[c][i].st = "rejected"
      BY <1>4, <2>3, HandlerAnswers
    <3>2. Respond(c, i)
      BY <1>4, <3>1 DEF Handle, Take, Look, Reject, Claim, Apply, Finish
    <3>3. receipt[c] = "none" /\ receipt' = receipt
      BY <2>1, <3>1, <3>2 DEF WholeInv, Respond
    <3>4. hd'[c][i].st = "over"
      BY <3>2, StepMoves DEF TypeOK, Respond, HandlerState
    <3> QED
      BY <3>3, <3>4
  <2> QED
    BY <2>1, <2>2, <2>4, <2>5, <2>6
<1> QED
  BY <1>3, <1>4

\* Daemons tell clients nothing.
LEMMA DaemonCall ==
  ASSUME TypeOK, NEW d \in Daemons, Starting(d) \/ Ending(d) \/ Stop(d) \/ Kill(d),
         NEW c \in Clients, CallInv(c)
  PROVE  CallInv(c)'
<1>1. UNCHANGED <<pc, told, conn, receipt>>
  BY DaemonLeaves
<1>2. \A j \in Attempts : hd'[c][j].st = "none" <=> hd[c][j].st = "none"
  BY DaemonBreaks DEF Running
<1> QED
  BY <1>1, <1>2 DEF CallInv, Unsent, Attempts

\* A daemon that stops only goes on to its end.
LEMMA DaemonOld ==
  ASSUME TypeOK, NEW d \in Daemons, Starting(d) \/ Ending(d) \/ Stop(d) \/ Kill(d),
         NEW c \in Clients, OldInv(c)
  PROVE  OldInv(c)'
<1>1. UNCHANGED <<pc, told, old, by>> /\ \A x \in Daemons \ {d} : st'[x] = st[x]
  BY DaemonLeaves
<1>2. /\ st[d] \in {"drain", "closing", "off"} => st'[d] \in {"drain", "closing", "off"}
      /\ st[d] = "stopping" => st'[d] \in {"drain", "off"}
  BY DEF Starting, Ending, TakeLock, RemoveStale, Listen, CloseListener, Unlink, Unlock,
     Stop, Kill, Become, TypeOK
<1>3. old[c] \in Daemons \cup {None}
  BY DEF TypeOK
<1> QED
  BY <1>1, <1>2, <1>3 DEF OldInv

\* While nobody is killed, only what waited in a queue breaks.
LEMMA DaemonUnhurt ==
  ASSUME TypeOK, PlaceInv, NEW d \in Daemons, Starting(d) \/ Ending(d) \/ Stop(d) \/ Kill(d),
         NEW c \in Clients, UnhurtInv(c)
  PROVE  UnhurtInv(c)'
<1>1. UNCHANGED <<told, conn, receipt>>
  BY DaemonLeaves
<1>2. hits \subseteq hits' /\ (Kill(d) => "kill" \in hits')
  BY DEF Starting, Ending, TakeLock, RemoveStale, Listen, CloseListener, Unlink, Unlock,
     Stop, Kill, OnlyDaemon, Calm, Disturb
<1> SUFFICES ASSUME Unhurt' PROVE UnhurtInv(c)'
  BY DEF UnhurtInv
<1>3. Unhurt /\ ~Kill(d)
  BY <1>2 DEF Unhurt
<1>4. ASSUME NEW j \in Attempts
      PROVE  hd'[c][j].st = hd[c][j].st \/ (hd[c][j].st = "queued" /\ hd'[c][j].st = "broken")
  <2>1. CASE Unlock(d)
    <3>1. st[d] = "closing"
      BY <2>1 DEF Unlock
    <3>2. ~(hd[c][j].at = d /\ hd[c][j].st \in Running)
      BY <3>1 DEF PlaceInv
    <3> QED
      BY <1>3, <3>1, <3>2, DaemonBreaks DEF CloseListener
  <2>2. CASE ~Unlock(d)
    BY <1>3, <2>2, DaemonBreaks
  <2> QED
    BY <2>1, <2>2
<1>5. conn[c] \in Attempts
  BY DEF TypeOK
<1> QED
  BY <1>1, <1>3, <1>4, <1>5 DEF UnhurtInv

\* What breaks does not go on.
LEMMA DaemonWhole ==
  ASSUME TypeOK, NEW d \in Daemons, Starting(d) \/ Ending(d) \/ Stop(d) \/ Kill(d),
         NEW c \in Clients, WholeInv(c)
  PROVE  WholeInv(c)'
<1>1. UNCHANGED <<told, conn, receipt>>
  BY DaemonLeaves
<1>2. hits \subseteq hits'
  BY DEF Starting, Ending, TakeLock, RemoveStale, Listen, CloseListener, Unlink, Unlock,
     Stop, Kill, OnlyDaemon, Calm, Disturb
<1>3. ASSUME NEW j \in Attempts
      PROVE  \/ hd'[c][j].st = hd[c][j].st
             \/ hd'[c][j].st = "broken" /\ hd[c][j].st \notin {"none", "over", "broken"}
  BY DaemonBreaks DEF Running
<1>4. conn[c] \in Attempts
  BY DEF TypeOK
<1> QED
  BY <1>1, <1>2, <1>3, <1>4 DEF WholeInv, Whole

\* A client's step leaves the others alone.
LEMMA ClientLeaves ==
  ASSUME TypeOK, NEW e \in Clients,
         Send(e) \/ Client(e) \/ TimeOut(e) \/ Quit(e) \/ Cut(e) \/ Repeat(e),
         NEW c \in Clients, c # e
  PROVE  /\ pc'[c] = pc[c] /\ told'[c] = told[c] /\ conn'[c] = conn[c]
         /\ old'[c] = old[c] /\ by'[c] = by[c]
         /\ \A j \in Attempts : hd'[c][j].st = hd[c][j].st
<1> USE DEF Go, End, OnlyClient, Ensured, Expire
<1>1. pc'[c] = pc[c] /\ told'[c] = told[c]
  BY DEF TypeOK, Send, Client, TimeOut, Quit, Cut, Repeat, Lost, WaitDrain, Ping, LockBootstrap,
     Probe, TryLock, ReleaseLock, Spawn, Await, Resend, Status, GiveUp
<1>2. conn'[c] = conn[c] /\ old'[c] = old[c] /\ by'[c] = by[c]
  BY DEF TypeOK, Send, Client, TimeOut, Quit, Cut, Repeat, Lost, WaitDrain, Ping, LockBootstrap,
     Probe, TryLock, ReleaseLock, Spawn, Await, Resend, Status, GiveUp
<1>3. \A j \in Attempts : hd'[c][j].st = hd[c][j].st
  BY ClientSubmits
<1> QED
  BY <1>1, <1>2, <1>3

\* A submitted request: its connection is in the queue, the others are as before.
LEMMA SubmitStates ==
  ASSUME TypeOK, NEW c \in Clients, NEW i \in Attempts, NEW d \in Daemons, Submit(c, i, d)
  PROVE  \A j \in Attempts : hd'[c][j].st = IF j = i THEN "queued" ELSE hd[c][j].st
<1> TAKE j \in Attempts
<1>1. hd'[c][j] = IF j = i THEN [st |-> "queued", at |-> d] ELSE hd[c][j]
  BY SubmitMoves DEF TypeOK
<1> QED
  BY <1>1

\* What a client does with its own request and its own conclusion.
ClientForms(e) ==
  \/ /\ Send(e) /\ pc[e] = "idle" /\ pc'[e] = "wait" /\ UNCHANGED <<told, conn, old>>
     /\ \E d \in Daemons : Submit(e, 1, d)
  \/ /\ Send(e) /\ pc[e] = "idle" /\ UNCHANGED <<told, conn, old, hd>>
     /\ pc'[e] = IF e \in Restarters THEN "drained" ELSE "ping"
  \/ /\ Resend(e) /\ pc[e] = "call" /\ e \in Callers /\ pc'[e] = "wait"
     /\ UNCHANGED <<told, conn, old>> /\ \E d \in Daemons : Submit(e, 1, d)
  \/ /\ Repeat(e) /\ e \in Callers /\ told[e] = "unknown" /\ conn[e] = 1 /\ pc'[e] = "wait"
     /\ told'[e] = "none" /\ conn'[e] = 2 /\ UNCHANGED old /\ \E d \in Daemons : Submit(e, 2, d)
  \/ /\ Client(e) /\ UNCHANGED <<told, conn, old, hd>>
     /\ pc[e] \in Ensuring \cup {"call"} /\ pc'[e] \in Ensuring \cup {"call"}
  \/ /\ WaitDrain(e) /\ UNCHANGED <<told, conn, old, hd>> /\ pc[e] = "drained" /\ pc'[e] = "ping"
  \/ /\ pc'[e] = "end" /\ pc[e] \in {"call", "drained"} \cup Ensuring /\ told'[e] = "unavailable"
     /\ UNCHANGED <<conn, old, hd>>
  \/ /\ pc'[e] = "end" /\ told'[e] = "quit" /\ UNCHANGED <<conn, old, hd>>
  \/ /\ Lost(e) /\ pc'[e] = "end" /\ told'[e] = "unknown" /\ UNCHANGED <<conn, old, hd>>
     /\ hd[e][conn[e]].st = "broken"
  \/ /\ Cut(e) /\ pc'[e] = "end" /\ told'[e] = "unknown" /\ UNCHANGED <<conn, old, hd>>
     /\ "cut" \in hits'
  \/ /\ Status(e) /\ pc'[e] = "end" /\ told'[e] = "ok" /\ UNCHANGED <<conn, old, hd>>
     /\ e \in Restarters /\ pc[e] = "call" /\ \E d \in Daemons : Answers(d) /\ by'[e] = d

\* These are all of them.
LEMMA ClientSteps ==
  ASSUME TypeOK, NEW e \in Clients,
         Send(e) \/ Client(e) \/ TimeOut(e) \/ Quit(e) \/ Cut(e) \/ Repeat(e)
  PROVE  ClientForms(e)
<1> USE DEF Go, End, OnlyClient, Expire, requestVars
<1>1. CASE Send(e)
  BY <1>1 DEF Send, ClientForms, TypeOK
<1>2. CASE Lost(e) \/ WaitDrain(e)
  BY <1>2 DEF Lost, WaitDrain, ClientForms, TypeOK
<1>3. CASE Ping(e) \/ LockBootstrap(e) \/ Probe(e) \/ TryLock(e) \/ ReleaseLock(e) \/ Await(e)
  <2>1. /\ UNCHANGED <<told, conn, old, hd>> /\ pc[e] \in Ensuring
        /\ pc'[e] \in Ensuring \cup {"call"}
    BY <1>3 DEF Ping, LockBootstrap, Probe, TryLock, ReleaseLock, Await, Ensured, Ensuring, TypeOK
  <2> QED
    BY <1>3, <2>1 DEF Client, ClientForms
<1>4. CASE Spawn(e)
  <2>1. /\ UNCHANGED <<told, conn, old, hd>> /\ pc[e] \in Ensuring /\ pc'[e] \in Ensuring
    BY <1>4 DEF Spawn, Ensuring, TypeOK
  <2> QED
    BY <1>4, <2>1 DEF Client, ClientForms
<1>5. CASE Resend(e)
  BY <1>5 DEF Resend, ClientForms, TypeOK
<1>6. CASE Status(e)
  <2>1. e \in Restarters /\ pc[e] = "call" /\ UNCHANGED <<conn, old, hd>>
    BY <1>6 DEF Status
  <2>2. CASE \E d \in Daemons : Answers(d) /\ by' = [by EXCEPT ![e] = d] /\ End(e, "ok")
    BY <1>6, <2>1, <2>2 DEF ClientForms, TypeOK
  <2>3. CASE Go(e, "ping") /\ UNCHANGED told
    BY <1>6, <2>1, <2>3 DEF ClientForms, TypeOK, Client, Ensuring
  <2>4. CASE End(e, "unavailable")
    BY <2>1, <2>4 DEF ClientForms, TypeOK
  <2> QED
    BY <1>6, <2>2, <2>3, <2>4 DEF Status
<1>7. CASE GiveUp(e) \/ TimeOut(e)
  <2>1. pc[e] \in {"drained"} \cup Ensuring /\ Expire(e)
    BY <1>7, Zenon DEF GiveUp, TimeOut, Ensuring
  <2> QED
    BY <2>1 DEF ClientForms, TypeOK
<1>8. CASE Quit(e) \/ Cut(e)
  BY <1>8 DEF Quit, Cut, Disturb, ClientForms, TypeOK
<1>9. CASE Repeat(e)
  BY <1>9 DEF Repeat, ClientForms, TypeOK
<1> QED
  BY <1>1, <1>2, <1>3, <1>4, <1>5, <1>6, <1>7, <1>8, <1>9 DEF Client

\* A client concludes from where it stands.
LEMMA ClientCall ==
  ASSUME TypeOK, NEW e \in Clients,
         Send(e) \/ Client(e) \/ TimeOut(e) \/ Quit(e) \/ Cut(e) \/ Repeat(e),
         NEW c \in Clients, CallInv(c)
  PROVE  CallInv(c)'
<1>1. receipt' = receipt
  BY ClientSubmits
<1>2. CASE c # e
  BY <1>1, <1>2, ClientLeaves DEF CallInv, Unsent, Attempts
<1>3. CASE c = e
  <2> USE <1>1, <1>3 DEF CallInv, Unsent, Untried, Ensuring
  <2>1. ASSUME NEW i \in Attempts, NEW d \in Daemons, Submit(e, i, d)
        PROVE  ~Unsent(c)' /\ (i = 1 => hd'[c][2].st = hd[c][2].st)
    BY <2>1, SubmitStates DEF Attempts
  <2>2. e \in Callers => e \notin Restarters
    BY ProcessesAssumption
  <2>3. ASSUME pc'[e] = "wait", told[e] = "none", told' = told, conn' = conn,
               NEW d \in Daemons, Submit(e, 1, d)
        PROVE  CallInv(c)'
    BY <2>1, <2>3 DEF Attempts
  <2>4. ASSUME pc'[e] = "wait", told'[e] = "none", conn'[e] = 2,
               NEW d \in Daemons, Submit(e, 2, d)
        PROVE  CallInv(c)'
    BY <2>1, <2>4 DEF Attempts
  <2>5. ASSUME UNCHANGED <<told, conn, hd>>, told[e] = "none", pc'[e] # "idle",
               e \in Callers => pc'[e] # "drained" /\ (pc[e] \in Untried \/ pc'[e] \notin Untried)
        PROVE  CallInv(c)'
    BY <2>5
  <2>6. ASSUME UNCHANGED <<conn, hd>>, pc'[e] = "end", told'[e] \in {"unknown", "quit"}
        PROVE  CallInv(c)'
    BY <2>6
  <2>7. ASSUME UNCHANGED <<conn, hd>>, pc'[e] = "end", told'[e] = "unavailable",
               e \in Callers => pc[e] \in Untried
        PROVE  CallInv(c)'
    BY <2>7
  <2>8. ASSUME UNCHANGED <<conn, hd>>, pc'[e] = "end", told'[e] = "ok", e \in Restarters
        PROVE  CallInv(c)'
    BY <2>2, <2>8
  <2> QED
    BY ClientSteps, <2>2, <2>3, <2>4, <2>5, <2>6, <2>7, <2>8 DEF ClientForms
<1> QED
  BY <1>2, <1>3

\* Who waits for the old daemon goes on when it does not answer, and it never will again.
LEMMA ClientOld ==
  ASSUME TypeOK, Ownership, NEW e \in Clients,
         Send(e) \/ Client(e) \/ TimeOut(e) \/ Quit(e) \/ Cut(e) \/ Repeat(e),
         NEW c \in Clients, CallInv(c), OldInv(c)
  PROVE  OldInv(c)'
<1>1. \A d \in Daemons : st'[d] = st[d] \/ \A x \in Clients : old[x] # d
  BY ClientCalls DEF TypeOK, Fresh
<1>2. old[c] \in Daemons \cup {None} /\ None \notin Daemons
  BY ProcessesAssumption DEF TypeOK
<1>3. old'[c] = old[c] /\ (old[c] # None => st'[old[c]] = st[old[c]])
  <2>1. old'[c] = old[c]
    BY ClientLeaves, ClientSteps DEF ClientForms
  <2> QED
    BY <1>1, <1>2, <2>1
<1>4. CASE c # e
  BY <1>3, <1>4, ClientLeaves DEF OldInv
<1>5. CASE c = e
  <2>1. e \in Callers => e \notin Restarters
    BY ProcessesAssumption
  <2>2. ASSUME pc'[e] \notin Ensuring \cup {"call"}, told'[e] # "ok"
        PROVE  OldInv(c)'
    BY <1>3, <1>5, <2>2 DEF OldInv
  <2>3. CASE ~(e \in Restarters)
    BY <1>3, <1>5, <2>3 DEF OldInv
  <2>4. CASE e \in Restarters /\ pc[e] \in Ensuring \cup {"call"}
             /\ UNCHANGED told /\ pc'[e] \in Ensuring \cup {"call"}
    <3>1. told[e] = "none"
      BY <1>5, <2>4 DEF CallInv, Ensuring
    <3> QED
      BY <1>3, <1>5, <2>4, <3>1 DEF OldInv
  <2>5. CASE e \in Restarters /\ WaitDrain(e)
    <3>1. told'[e] = "none"
      BY <1>5, <2>5 DEF CallInv, WaitDrain, OnlyClient
    <3>2. ASSUME old[e] # None PROVE st[old[e]] \notin Accepting
      BY <1>2, <1>5, <2>5, <3>2 DEF WaitDrain, Gone, Refused, Answers, Ownership
    <3>3. old[e] # None => st[old[e]] \in {"drain", "closing", "off"}
      BY <1>5, <3>2 DEF OldInv, Accepting
    <3> QED
      BY <1>3, <1>5, <3>1, <3>3 DEF OldInv
  <2>6. CASE /\ e \in Restarters /\ pc[e] = "call" /\ pc'[e] = "end"
             /\ \E d \in Daemons : Answers(d) /\ by'[e] = d
    <3>1. PICK d \in Daemons : Answers(d) /\ by'[e] = d
      BY <2>6
    <3>2. old[e] # d
      BY <1>2, <1>5, <2>6, <3>1 DEF OldInv, Answers, Accepting
    <3> QED
      BY <1>3, <1>5, <2>6, <3>1, <3>2 DEF OldInv, Ensuring
  <2>7. told[e] = "ok" => pc[e] = "end"
    BY <1>5 DEF CallInv
  <2>8. /\ {"end", "wait", "drained", "idle"} \cap (Ensuring \cup {"call"}) = {}
        /\ "ok" \notin {"none", "unknown", "quit", "unavailable"}
    BY DEF Ensuring
  <2> QED
    BY ClientSteps, <2>1, <2>2, <2>3, <2>4, <2>5, <2>6, <2>7, <2>8 DEF ClientForms
<1> QED
  BY <1>4, <1>5

\* A request is sent again only after its connection broke in the queue.
LEMMA ClientUnhurt ==
  ASSUME TypeOK, NEW e \in Clients,
         Send(e) \/ Client(e) \/ TimeOut(e) \/ Quit(e) \/ Cut(e) \/ Repeat(e),
         NEW c \in Clients, CallInv(c), UnhurtInv(c)
  PROVE  UnhurtInv(c)'
<1>1. receipt' = receipt
  BY ClientSubmits
<1>2. hits \subseteq hits'
  BY DEF Send, Client, TimeOut, Quit, Cut, Repeat, Lost, WaitDrain, Ping, LockBootstrap,
     Probe, TryLock, ReleaseLock, Spawn, Await, Resend, Status, GiveUp, OnlyClient, Calm, Disturb
<1>3. conn[c] \in Attempts /\ Attempts = {1, 2}
  BY DEF TypeOK, Attempts
<1> SUFFICES ASSUME Unhurt' PROVE UnhurtInv(c)'
  BY DEF UnhurtInv
<1>4. Unhurt
  BY <1>2 DEF Unhurt
<1>5. CASE c # e
  BY <1>1, <1>3, <1>4, <1>5, ClientLeaves DEF UnhurtInv
<1>6. CASE c = e
  <2>1. ASSUME NEW d \in Daemons, Submit(e, 1, d), conn[e] = 1, conn' = conn, Unsent(e),
               told'[e] = "none"
        PROVE  UnhurtInv(c)'
    <3>1. \A j \in Attempts : hd'[c][j].st = IF j = 1 THEN "queued" ELSE "none"
      BY <1>3, <1>6, <2>1, SubmitStates DEF Unsent
    <3>2. receipt[c] = "none"
      BY <1>6, <2>1 DEF CallInv
    <3> QED
      BY <1>1, <1>3, <1>6, <2>1, <3>1, <3>2 DEF UnhurtInv
  <2>2. ASSUME NEW d \in Daemons, Submit(e, 2, d), told[e] = "unknown", conn[e] = 1,
               told'[e] = "none", conn'[e] = 2
        PROVE  UnhurtInv(c)'
    <3>1. \A j \in Attempts : hd'[c][j].st = IF j = 2 THEN "queued" ELSE hd[c][j].st
      BY <1>3, <1>6, <2>2, SubmitStates
    <3>2. hd[c][1].st = "broken" /\ receipt[c] = "none"
      BY <1>4, <1>6, <2>2 DEF UnhurtInv
    <3> QED
      BY <1>1, <1>3, <1>6, <2>2, <3>1, <3>2 DEF UnhurtInv
  <2>3. ASSUME UNCHANGED <<conn, hd>>, told'[e] # "unknown" \/ hd[e][conn[e]].st = "broken"
        PROVE  UnhurtInv(c)'
    BY <1>1, <1>4, <1>6, <2>3 DEF UnhurtInv
  <2>4. pc[e] = "idle" \/ (e \in Callers /\ pc[e] = "call") => Unsent(e) /\ conn[e] = 1
    BY <1>6 DEF CallInv, Untried
  <2>5. pc[e] # "end" => told[e] = "none"
    BY <1>6 DEF CallInv
  <2>6. "cut" \notin hits' /\ "end" \notin Ensuring
    BY DEF Unhurt, Ensuring
  <2> QED
    BY ClientSteps, <2>1, <2>2, <2>3, <2>4, <2>5, <2>6 DEF ClientForms
<1> QED
  BY <1>5, <1>6

\* A repeat goes out on a second connection; the first is lost, or was cut off.
LEMMA ClientWhole ==
  ASSUME TypeOK, Effects, NEW e \in Clients,
         Send(e) \/ Client(e) \/ TimeOut(e) \/ Quit(e) \/ Cut(e) \/ Repeat(e),
         NEW c \in Clients, CallInv(c), WholeInv(c)
  PROVE  WholeInv(c)'
<1>1. receipt' = receipt
  BY ClientSubmits
<1>2. hits \subseteq hits'
  BY DEF Send, Client, TimeOut, Quit, Cut, Repeat, Lost, WaitDrain, Ping, LockBootstrap,
     Probe, TryLock, ReleaseLock, Spawn, Await, Resend, Status, GiveUp, OnlyClient, Calm, Disturb
<1>3. conn[c] \in Attempts /\ Attempts = {1, 2}
  BY DEF TypeOK, Attempts
<1>4. CASE c # e
  BY <1>1, <1>2, <1>3, <1>4, ClientLeaves DEF WholeInv, Whole
<1>5. CASE c = e
  <2>1. ASSUME NEW d \in Daemons, Submit(e, 1, d), conn[e] = 1, conn' = conn, Unsent(e),
               told'[e] = "none"
        PROVE  WholeInv(c)'
    <3>1. \A j \in Attempts : hd'[c][j].st = IF j = 1 THEN "queued" ELSE "none"
      BY <1>3, <1>5, <2>1, SubmitStates DEF Unsent
    <3> QED
      BY <1>3, <1>5, <2>1, <3>1 DEF WholeInv
  <2>2. ASSUME NEW d \in Daemons, Submit(e, 2, d), told[e] = "unknown", conn[e] = 1,
               told'[e] = "none", conn'[e] = 2
        PROVE  WholeInv(c)'
    <3>1. \A j \in Attempts : hd'[c][j].st = IF j = 2 THEN "queued" ELSE hd[c][j].st
      BY <1>3, <1>5, <2>2, SubmitStates
    <3>2. "cut" \notin hits' => hd[c][1].st = "broken"
      BY <1>2, <1>5, <2>2 DEF WholeInv, Whole
    <3> QED
      BY <1>3, <1>5, <2>2, <3>1, <3>2 DEF WholeInv, Whole
  <2>3. ASSUME UNCHANGED <<conn, hd>>, told'[e] \in {told[e], "none", "unavailable", "quit", "ok"}
        PROVE  WholeInv(c)'
    BY <1>1, <1>2, <1>5, <2>3 DEF WholeInv, Whole
  <2>4. ASSUME UNCHANGED <<conn, hd>>, told'[e] = "unknown",
               "cut" \in hits' \/ hd[e][conn[e]].st = "broken"
        PROVE  WholeInv(c)'
    BY <1>1, <1>2, <1>5, <2>4 DEF WholeInv, Whole
  <2>5. pc[e] = "idle" \/ (e \in Callers /\ pc[e] = "call") => Unsent(e) /\ conn[e] = 1
    BY <1>5 DEF CallInv, Untried
  <2>6. pc[e] # "end" => told[e] = "none"
    BY <1>5 DEF CallInv
  <2> QED
    BY ClientSteps, <2>1, <2>2, <2>3, <2>4, <2>5, <2>6 DEF ClientForms, Ensuring
<1> QED
  BY <1>4, <1>5

-----------------------------------------------------------------------------
(* Starting. Who waits for a daemon holds bootstrap.lock and has seen the   *)
(* ownership lock free: it will meet the daemon it spawned, or the one     *)
(* that was faster, as long as none is stopped or killed.                  *)

\* The lock is held by a process that goes on with it, and bootstrap.lock by the client
\* that needs it.
Booting == {"probe", "try", "held", "spawn", "await"}
LockHeld ==
  /\ lock \in Daemons => st[lock] \in Holds
  /\ lock \in Clients => pc[lock] = "held"
  /\ \A c \in Clients : pc[c] \in Booting => boot = c
  /\ ~down => \A d \in Daemons : st[d] # "stopping"

\* While nothing was stopped, nothing drains any more once the lock was free, a daemon comes
\* up for whoever waits, and serves for ever once it was seen.
Coming == {"start", "owner", "open", "serving"}
WillMeet(c) ==
  /\ ~down =>
       /\ pc[c] \in {"held", "spawn", "await"} =>
            \A d \in Daemons : st[d] \notin {"drain", "closing"}
       /\ pc[c] = "await" => \E d \in Daemons : st[d] \in Coming
       /\ pc[c] = "call" => \E d \in Daemons : st[d] = "serving"
  /\ c \in Callers /\ told[c] = "unavailable" => down \/ "timeout" \in hits

\* What a daemon's step does to its state.
LEMMA DaemonForms ==
  ASSUME TypeOK, NEW d \in Daemons, Starting(d) \/ Ending(d) \/ Stop(d) \/ Kill(d)
  PROVE  /\ hits \subseteq hits' /\ (down => down')
         /\ ~down' =>
              \/ st[d] = "start" /\ lock = None /\ lock' = d /\ st'[d] = "owner"
              \/ st[d] = "start" /\ lock # None /\ lock' = lock /\ st'[d] = "off"
              \/ st[d] = "owner" /\ lock' = lock /\ st'[d] = "open"
              \/ st[d] = "open" /\ lock' = lock /\ st'[d] = "serving"
              \/ st[d] = "stopping" /\ lock' = lock /\ st'[d] = "drain"
              \/ st[d] = "drain" /\ lock' = lock /\ st'[d] = "closing"
              \/ st[d] = "closing" /\ lock' = (IF lock = d THEN None ELSE lock) /\ st'[d] = "off"
         /\ \/ lock' = lock /\ (st[d] \in Holds => st'[d] \in Holds)
            \/ lock' = d /\ st'[d] \in Holds
            \/ lock' = IF lock = d THEN None ELSE lock
<1> USE DEF Become, OnlyDaemon, Calm, Disturb, Holds, HasDatabase
<1>1. CASE TakeLock(d)
  BY <1>1 DEF TypeOK, TakeLock
<1>2. CASE RemoveStale(d) \/ Listen(d)
  BY <1>2 DEF TypeOK, RemoveStale, Listen
<1>3. CASE CloseListener(d) \/ Unlink(d)
  BY <1>3 DEF TypeOK, CloseListener, Unlink
<1>4. CASE Unlock(d) \/ Kill(d)
  BY <1>4 DEF TypeOK, Unlock, Kill
<1>5. CASE Stop(d)
  BY <1>5 DEF TypeOK, Stop
<1> QED
  BY <1>1, <1>2, <1>3, <1>4, <1>5 DEF Starting, Ending

\* The lock goes from a daemon to nobody, or from nobody to a daemon.
LEMMA DaemonLock ==
  ASSUME TypeOK, LockHeld, NEW d \in Daemons, Starting(d) \/ Ending(d) \/ Stop(d) \/ Kill(d)
  PROVE  LockHeld'
<1>1. UNCHANGED <<pc, boot>> /\ \A x \in Daemons \ {d} : st'[x] = st[x]
  BY DaemonLeaves
<1>2. d \notin Clients /\ None \notin Clients /\ None \notin Daemons
  BY ProcessesAssumption
<1>3. lock' \in Daemons => st'[lock'] \in Holds
  BY <1>1, <1>2, DaemonForms DEF LockHeld
<1>4. lock' \in Clients => pc'[lock'] = "held"
  BY <1>1, <1>2, DaemonForms DEF LockHeld
<1>5. ~down' => \A x \in Daemons : st'[x] # "stopping"
  BY <1>1, DaemonForms DEF LockHeld
<1> QED
  BY <1>1, <1>3, <1>4, <1>5 DEF LockHeld

\* Mutual exclusion of those who start a daemon: whoever waits for one is alone, and a
\* daemon that finds the lock taken leaves it to one that comes up.
LEMMA DaemonMeets ==
  ASSUME TypeOK, LockHeld, NEW d \in Daemons, Starting(d) \/ Ending(d) \/ Stop(d) \/ Kill(d),
         NEW c \in Clients, WillMeet(c)
  PROVE  WillMeet(c)'
<1>1. UNCHANGED <<pc, told>> /\ \A x \in Daemons \ {d} : st'[x] = st[x]
  BY DaemonLeaves
<1>2. c \in Callers /\ told[c] = "unavailable" => down' \/ "timeout" \in hits'
  BY DaemonForms DEF WillMeet
<1>3. ASSUME ~down', pc[c] \in {"held", "spawn", "await"}
      PROVE  \A x \in Daemons : st'[x] \notin {"drain", "closing"}
  BY <1>1, <1>3, DaemonForms DEF WillMeet, LockHeld
<1>4. ASSUME ~down', pc[c] = "await" PROVE \E x \in Daemons : st'[x] \in Coming
  <2>1. ~down /\ \A x \in Daemons : st[x] \notin {"drain", "closing", "stopping"}
    BY <1>4, DaemonForms DEF WillMeet, LockHeld
  <2>2. PICK x \in Daemons : st[x] \in Coming
    BY <1>4, <2>1 DEF WillMeet
  <2>3. CASE x # d
    BY <1>1, <2>2, <2>3
  <2>4. CASE x = d /\ ~(st[d] = "start" /\ lock # None)
    BY <1>4, <2>1, <2>2, <2>4, DaemonForms DEF Coming
  <2>5. CASE st[d] = "start" /\ lock # None
    <3>1. boot = c
      BY <1>4 DEF LockHeld, Booting
    <3>2. lock \notin Clients
      BY <1>4, <3>1 DEF LockHeld, Booting
    <3>3. lock \in Daemons /\ st[lock] \in Holds
      BY <2>5, <3>2 DEF TypeOK, LockHeld
    <3>4. lock # d /\ st[lock] \in Coming
      BY <2>1, <2>5, <3>3 DEF Holds, HasDatabase, Coming
    <3> QED
      BY <1>1, <3>3, <3>4
  <2> QED
    BY <2>2, <2>3, <2>4, <2>5
<1>5. ASSUME ~down', pc[c] = "call" PROVE \E x \in Daemons : st'[x] = "serving"
  <2>1. PICK x \in Daemons : st[x] = "serving"
    BY <1>5, DaemonForms DEF WillMeet
  <2>2. x # d
    BY <1>5, <2>1, DaemonForms
  <2> QED
    BY <1>1, <2>1, <2>2
<1> QED
  BY <1>1, <1>2, <1>3, <1>4, <1>5 DEF WillMeet

\* Handlers leave the lock alone.
LEMMA HandlerLock ==
  ASSUME TypeOK, LockHeld, NEW e \in Clients, NEW i \in Attempts, Handle(e, i)
  PROVE  LockHeld'
<1>1. UNCHANGED <<lock, boot>>
  BY HandlerMovesDaemon
<1>2. \A c \in Clients : pc'[c] = pc[c] \/ (pc[c] = "wait" /\ pc'[c] \in {"end", "drained"})
  BY HandlerAnswers DEF Listens
<1>3. \A d \in Daemons : st'[d] = st[d] \/ (st[d] = "serving" /\ st'[d] = "stopping" /\ down')
  BY HandlerMovesDaemon DEF TypeOK
<1>4. down => down'
  BY HandlerMovesDaemon
<1> QED
  BY <1>1, <1>2, <1>3, <1>4 DEF LockHeld, Booting, Holds, HasDatabase

\* An acknowledged stop is a stop.
LEMMA HandlerMeets ==
  ASSUME TypeOK, NEW e \in Clients, NEW i \in Attempts, Handle(e, i), NEW c \in Clients, WillMeet(c)
  PROVE  WillMeet(c)'
<1>1. hits' = hits /\ (down' \/ UNCHANGED <<st, down>>)
  BY HandlerMovesDaemon
<1>2. pc'[c] = pc[c] \/ (pc'[c] \in {"end", "drained"})
  BY HandlerAnswers
<1>3. told'[c] = "unavailable" => told[c] = "unavailable"
  BY HandlerAnswers
<1>4. down => down'
  BY HandlerMovesDaemon
<1> QED
  BY <1>1, <1>2, <1>3, <1>4 DEF WillMeet

\* A daemon that comes up was off, so it had no lock.
LEMMA ComesUp ==
  ASSUME TypeOK, LockHeld, NEW d \in Daemons, Fresh(d), st' = [st EXCEPT ![d] = "start"]
  PROVE  /\ \A x \in Daemons : x # d => st'[x] = st[x]
         /\ st'[d] = "start" /\ st[d] = "off"
         /\ lock \in Daemons => st'[lock] \in Holds
<1>1. \A x \in Daemons : x # d => st'[x] = st[x]
  BY DEF TypeOK
<1>2. st'[d] = "start" /\ st[d] = "off"
  BY DEF TypeOK, Fresh
<1>3. lock # d
  BY <1>2 DEF LockHeld, Holds, HasDatabase
<1> QED
  BY <1>1, <1>2, <1>3 DEF LockHeld

\* A daemon started by hand is one more that comes up.
LEMMA HandStart ==
  ASSUME TypeOK, LockHeld, StartByHand
  PROVE  LockHeld' /\ \A c \in Clients : WillMeet(c) => WillMeet(c)'
<1>1. PICK d \in Daemons : Fresh(d) /\ st' = [st EXCEPT ![d] = "start"]
  BY StartsOne DEF StartByHand, Become
<1>2. UNCHANGED <<lock, boot, pc, told, down>> /\ hits \subseteq hits'
  BY DEF StartByHand, clientVars, Disturb
<1>3. /\ \A x \in Daemons : x # d => st'[x] = st[x]
      /\ st'[d] = "start" /\ st[d] = "off"
      /\ lock \in Daemons => st'[lock] \in Holds
  BY <1>1, ComesUp
<1>4. LockHeld'
  BY <1>2, <1>3 DEF LockHeld
<1>5. ASSUME NEW c \in Clients, WillMeet(c) PROVE WillMeet(c)'
  BY <1>2, <1>3, <1>5 DEF WillMeet, Coming
<1> QED
  BY <1>4, <1>5

\* Clients take the lock when nobody has it and drop only their own.
LEMMA ClientLock ==
  ASSUME TypeOK, LockHeld, NEW e \in Clients, CallInv(e),
         Send(e) \/ Client(e) \/ TimeOut(e) \/ Quit(e) \/ Cut(e) \/ Repeat(e)
  PROVE  LockHeld'
<1> USE DEF Go, End, OnlyClient, Ensured, Expire, Calm, daemonVars, requestVars
<1>1. None \notin Clients /\ None \notin Daemons /\ e \notin Daemons
  BY ProcessesAssumption
<1>2. CASE TryLock(e)
  BY <1>1, <1>2 DEF TypeOK, LockHeld, TryLock, Booting
<1>3. CASE ReleaseLock(e)
  BY <1>1, <1>3 DEF TypeOK, LockHeld, ReleaseLock, Booting
<1>4. CASE LockBootstrap(e)
  BY <1>1, <1>4 DEF TypeOK, LockHeld, LockBootstrap, Booting
<1>5. CASE Ping(e) \/ Probe(e) \/ Await(e)
  BY <1>1, <1>5 DEF TypeOK, LockHeld, Ping, Probe, Await, Booting
<1>6. CASE GiveUp(e) \/ TimeOut(e) \/ Quit(e)
  <2>1. /\ pc' = [pc EXCEPT ![e] = "end"] /\ Drops(e) /\ UNCHANGED <<st, down>>
    BY <1>6 DEF GiveUp, TimeOut, Quit
  <2> QED
    BY <1>1, <2>1 DEF TypeOK, LockHeld, Drops, Booting
<1>7. CASE Spawn(e)
  <2>1. PICK d \in Daemons : Fresh(d) /\ st' = [st EXCEPT ![d] = "start"]
    BY <1>7, StartsOne DEF Spawn, Become
  <2>2. /\ \A x \in Daemons : x # d => st'[x] = st[x]
        /\ st'[d] = "start" /\ (lock \in Daemons => st'[lock] \in Holds)
    BY <2>1, ComesUp
  <2>3. UNCHANGED <<lock, boot, down>> /\ pc[e] = "spawn" /\ pc' = [pc EXCEPT ![e] = "await"]
    BY <1>7 DEF Spawn
  <2> QED
    BY <2>2, <2>3 DEF TypeOK, LockHeld, Booting
<1>8. CASE Send(e) \/ Lost(e) \/ WaitDrain(e) \/ Resend(e) \/ Status(e) \/ Cut(e) \/ Repeat(e)
  <2>1. /\ UNCHANGED <<st, lock, boot, down>> /\ pc[e] # "held"
        /\ \E s \in {"wait", "drained", "ping", "end"} : pc' = [pc EXCEPT ![e] = s]
    <3>1. CASE Send(e)
      BY <3>1 DEF Send
    <3>2. CASE Lost(e) \/ WaitDrain(e)
      BY <3>2 DEF Lost, WaitDrain
    <3>3. CASE Resend(e) \/ Status(e)
      BY <3>3 DEF Resend, Status
    <3>4. CASE Cut(e)
      BY <3>4 DEF Cut
    <3>5. CASE Repeat(e)
      BY <3>5 DEF Repeat, CallInv
    <3> QED
      BY <1>8, <3>1, <3>2, <3>3, <3>4, <3>5
  <2> QED
    BY <2>1 DEF TypeOK, LockHeld, Booting
<1> QED
  BY <1>2, <1>3, <1>4, <1>5, <1>6, <1>7, <1>8 DEF Client

\* Who saw the lock free, or a daemon answer, goes on to find one.
LEMMA ClientMeets ==
  ASSUME TypeOK, Ownership, LockHeld, NEW e \in Clients, CallInv(e),
         Send(e) \/ Client(e) \/ TimeOut(e) \/ Quit(e) \/ Cut(e) \/ Repeat(e),
         NEW c \in Clients, WillMeet(c)
  PROVE  WillMeet(c)'
<1>1. hits \subseteq hits' /\ down' = down
  BY DEF Send, Client, TimeOut, Quit, Cut, Repeat, Lost, WaitDrain, Ping, LockBootstrap, Probe,
     TryLock, ReleaseLock, Spawn, Await, Resend, Status, GiveUp, OnlyClient, Calm, Expire, Disturb
<1>2. \A d \in Daemons : st'[d] = st[d] \/ (st[d] = "off" /\ st'[d] = "start")
  BY ClientCalls DEF Fresh, TypeOK
<1>3. ASSUME pc'[c] = pc[c], told'[c] = told[c]
      PROVE  WillMeet(c)'
  BY <1>1, <1>2, <1>3 DEF WillMeet, Coming
<1>4. CASE c # e
  BY <1>3, <1>4, ClientLeaves
<1>5. ASSUME c = e, pc'[e] \in {"idle", "wait", "drained", "ping", "boot", "probe", "try", "end"},
             told'[e] = "unavailable" /\ e \in Callers => down \/ "timeout" \in hits'
      PROVE  WillMeet(c)'
  BY <1>1, <1>5 DEF WillMeet
<1>6. pc[e] # "end" => told[e] = "none"
  BY DEF CallInv
<1> USE DEF Go, End, OnlyClient, Ensured, Expire
<1>7. CASE c = e /\ TryLock(e)
  <2>1. CASE lock = None
    <3>1. \A d \in Daemons : st[d] \notin Holds
      BY <2>1, ProcessesAssumption DEF Ownership
    <3>2. pc'[e] = "held" /\ told'[e] = "none" /\ UNCHANGED st
      BY <1>6, <1>7, <2>1 DEF TryLock, TypeOK
    <3> QED
      BY <1>7, <3>1, <3>2 DEF WillMeet, Holds, HasDatabase
  <2>2. CASE lock # None
    BY <1>5, <1>6, <1>7, <2>2 DEF TryLock, TypeOK
  <2> QED
    BY <2>1, <2>2
<1>8. CASE c = e /\ ReleaseLock(e)
  <2>1. pc[e] = "held" /\ pc'[e] = "spawn" /\ told'[e] = "none" /\ UNCHANGED st
    BY <1>6, <1>8 DEF ReleaseLock, TypeOK
  <2> QED
    BY <1>1, <1>8, <2>1 DEF WillMeet
<1>9. CASE c = e /\ Spawn(e)
  <2>1. pc[e] = "spawn" /\ pc'[e] = "await" /\ told'[e] = "none"
    BY <1>6, <1>9 DEF Spawn, TypeOK
  <2>2. \E d \in Daemons : st'[d] = "start"
    BY <1>9, StartsOne DEF Spawn, Become, TypeOK
  <2> QED
    BY <1>1, <1>2, <1>9, <2>1, <2>2 DEF WillMeet, Coming
<1>10. CASE c = e /\ (Ping(e) \/ Probe(e) \/ Await(e))
  <2>1. told'[e] = "none" /\ UNCHANGED st
    BY <1>6, <1>10 DEF Ping, Probe, Await
  <2>2. CASE pc'[e] \in {"boot", "try"}
    BY <1>5, <1>10, <2>1, <2>2
  <2>3. CASE Answered /\ pc'[e] = "call"
    <3>1. ~down => \E d \in Daemons : st[d] = "serving"
      BY <2>3 DEF Answered, Answers, Accepting, LockHeld
    <3> QED
      BY <1>1, <1>10, <2>1, <2>3, <3>1 DEF WillMeet
  <2> QED
    BY <1>10, <2>2, <2>3 DEF Ping, Probe, Await, TypeOK
<1>11. CASE c = e /\ (Resend(e) \/ Status(e))
  <2>1. e \in Callers => e \notin Restarters
    BY ProcessesAssumption
  <2>2. pc[e] = "call" /\ pc'[e] \in {"wait", "ping", "end"}
    BY <1>11 DEF Resend, Status, TypeOK
  <2>3. ASSUME told'[e] = "unavailable", e \in Callers PROVE down
    <3>1. Resend(e) /\ Refused
      BY <1>6, <1>11, <2>1, <2>2, <2>3 DEF Resend, Status, TypeOK
    <3>2. \A d \in Daemons : st[d] # "serving"
      BY <3>1 DEF Refused, Answers, Accepting, Ownership
    <3> QED
      BY <1>11, <2>2, <3>2 DEF WillMeet
  <2> QED
    BY <1>5, <1>11, <2>2, <2>3
<1>12. CASE c = e /\ GiveUp(e)
  <2>1. /\ pc'[e] = "end"
        /\ pc[e] # "drained" => pc[e] = "await" /\ \A d \in Daemons : st[d] = "off"
    BY <1>12 DEF GiveUp, TypeOK
  <2>2. e \in Callers => pc[e] # "drained"
    BY DEF CallInv
  <2>3. e \in Callers => down
    BY <1>12, <2>1, <2>2 DEF WillMeet, Coming
  <2> QED
    BY <1>5, <1>12, <2>1, <2>3
<1>13. CASE c = e /\ TimeOut(e)
  BY <1>5, <1>13 DEF TimeOut, Disturb, TypeOK
<1>14. CASE c = e /\ (\/ Send(e) \/ Lost(e) \/ WaitDrain(e) \/ LockBootstrap(e)
                      \/ Quit(e) \/ Cut(e) \/ Repeat(e))
  <2>1. pc'[e] \in {"wait", "drained", "ping", "probe", "end"}
    BY <1>14 DEF Send, Lost, WaitDrain, LockBootstrap, Quit, Cut, Repeat, TypeOK
  <2>2. told'[e] \in {"none", "unknown", "quit"}
    BY <1>6, <1>14 DEF Send, Lost, WaitDrain, LockBootstrap, Quit, Cut, Repeat, TypeOK
  <2> QED
    BY <1>5, <1>14, <2>1, <2>2
<1> QED
  BY <1>4, <1>7, <1>8, <1>9, <1>10, <1>11, <1>12, <1>13, <1>14 DEF Client

-----------------------------------------------------------------------------
(* All of it.                                                              *)

ClientInv(c) ==
  /\ ReceiptInv(c) /\ CallInv(c) /\ OldInv(c) /\ UnhurtInv(c) /\ WholeInv(c) /\ WillMeet(c)
AnswerInv == PlaceInv /\ LockHeld /\ \A c \in Clients : ClientInv(c)

\* The initial states.
LEMMA AnswerInit == Init => AnswerInv
<1> SUFFICES ASSUME Init PROVE AnswerInv
  OBVIOUS
<1>1. \A c \in Clients, i \in Attempts : hd[c][i].st = "none"
  BY DEF Init, NoHandler
<1>2. PlaceInv
  BY <1>1 DEF PlaceInv, Running
<1>3. First \in Daemons /\ None \notin Daemons /\ \A c \in Clients : c \notin Daemons /\ c # None
  BY ProcessesAssumption DEF First
<1>4. LockHeld
  BY <1>3, Zenon DEF Init, LockHeld, Booting, Holds, HasDatabase
<1>5. ASSUME NEW c \in Clients PROVE ClientInv(c)
  <2>1. /\ pc[c] = "idle" /\ told[c] = "none" /\ conn[c] = 1 /\ receipt[c] = "none"
        /\ applied[c] = 0 /\ old[c] = None
    BY DEF Init
  <2>2. ReceiptInv(c) /\ CallInv(c) /\ UnhurtInv(c) /\ WholeInv(c)
    BY <1>1, <2>1 DEF ReceiptInv, Executes, Executing, CallInv, Unsent, Attempts, UnhurtInv, WholeInv
  <2>3. OldInv(c) /\ WillMeet(c)
    BY <2>1 DEF OldInv, WillMeet
  <2> QED
    BY <2>2, <2>3 DEF ClientInv
<1> QED
  BY <1>2, <1>4, <1>5 DEF AnswerInv

\* A daemon started by hand tells nobody anything.
LEMMA HandStartAnswers == TypeOK /\ AnswerInv /\ StartByHand => AnswerInv'
<1> SUFFICES ASSUME TypeOK, AnswerInv, StartByHand PROVE AnswerInv'
  OBVIOUS
<1>1. PICK d \in Daemons : Fresh(d) /\ st' = [st EXCEPT ![d] = "start"]
  BY StartsOne DEF StartByHand, Become
<1>2. /\ UNCHANGED <<pc, told, conn, old, by, hd, receipt, applied>>
      /\ hits \subseteq hits'
  BY DEF StartByHand, clientVars, requestVars, Disturb
<1>3. \A x \in Daemons : x # d => st'[x] = st[x]
  BY <1>1 DEF TypeOK
<1>4. PlaceInv'
  BY <1>1, <1>2, <1>3 DEF AnswerInv, PlaceInv, Fresh
<1>5. ASSUME NEW c \in Clients
      PROVE  ReceiptInv(c)' /\ CallInv(c)' /\ OldInv(c)' /\ UnhurtInv(c)' /\ WholeInv(c)'
  <2>1. old[c] # d /\ old[c] \in Daemons \cup {None}
    BY <1>1 DEF Fresh, TypeOK
  <2>2. ReceiptInv(c)' /\ CallInv(c)' /\ UnhurtInv(c)' /\ WholeInv(c)'
    BY <1>2 DEF AnswerInv, ClientInv, ReceiptInv, Executes, CallInv, Unsent, UnhurtInv, Unhurt,
       WholeInv, Whole
  <2>3. OldInv(c)'
    BY <1>2, <1>3, <2>1 DEF AnswerInv, ClientInv, OldInv
  <2> QED
    BY <2>2, <2>3
<1> QED
  BY <1>4, <1>5, HandStart DEF AnswerInv, ClientInv

\* Each kind of step keeps it.
LEMMA AnswerStep == TypeOK /\ Ownership /\ Effects /\ AnswerInv /\ [Next]_vars => AnswerInv'
<1> SUFFICES ASSUME TypeOK, Ownership, Effects, AnswerInv, [Next]_vars PROVE AnswerInv'
  OBVIOUS
<1>0. PlaceInv /\ LockHeld /\ \A c \in Clients : /\ ReceiptInv(c) /\ CallInv(c) /\ OldInv(c)
                                                 /\ UnhurtInv(c) /\ WholeInv(c) /\ WillMeet(c)
  BY DEF AnswerInv, ClientInv
<1>1. CASE UNCHANGED vars
  BY <1>1 DEF vars, AnswerInv, PlaceInv, LockHeld, ClientInv, ReceiptInv, Executes, CallInv, Unsent,
     OldInv, UnhurtInv, Unhurt, WholeInv, Whole, WillMeet
<1>2. ASSUME NEW d \in Daemons, Starting(d) \/ Ending(d) \/ Stop(d) \/ Kill(d)
      PROVE  AnswerInv'
  BY <1>0, <1>2, DaemonPlace, DaemonLock, DaemonReceipts, DaemonCall, DaemonOld, DaemonUnhurt,
     DaemonWhole, DaemonMeets DEF AnswerInv, ClientInv
<1>3. ASSUME NEW e \in Clients, NEW i \in Attempts, Handle(e, i)
      PROVE  AnswerInv'
  BY <1>0, <1>3, HandlerPlace, HandlerLock, HandlerReceipts, HandlerCall, HandlerOld,
     HandlerUnhurt, HandlerWhole, HandlerMeets DEF AnswerInv, ClientInv
<1>4. ASSUME NEW e \in Clients, Send(e) \/ Client(e) \/ TimeOut(e) \/ Quit(e) \/ Cut(e) \/ Repeat(e)
      PROVE  AnswerInv'
  BY <1>0, <1>4, ClientPlace, ClientLock, ClientReceipts, ClientCall, ClientOld,
     ClientUnhurt, ClientWhole, ClientMeets DEF AnswerInv, ClientInv
<1> QED
  BY <1>1, <1>2, <1>3, <1>4, HandStartAnswers DEF Next

\* Receipts, handlers and what clients were told agree in every reachable state.
THEOREM AnswerInvariance == Spec => [](TypeOK /\ Ownership /\ Effects /\ AnswerInv)
<1>1. Init => TypeOK /\ Ownership /\ Effects /\ AnswerInv
  BY InitTypes, InitOwnership, InitEffects, AnswerInit
<1>2. TypeOK /\ Ownership /\ Effects /\ AnswerInv /\ [Next]_vars
        => (TypeOK /\ Ownership /\ Effects /\ AnswerInv)'
  BY TypesStep, OwnershipStep, EffectsStep, AnswerStep
<1> QED
  BY <1>1, <1>2, PTL DEF Spec

\* What a client was told is true, and stays true: "ok" took effect, "failed", "rejected" and
\* "unavailable" did not and never will, except that the rejection of a repeat tells nothing
\* of a first send that was cut off; a restart reports another daemon than the stopped one.
THEOREM AnswersHold == Spec => []AnswersAreTrue
<1>1. TypeOK /\ Effects /\ AnswerInv => AnswersAreTrue
  <2> SUFFICES ASSUME TypeOK, Effects, AnswerInv PROVE AnswersAreTrue
    OBVIOUS
  <2>1. ASSUME NEW c \in Callers
        PROVE  /\ told[c] = "ok" => applied[c] = 1
               /\ told[c] = "failed" => /\ applied[c] = 0 /\ receipt[c] = "failed"
                                        /\ {hd[c][i].st : i \in Attempts} \cap Executing = {}
               /\ told[c] = "rejected" =>
                    \/ /\ applied[c] = 0 /\ receipt[c] = "none"
                       /\ {hd[c][i].st : i \in Attempts} \cap Running = {}
                    \/ conn[c] = 2 /\ "cut" \in hits
               /\ told[c] = "unavailable" => /\ applied[c] = 0
                                             /\ {hd[c][i].st : i \in Attempts} \cap Running = {}
    <3>1. c \in Clients
      BY DEF Clients
    <3>2. told[c] = "rejected" =>
            \/ /\ applied[c] = 0 /\ receipt[c] = "none"
               /\ {hd[c][i].st : i \in Attempts} \cap Running = {}
            \/ conn[c] = 2 /\ "cut" \in hits
      <4>1. conn[c] \in {1, 2}
        BY <3>1 DEF TypeOK, Attempts
      <4>2. told[c] = "rejected" /\ Whole(c) =>
              receipt[c] = "none" /\ \A i \in Attempts : hd[c][i].st \notin Running
        BY <3>1 DEF AnswerInv, ClientInv, WholeInv, Running
      <4> QED
        BY <3>1, <4>1, <4>2 DEF Whole, Effects
    <3> QED
      BY <3>1, <3>2 DEF AnswerInv, ClientInv, CallInv, ReceiptInv, Executes, Effects, Unsent, Running
  <2>2. \A c \in Restarters : told[c] = "ok" => by[c] # old[c]
    BY DEF AnswerInv, ClientInv, OldInv, Clients
  <2> QED
    BY <2>1, <2>2 DEF AnswersAreTrue
<1> QED
  BY <1>1, AnswerInvariance, PTL

\* A stop that drains loses no answer: only a kill or a cut leaves a client in doubt about
\* a request that took effect.
THEOREM DrainKeepsAnswers == Spec => []DrainLosesNothing
<1>1. Effects /\ AnswerInv => DrainLosesNothing
  BY DEF AnswerInv, ClientInv, UnhurtInv, Unhurt, Effects, DrainLosesNothing
<1> QED
  BY <1>1, AnswerInvariance, PTL

\* Clients that start daemons at the same time, their probes of the lock and daemons started
\* by hand leave no caller without a daemon.
THEOREM StartersSucceed == Spec => []NotDefeated
<1>1. AnswerInv => NotDefeated
  BY DEF AnswerInv, ClientInv, WillMeet, NotDefeated, Clients
<1> QED
  BY <1>1, AnswerInvariance, PTL
=============================================================================
