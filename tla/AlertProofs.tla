--------------------------- MODULE AlertProofs ---------------------------
(***************************************************************************)
(* Theorems about the alerts of a blocked worker, for any invokers, any    *)
(* disturbances and any number of episodes. An alert that can still be     *)
(* said of an episode is counted where it is kept: on the worker's row,    *)
(* which has not recorded a first alert, or on an alert to a worker that   *)
(* was not escalated. A step moves one from place to place; only a row put *)
(* back makes a new one.                                                   *)
(***************************************************************************)
EXTENDS BlockedAlerts, SequenceTheorems, FiniteSetTheorems, TLAPS

Row == [state: {"working", "blocked", "offline", "lost"}, blockedAt: Nat, alertedAt: Nat,
        alertId: Nat, escalated: BOOLEAN, due: SUBSET {"block", "alert"}]
Delivery == [about: Nat, why: {"first", "still", "unreachable"}, to: {"requester", "human"},
             escalated: BOOLEAN, wake: {"human", "queued", "taken"}]

TypeOK ==
  /\ row \in Row /\ held \in [kind: {"none", "rewrite", "adopt"}, row: Row]
  /\ requester \in BOOLEAN /\ dispatch \in BOOLEAN
  /\ deliveries \in Seq(Delivery)
  /\ pc \in {"rest", "worker", "deliveries", "tell"}
  /\ todo \in SUBSET (1..Len(deliveries))
  /\ episodes \in Nat /\ putBacks \in Nat

\* What a row, the worker's or one a command holds, says of the alerts q of n episodes:
\* the alert it names is about its episode, and one not escalated went to a worker.
Kept(r, q, n) ==
  /\ r.blockedAt <= n
  /\ r.blockedAt = 0 => r.alertedAt = 0 /\ r.due = {}
  /\ r.alertedAt # 0 => /\ r.alertedAt \in 1..Len(q) /\ q[r.alertedAt].about = r.blockedAt
                        /\ ~r.escalated => r.alertId = r.alertedAt /\ q[r.alertedAt].to # "human"

\* An alert is about an episode; the human's are neither typed nor escalated.
Sane(a, n) == /\ a.about \in 1..n
              /\ a.to = "human" => ~a.escalated /\ a.wake = "human"

\* The first alerts of an episode, and those that reached the human or still may.
Firsts(q, e) == {i \in 1..Len(q) : q[i].about = e /\ q[i].why = "first"}
Open(q, e) == {i \in 1..Len(q) : q[i].about = e /\ ~q[i].escalated}

\* The first alert that a row has still to record.
Waiting(r, e) == IF r.blockedAt = e /\ r.alertedAt = 0 THEN 1 ELSE 0

Tallied(r, q, e, p) == /\ Cardinality(Firsts(q, e)) + Waiting(r, e) <= 1 + p
                       /\ Cardinality(Open(q, e)) + Waiting(r, e) <= 1 + p

Inv == /\ TypeOK
       /\ Kept(row, deliveries, episodes) /\ Kept(held.row, deliveries, episodes)
       /\ \A i \in 1..Len(deliveries) : Sane(deliveries[i], episodes)
       /\ \A i \in todo : deliveries[i].to # "human"
       /\ \A e \in 1..episodes : Tallied(row, deliveries, e, putBacks)

-----------------------------------------------------------------------------
(* The alerts, as a sequence.                                              *)

\* Both sets are finite.
LEMMA Finite ==
  ASSUME NEW q \in Seq(Delivery), NEW e
  PROVE  /\ IsFiniteSet(Firsts(q, e)) /\ Cardinality(Firsts(q, e)) \in Nat
         /\ IsFiniteSet(Open(q, e)) /\ Cardinality(Open(q, e)) \in Nat
<1>1. Len(q) \in Nat /\ IsFiniteSet(1..Len(q))
  BY LenProperties, FS_Interval
<1>2. Firsts(q, e) \in SUBSET (1..Len(q)) /\ Open(q, e) \in SUBSET (1..Len(q))
  BY DEF Firsts, Open
<1>3. IsFiniteSet(Firsts(q, e)) /\ IsFiniteSet(Open(q, e))
  BY <1>1, <1>2, FS_Subset
<1> QED
  BY <1>3, FS_CardinalityType

\* q is what z was before alerts were sent, typed or escalated.
Grows(q, z) == /\ Len(q) <= Len(z)
               /\ \A i \in 1..Len(q) : z[i].about = q[i].about /\ z[i].to = q[i].to

\* What a row says stays right.
LEMMA KeptLater ==
  ASSUME NEW q \in Seq(Delivery), NEW z \in Seq(Delivery), Grows(q, z),
         NEW n \in Nat, NEW m \in Nat, n <= m, NEW r \in Row, Kept(r, q, n)
  PROVE  Kept(r, z, m)
<1>1. Len(q) \in Nat /\ Len(z) \in Nat /\ r.blockedAt \in Nat /\ r.alertedAt \in Nat
  BY LenProperties DEF Row
<1> QED
  BY <1>1, SMT DEF Kept, Grows

\* The one index that is new.
LEMMA NewIndex ==
  ASSUME NEW k \in Nat, NEW j \in 1..(k + 1), j \notin 1..k
  PROVE  j = k + 1
  BY SMT

\* One more alert.
LEMMA Sending ==
  ASSUME NEW q \in Seq(Delivery), NEW a \in Delivery, NEW e
  PROVE  /\ Append(q, a) \in Seq(Delivery) /\ Len(Append(q, a)) = Len(q) + 1
         /\ Grows(q, Append(q, a))
         /\ \A i \in 1..Len(q) : Append(q, a)[i] = q[i]
         /\ Append(q, a)[Len(q) + 1] = a
         /\ Cardinality(Firsts(Append(q, a), e)) =
              Cardinality(Firsts(q, e)) + (IF a.about = e /\ a.why = "first" THEN 1 ELSE 0)
         /\ Cardinality(Open(Append(q, a), e)) =
              Cardinality(Open(q, e)) + (IF a.about = e /\ ~a.escalated THEN 1 ELSE 0)
<1> DEFINE z == Append(q, a)
           k == Len(q) + 1
<1>1. Len(q) \in Nat /\ z \in Seq(Delivery) /\ Len(z) = k
  BY LenProperties, AppendProperties
<1>2. z[k] = a /\ \A i \in 1..Len(q) : z[i] = q[i]
  BY AppendProperties
<1>3. 1..Len(z) = 1..Len(q) \cup {k} /\ k \notin 1..Len(q)
  BY <1>1, SMT
<1> HIDE DEF z, k
<1>4. k \notin Firsts(q, e) /\ k \notin Open(q, e)
  BY <1>3 DEF Firsts, Open
<1>5. Firsts(z, e) = Firsts(q, e) \cup {i \in {k} : a.about = e /\ a.why = "first"}
  BY <1>2, <1>3 DEF Firsts
<1>6. Open(z, e) = Open(q, e) \cup {i \in {k} : a.about = e /\ ~a.escalated}
  BY <1>2, <1>3 DEF Open
<1>7. Cardinality(Firsts(z, e)) =
        Cardinality(Firsts(q, e)) + (IF a.about = e /\ a.why = "first" THEN 1 ELSE 0)
  <2>1. CASE a.about = e /\ a.why = "first"
    <3>1. Firsts(z, e) = Firsts(q, e) \cup {k}
      BY <1>5, <2>1
    <3> QED
      BY <3>1, <1>4, <2>1, Finite, FS_AddElement
  <2>2. CASE ~(a.about = e /\ a.why = "first")
    <3>1. Firsts(z, e) = Firsts(q, e)
      BY <1>5, <2>2
    <3> QED
      BY <3>1, <2>2, Finite
  <2> QED
    BY <2>1, <2>2
<1>8. Cardinality(Open(z, e)) =
        Cardinality(Open(q, e)) + (IF a.about = e /\ ~a.escalated THEN 1 ELSE 0)
  <2>1. CASE a.about = e /\ ~a.escalated
    <3>1. Open(z, e) = Open(q, e) \cup {k}
      BY <1>6, <2>1
    <3> QED
      BY <3>1, <1>4, <2>1, Finite, FS_AddElement
  <2>2. CASE ~(a.about = e /\ ~a.escalated)
    <3>1. Open(z, e) = Open(q, e)
      BY <1>6, <2>2
    <3> QED
      BY <3>1, <2>2, Finite
  <2> QED
    BY <2>1, <2>2
<1>9. Grows(q, z)
  BY <1>1, <1>2, SMT DEF Grows, k
<1> QED
  BY <1>1, <1>2, <1>7, <1>8, <1>9 DEF z, k

\* An alert is escalated: it leaves the open ones.
LEMMA Escalating ==
  ASSUME NEW q \in Seq(Delivery), NEW i \in 1..Len(q), NEW e
  PROVE  LET z == [q EXCEPT ![i].escalated = TRUE]
         IN /\ z \in Seq(Delivery) /\ Len(z) = Len(q) /\ Grows(q, z)
            /\ \A j \in 1..Len(q) : j # i => z[j] = q[j]
            /\ z[i].escalated = TRUE /\ z[i].about = q[i].about /\ z[i].to = q[i].to
            /\ Firsts(z, e) = Firsts(q, e)
            /\ Cardinality(Open(z, e)) =
                 Cardinality(Open(q, e)) - (IF q[i].about = e /\ ~q[i].escalated THEN 1 ELSE 0)
<1> DEFINE b == [q[i] EXCEPT !.escalated = TRUE]
           z == [q EXCEPT ![i] = b]
<1>1. Len(q) \in Nat /\ q \in [1..Len(q) -> Delivery] /\ q[i] \in Delivery
  BY LenProperties
<1>2. b \in Delivery /\ b.escalated = TRUE /\ b.about = q[i].about /\ b.to = q[i].to
      /\ b.why = q[i].why
  BY <1>1 DEF Delivery
<1> HIDE DEF b
<1>3. z \in [1..Len(q) -> Delivery] /\ z[i] = b /\ \A j \in 1..Len(q) : j # i => z[j] = q[j]
  BY <1>1, <1>2
<1>4. z \in Seq(Delivery) /\ Len(z) = Len(q)
  <2>1. z \in Seq(Delivery)
    BY <1>1, <1>2, SMT
  <2>2. DOMAIN z = 1..Len(z) /\ DOMAIN z = 1..Len(q) /\ Len(z) \in Nat
    BY <1>3, <2>1, LenProperties
  <2> QED
    BY <2>1, <2>2, <1>1, SMT
<1> HIDE DEF z
<1>5. Grows(q, z)
  BY <1>1, <1>2, <1>3, <1>4, SMT DEF Grows
<1>6. Firsts(z, e) = Firsts(q, e)
  BY <1>2, <1>3, <1>4 DEF Firsts
<1>7. Cardinality(Open(z, e)) =
        Cardinality(Open(q, e)) - (IF q[i].about = e /\ ~q[i].escalated THEN 1 ELSE 0)
  <2>1. Open(z, e) = Open(q, e) \ {i}
    BY <1>2, <1>3, <1>4 DEF Open
  <2>2. i \in Open(q, e) <=> q[i].about = e /\ ~q[i].escalated
    BY DEF Open
  <2>3. Cardinality(Open(q, e) \ {i}) =
          IF i \in Open(q, e) THEN Cardinality(Open(q, e)) - 1 ELSE Cardinality(Open(q, e))
    BY Finite, FS_RemoveElement
  <2>4. Cardinality(Open(q, e)) \in Nat
    BY Finite
  <2> QED
    BY <2>1, <2>2, <2>3, <2>4, SMT
<1> QED
  BY <1>2, <1>3, <1>4, <1>5, <1>6, <1>7 DEF z, b

\* An alert is typed: nothing that is counted changes.
LEMMA Typing ==
  ASSUME NEW q \in Seq(Delivery), NEW i \in 1..Len(q), NEW e
  PROVE  LET z == [q EXCEPT ![i].wake = "taken"]
         IN /\ z \in Seq(Delivery) /\ Len(z) = Len(q) /\ Grows(q, z)
            /\ \A j \in 1..Len(q) : j # i => z[j] = q[j]
            /\ z[i].escalated = q[i].escalated /\ z[i].about = q[i].about /\ z[i].to = q[i].to
            /\ Firsts(z, e) = Firsts(q, e) /\ Open(z, e) = Open(q, e)
<1> DEFINE b == [q[i] EXCEPT !.wake = "taken"]
           z == [q EXCEPT ![i] = b]
<1>1. Len(q) \in Nat /\ q \in [1..Len(q) -> Delivery] /\ q[i] \in Delivery
  BY LenProperties
<1>2. b \in Delivery /\ b.escalated = q[i].escalated /\ b.about = q[i].about /\ b.to = q[i].to
      /\ b.why = q[i].why
  BY <1>1 DEF Delivery
<1> HIDE DEF b
<1>3. z \in [1..Len(q) -> Delivery] /\ z[i] = b /\ \A j \in 1..Len(q) : j # i => z[j] = q[j]
  BY <1>1, <1>2
<1>4. z \in Seq(Delivery) /\ Len(z) = Len(q)
  <2>1. z \in Seq(Delivery)
    BY <1>1, <1>2, SMT
  <2>2. DOMAIN z = 1..Len(z) /\ DOMAIN z = 1..Len(q) /\ Len(z) \in Nat
    BY <1>3, <2>1, LenProperties
  <2> QED
    BY <2>1, <2>2, <1>1, SMT
<1> HIDE DEF z
<1>5. Grows(q, z)
  BY <1>1, <1>2, <1>3, <1>4, SMT DEF Grows
<1>6. Firsts(z, e) = Firsts(q, e) /\ Open(z, e) = Open(q, e)
  BY <1>2, <1>3, <1>4 DEF Firsts, Open
<1> QED
  BY <1>2, <1>3, <1>4, <1>5, <1>6 DEF z, b

\* An alert that was sane stays so when episodes begin.
LEMMA SaneLater ==
  ASSUME NEW a \in Delivery, NEW n \in Nat, NEW m \in Nat, n <= m, Sane(a, n)
  PROVE  Sane(a, m)
<1>1. a.about \in Nat
  BY DEF Delivery
<1> QED
  BY <1>1, SMT DEF Sane

-----------------------------------------------------------------------------
(* What a step of the worker's row costs.                                  *)

\* As long as the new row waits for no more than the old one.
LEMMA TallyKept ==
  ASSUME NEW q \in Seq(Delivery), NEW e \in Nat, NEW p \in Nat, NEW r \in Row, NEW s \in Row,
         Tallied(r, q, e, p), Waiting(s, e) <= Waiting(r, e)
  PROVE  Tallied(s, q, e, p)
<1>1. Waiting(s, e) \in Nat /\ Waiting(r, e) \in Nat
  BY DEF Waiting
<1> HIDE DEF Waiting
<1>2. Cardinality(Firsts(q, e)) \in Nat /\ Cardinality(Open(q, e)) \in Nat
  BY Finite
<1> QED
  BY <1>1, <1>2, SMT DEF Tallied

\* A row put back waits again, at most, and is counted.
LEMMA TallyPutBack ==
  ASSUME NEW q \in Seq(Delivery), NEW e \in Nat, NEW p \in Nat, NEW r \in Row, NEW s \in Row,
         Tallied(r, q, e, p)
  PROVE  Tallied(s, q, e, p + 1)
<1>1. Waiting(s, e) \in {0, 1} /\ Waiting(r, e) \in {0, 1}
  BY DEF Waiting
<1> HIDE DEF Waiting
<1>2. Cardinality(Firsts(q, e)) \in Nat /\ Cardinality(Open(q, e)) \in Nat
  BY Finite
<1> QED
  BY <1>1, <1>2, SMT DEF Tallied

\* Nothing was said of an episode that begins.
LEMMA TallyNew ==
  ASSUME NEW q \in Seq(Delivery), NEW n \in Nat, NEW p \in Nat, NEW s \in Row,
         \A i \in 1..Len(q) : Sane(q[i], n)
  PROVE  Tallied(s, q, n + 1, p)
<1>1. \A i \in 1..Len(q) : q[i].about # n + 1
  BY SMT DEF Sane
<1>2. Firsts(q, n + 1) = {} /\ Open(q, n + 1) = {}
  BY <1>1 DEF Firsts, Open
<1>3. Waiting(s, n + 1) \in {0, 1}
  BY DEF Waiting
<1>4. Cardinality(Firsts(q, n + 1)) = 0 /\ Cardinality(Open(q, n + 1)) = 0
  BY <1>2, FS_EmptySet
<1> HIDE DEF Waiting
<1> QED
  BY <1>3, <1>4, SMT DEF Tallied

\* What blocked writes, from a row that says what is right.
LEMMA Blocking ==
  ASSUME TypeOK, NEW r \in Row, Kept(r, deliveries, episodes), Blocks(r)
  PROVE  /\ row' \in Row /\ episodes' \in Nat /\ episodes <= episodes'
         /\ row'.state = "blocked" /\ Kept(row', deliveries, episodes')
         /\ r.blockedAt # 0 => /\ episodes' = episodes /\ row'.blockedAt = r.blockedAt
                               /\ row'.alertedAt = r.alertedAt
         /\ r.blockedAt = 0 => /\ episodes' = episodes + 1 /\ row'.blockedAt = episodes + 1
                               /\ row'.alertedAt = 0
<1>1. episodes \in Nat
  BY DEF TypeOK
<1>2. CASE r.blockedAt # 0
  <2>1. row' = [r EXCEPT !.state = "blocked"] /\ episodes' = episodes
    BY <1>2 DEF Blocks, Episode
  <2>2. /\ row' \in Row /\ row'.state = "blocked" /\ row'.blockedAt = r.blockedAt
        /\ row'.alertedAt = r.alertedAt /\ row'.escalated = r.escalated
        /\ row'.alertId = r.alertId /\ row'.due = r.due
    BY <2>1 DEF Row
  <2> QED
    BY <1>1, <1>2, <2>1, <2>2, Zenon, SMT DEF Kept
<1>3. CASE r.blockedAt = 0
  <2>1. row' = [[r EXCEPT !.state = "blocked"] EXCEPT !.blockedAt = episodes + 1]
        /\ episodes' = episodes + 1
    BY <1>3 DEF Blocks, Episode
  <2>2. /\ row' \in Row /\ row'.state = "blocked" /\ row'.blockedAt = episodes + 1
        /\ row'.alertedAt = r.alertedAt
    <3>1. episodes + 1 \in Nat
      BY <1>1
    <3>2. [r EXCEPT !.state = "blocked"] \in Row
          /\ [r EXCEPT !.state = "blocked"].state = "blocked"
          /\ [r EXCEPT !.state = "blocked"].alertedAt = r.alertedAt
      BY DEF Row
    <3> DEFINE s == [r EXCEPT !.state = "blocked"]
               n == episodes + 1
    <3> HIDE DEF s, n
    <3>3. row' = [s EXCEPT !.blockedAt = n]
      BY <2>1 DEF s, n
    <3>4. s \in Row /\ n \in Nat /\ s.state = "blocked" /\ s.alertedAt = r.alertedAt
      BY <3>1, <3>2 DEF s, n
    <3>5. row' \in Row /\ row'.state = "blocked" /\ row'.blockedAt = n /\ row'.alertedAt = r.alertedAt
      BY <3>3, <3>4 DEF Row
    <3> QED
      BY <3>5 DEF n
  <2>3. r.alertedAt = 0
    BY <1>3 DEF Kept
  <2> QED
    BY <1>1, <1>3, <2>1, <2>2, <2>3, SMT DEF Kept
<1> QED
  BY <1>2, <1>3

\* A row with no episode.
LEMMA Cleared ==
  ASSUME NEW state \in {"working", "blocked", "offline", "lost"}, NEW q \in Seq(Delivery), NEW n \in Nat
  PROVE  /\ Clear(state) \in Row /\ Kept(Clear(state), q, n)
         /\ \A e \in 1..n : Waiting(Clear(state), e) = 0
<1>1. Clear(state) \in Row
  BY SMT DEF Clear, Row
<1>2. Clear(state).blockedAt = 0 /\ Clear(state).alertedAt = 0 /\ Clear(state).due = {}
  BY DEF Clear
<1>3. Kept(Clear(state), q, n)
  BY <1>2, SMT DEF Kept
<1>4. \A e \in 1..n : Waiting(Clear(state), e) = 0
  BY <1>2, SMT DEF Waiting
<1> QED
  BY <1>1, <1>3, <1>4

\* Two rows that record the same.
LEMMA SameRecord ==
  ASSUME NEW r \in Row, NEW s \in Row, r.blockedAt = s.blockedAt, r.alertedAt = s.alertedAt
  PROVE  /\ \A e : Waiting(r, e) = Waiting(s, e)
         /\ \A q, n : r.escalated = s.escalated /\ r.alertId = s.alertId /\ r.due = s.due
                      => (Kept(r, q, n) <=> Kept(s, q, n))
  BY Zenon DEF Waiting, Kept

\* A step that leaves the alerts alone keeps the invariant if its rows are right.
LEMMA RowStep ==
  ASSUME Inv, TypeOK', deliveries' = deliveries,
         \A i \in todo' : deliveries[i].to # "human",
         episodes <= episodes',
         Kept(row', deliveries, episodes'), Kept(held'.row, deliveries, episodes'),
         \A e \in 1..episodes' : Tallied(row', deliveries, e, putBacks')
  PROVE  Inv'
<1>1. deliveries \in Seq(Delivery) /\ episodes \in Nat /\ episodes' \in Nat
  BY DEF Inv, TypeOK
<1>2. \A i \in 1..Len(deliveries) : Sane(deliveries[i], episodes')
  <2>1. SUFFICES ASSUME NEW i \in 1..Len(deliveries) PROVE Sane(deliveries[i], episodes')
    OBVIOUS
  <2>2. deliveries[i] \in Delivery
    BY <1>1, ElementOfSeq
  <2>3. Sane(deliveries[i], episodes)
    BY DEF Inv
  <2> QED
    BY <1>1, <2>2, <2>3, SaneLater
<1> QED
  BY <1>2, Zenon DEF Inv

-----------------------------------------------------------------------------
(* The invariant, action by action.                                        *)

\* At the start nothing was said and nothing is to be.
LEMMA Initially == Init => Inv
<1> SUFFICES ASSUME Init PROVE Inv
  OBVIOUS
<1>1. deliveries = <<>> /\ episodes = 0 /\ putBacks = 0 /\ todo = {}
      /\ row = Clear("working") /\ held = Nobody
  BY DEF Init
<1>2. deliveries \in Seq(Delivery) /\ Len(deliveries) = 0
  BY <1>1, EmptySeq
<1>3. Clear("working") \in Row /\ Kept(Clear("working"), deliveries, episodes)
  BY <1>1, <1>2, Cleared
<1>4. held \in [kind: {"none", "rewrite", "adopt"}, row: Row] /\ held.row = Clear("working")
  BY <1>1, <1>3 DEF Nobody
<1>5. TypeOK
  BY <1>1, <1>2, <1>3, <1>4 DEF TypeOK, Init
<1>6. \A e \in 1..episodes : FALSE
  BY <1>1, SMT
<1>7. \A i \in 1..Len(deliveries) : FALSE
  BY <1>2, SMT
<1> QED
  BY <1>1, <1>3, <1>4, <1>5, <1>6, <1>7, Zenon DEF Inv

\* Deliveries, the tick's work and what the invariant says of them, in types.
LEMMA Types ==
  ASSUME Inv
  PROVE  /\ TypeOK /\ row \in Row /\ held.row \in Row /\ deliveries \in Seq(Delivery)
         /\ Len(deliveries) \in Nat /\ DOMAIN deliveries = 1..Len(deliveries)
         /\ episodes \in Nat /\ putBacks \in Nat
<1>1. TypeOK
  BY DEF Inv
<1>2. deliveries \in Seq(Delivery) /\ held.row \in Row
  BY <1>1 DEF TypeOK
<1> QED
  BY <1>1, <1>2, LenProperties DEF TypeOK

\* The worker is seen working, or idle: its episode ends.
LEMMA UnblocksStep == ASSUME Inv, Unblocks PROVE Inv'
<1>1. /\ row' = Clear("working") /\ held' = held /\ episodes' = episodes /\ putBacks' = putBacks
      /\ deliveries' = deliveries /\ todo' = todo
      /\ requester' = requester /\ dispatch' = dispatch /\ pc' = pc
  BY DEF Unblocks, dispatchVars, tickVars
<1>2. row' \in Row /\ Kept(row', deliveries, episodes) /\ \A e \in 1..episodes : Waiting(row', e) = 0
  BY <1>1, Types, Cleared
<1>3. TypeOK'
  BY <1>1, <1>2, Types DEF TypeOK
<1>4. ASSUME NEW e \in 1..episodes PROVE Tallied(row', deliveries, e, putBacks)
  <2>1. Tallied(row, deliveries, e, putBacks) /\ e \in Nat
    BY Types DEF Inv
  <2>2. Waiting(row', e) <= Waiting(row, e)
    BY <1>2, SMT DEF Waiting
  <2> QED
    BY <1>2, <2>1, <2>2, Types, TallyKept
<1> QED
  BY <1>1, <1>2, <1>3, <1>4, Types, RowStep, SMT DEF Inv

\* blocked, on a row that says what is right: the worker's own, or one put back.
LEMMA BlocksStep ==
  ASSUME Inv, NEW r \in Row, Kept(r, deliveries, episodes), Blocks(r),
         deliveries' = deliveries, TypeOK', todo' = todo,
         held'.row = held.row \/ Kept(held'.row, deliveries, episodes),
         putBacks' \in {putBacks, putBacks + 1},
         putBacks' = putBacks => \/ r.blockedAt = 0
                                 \/ r.blockedAt = row.blockedAt /\ r.alertedAt = row.alertedAt
  PROVE  Inv'
<1>1. /\ row' \in Row /\ episodes' \in Nat /\ episodes <= episodes'
      /\ Kept(row', deliveries, episodes')
      /\ r.blockedAt # 0 => /\ episodes' = episodes /\ row'.blockedAt = r.blockedAt
                            /\ row'.alertedAt = r.alertedAt
      /\ r.blockedAt = 0 => /\ episodes' = episodes + 1 /\ row'.blockedAt = episodes + 1
                            /\ row'.alertedAt = 0
  BY Types, Blocking
<1>2. Kept(held'.row, deliveries, episodes')
  <2>1. Kept(held'.row, deliveries, episodes) /\ held'.row \in Row
    <3>1. held'.row \in Row
      BY DEF TypeOK
    <3> QED
      BY <3>1 DEF Inv
  <2>2. Grows(deliveries, deliveries)
    BY Types, SMT DEF Grows
  <2> QED
    BY <1>1, <2>1, <2>2, Types, KeptLater
<1>3. ASSUME NEW e \in 1..episodes' PROVE Tallied(row', deliveries, e, putBacks')
  <2>1. e \in Nat
    BY <1>1
  <2>2. CASE e = episodes + 1
    <3>1. \A i \in 1..Len(deliveries) : Sane(deliveries[i], episodes)
      BY DEF Inv
    <3>2. putBacks' \in Nat
      BY Types
    <3> QED
      BY <1>1, <2>2, <3>1, <3>2, Types, TallyNew
  <2>3. CASE e # episodes + 1
    <3>1. e \in 1..episodes
      BY <1>1, <2>3, Types, SMT
    <3>2. Tallied(row, deliveries, e, putBacks)
      BY <3>1 DEF Inv
    <3>3. CASE putBacks' = putBacks + 1
      BY <1>1, <2>1, <3>2, <3>3, Types, TallyPutBack
    <3>4. CASE putBacks' = putBacks
      <4>1. Waiting(row', e) <= Waiting(row, e)
        <5>1. CASE r.blockedAt = 0
          <6>1. Waiting(row', e) = 0
            BY <1>1, <2>3, <5>1 DEF Waiting
          <6> QED
            BY <6>1, SMT DEF Waiting
        <5>2. CASE r.blockedAt # 0
          <6>1. Waiting(row', e) = Waiting(row, e)
            BY <1>1, <3>4, <5>2 DEF Waiting
          <6> QED
            BY <6>1, SMT DEF Waiting
        <5> QED
          BY <5>1, <5>2
      <4> QED
        BY <1>1, <2>1, <3>2, <3>4, <4>1, Types, TallyKept
    <3> QED
      BY <3>3, <3>4
  <2> QED
    BY <2>2, <2>3
<1> QED
  BY <1>1, <1>2, <1>3, RowStep DEF Inv

\* The worker is seen blocked: its episode goes on, or one begins.
LEMMA ObserveStep == ASSUME Inv, Observe PROVE Inv'
<1>1. /\ Blocks(row) /\ held' = held /\ putBacks' = putBacks /\ deliveries' = deliveries
      /\ todo' = todo /\ requester' = requester /\ dispatch' = dispatch /\ pc' = pc
  BY DEF Observe, dispatchVars, tickVars
<1>2. Kept(row, deliveries, episodes)
  BY DEF Inv
<1>3. row' \in Row /\ episodes' \in Nat
  BY <1>1, <1>2, Types, Blocking
<1>4. TypeOK'
  BY <1>1, <1>3, Types DEF TypeOK
<1> QED
  BY <1>1, <1>2, <1>4, Types, BlocksStep

\* The session goes: the record of its episode stays.
LEMMA DetachStep == ASSUME Inv, Detach PROVE Inv'
<1>1. PICK state \in {"offline", "lost"} : row' = [row EXCEPT !.state = state]
  BY DEF Detach
<1>2. /\ held' = held /\ putBacks' = putBacks /\ deliveries' = deliveries /\ episodes' = episodes
      /\ todo' = todo /\ requester' = requester /\ dispatch' = dispatch /\ pc' = pc
  BY DEF Detach, dispatchVars, tickVars
<1>3. /\ row' \in Row /\ row'.blockedAt = row.blockedAt /\ row'.alertedAt = row.alertedAt
      /\ row'.alertId = row.alertId /\ row'.escalated = row.escalated /\ row'.due = row.due
  BY <1>1, Types DEF Row
<1>4. TypeOK'
  BY <1>2, <1>3, Types DEF TypeOK
<1>5. Kept(row', deliveries, episodes)
  BY <1>3, Types, SameRecord DEF Inv
<1>6. ASSUME NEW e \in 1..episodes PROVE Tallied(row', deliveries, e, putBacks)
  <2>1. Waiting(row', e) <= Waiting(row, e)
    BY <1>3, SMT DEF Waiting
  <2>2. Tallied(row, deliveries, e, putBacks) /\ e \in Nat
    BY Types DEF Inv
  <2> QED
    BY <1>3, <2>1, <2>2, Types, TallyKept
<1> QED
  BY <1>2, <1>4, <1>5, <1>6, Types, RowStep, SMT DEF Inv

\* Rows that record the same, and what overwriting one with the other counts.
LEMMA Overwriting ==
  ASSUME NEW r \in Row, row \in Row, putBacks \in Nat, Overwrites(r)
  PROVE  /\ putBacks' \in {putBacks, putBacks + 1} /\ putBacks' \in Nat
         /\ putBacks' = putBacks => r.blockedAt = row.blockedAt /\ r.alertedAt = row.alertedAt
<1>1. ASSUME Record(r) = Record(row)
      PROVE  r.blockedAt = row.blockedAt /\ r.alertedAt = row.alertedAt
  <2>1. \A s \in Row : Record(s).blockedAt = s.blockedAt /\ Record(s).alertedAt = s.alertedAt
    BY DEF Record, Row
  <2> QED
    BY <1>1, <2>1, Zenon
<1>2. putBacks' = IF Record(r) = Record(row) THEN putBacks ELSE putBacks + 1
  BY DEF Overwrites
<1> HIDE DEF Record
<1> QED
  BY <1>1, <1>2, SMT

\* A command reads the row: it holds what the row says.
LEMMA ReadRowStep == ASSUME Inv, ReadRow PROVE Inv'
<1>1. PICK command \in {[kind |-> "rewrite", row |-> row], [kind |-> "adopt", row |-> Inherited]} :
        held' = command
  BY DEF ReadRow
<1>2. /\ row' = row /\ putBacks' = putBacks /\ deliveries' = deliveries /\ episodes' = episodes
      /\ todo' = todo /\ requester' = requester /\ dispatch' = dispatch /\ pc' = pc
  BY DEF ReadRow, dispatchVars, tickVars
<1>3. Clear("working") \in Row /\ Kept(Clear("working"), deliveries, episodes)
  BY Types, Cleared
<1>4. Kept(row, deliveries, episodes) /\ row \in Row
  BY Types DEF Inv
<1>5. held' \in [kind: {"none", "rewrite", "adopt"}, row: Row] /\ Kept(held'.row, deliveries, episodes)
  BY <1>1, <1>3, <1>4 DEF Inherited
<1>6. TypeOK'
  BY <1>2, <1>5, Types DEF TypeOK
<1> QED
  BY <1>2, <1>4, <1>5, <1>6, Types, RowStep, SMT DEF Inv

\* A command puts its row back.
LEMMA RewriteStep == ASSUME Inv, Rewrite PROVE Inv'
<1>1. PICK state \in {held.row.state, "offline"} : row' = [held.row EXCEPT !.state = state]
  BY DEF Rewrite
<1>2. /\ held' = Nobody /\ Overwrites(held.row) /\ deliveries' = deliveries /\ episodes' = episodes
      /\ todo' = todo /\ requester' = requester /\ dispatch' = dispatch /\ pc' = pc
  BY DEF Rewrite, dispatchVars, tickVars
<1>3. held.row.state \in {"working", "blocked", "offline", "lost"}
  BY Types DEF Row
<1>4. /\ row' \in Row /\ row'.blockedAt = held.row.blockedAt /\ row'.alertedAt = held.row.alertedAt
      /\ row'.alertId = held.row.alertId /\ row'.escalated = held.row.escalated
      /\ row'.due = held.row.due
  BY <1>1, <1>3, Types DEF Row
<1>5. Clear("working") \in Row /\ Kept(Clear("working"), deliveries, episodes)
  BY Types, Cleared
<1>6. held' \in [kind: {"none", "rewrite", "adopt"}, row: Row] /\ Kept(held'.row, deliveries, episodes)
  BY <1>2, <1>5 DEF Nobody
<1>7. /\ putBacks' \in {putBacks, putBacks + 1} /\ putBacks' \in Nat
      /\ putBacks' = putBacks => held.row.blockedAt = row.blockedAt /\ held.row.alertedAt = row.alertedAt
  BY <1>2, Types, Overwriting
<1>8. TypeOK'
  BY <1>2, <1>4, <1>6, <1>7, Types DEF TypeOK
<1>9. Kept(row', deliveries, episodes)
  BY <1>4, Types, SameRecord DEF Inv
<1>10. ASSUME NEW e \in 1..episodes PROVE Tallied(row', deliveries, e, putBacks')
  <2>1. Tallied(row, deliveries, e, putBacks) /\ e \in Nat
    BY Types DEF Inv
  <2>2. CASE putBacks' = putBacks
    <3>1. Waiting(row', e) <= Waiting(row, e)
      BY <1>4, <1>7, <2>2, SMT DEF Waiting
    <3> QED
      BY <1>4, <2>1, <2>2, <3>1, Types, TallyKept
  <2>3. CASE putBacks' = putBacks + 1
    BY <1>4, <2>1, <2>3, Types, TallyPutBack
  <2> QED
    BY <1>7, <2>2, <2>3
<1> QED
  BY <1>2, <1>6, <1>8, <1>9, <1>10, Types, RowStep, SMT DEF Inv

\* A session is adopted: its row starts anew, or inherits a block.
LEMMA AdoptStep == ASSUME Inv, Adopt PROVE Inv'
<1>1. /\ held' = Nobody /\ deliveries' = deliveries
      /\ todo' = todo /\ requester' = requester /\ dispatch' = FALSE /\ pc' = pc
  BY DEF Adopt, tickVars
<1>2. Clear("working") \in Row /\ Kept(Clear("working"), deliveries, episodes)
  BY Types, Cleared
<1>3. held' \in [kind: {"none", "rewrite", "adopt"}, row: Row] /\ Kept(held'.row, deliveries, episodes)
  BY <1>1, <1>2 DEF Nobody
<1>4. CASE row' = Clear("working") /\ UNCHANGED <<episodes, putBacks>>
  <2>1. TypeOK'
    BY <1>1, <1>2, <1>3, <1>4, Types DEF TypeOK
  <2>2. ASSUME NEW e \in 1..episodes PROVE Tallied(row', deliveries, e, putBacks)
    <3>1. Tallied(row, deliveries, e, putBacks) /\ e \in Nat
      BY Types DEF Inv
    <3>2. Waiting(row', e) = 0
      BY <1>4, Types, Cleared
    <3>3. Waiting(row', e) <= Waiting(row, e)
      BY <3>2, SMT DEF Waiting
    <3> QED
      BY <1>2, <1>4, <3>1, <3>3, Types, TallyKept
  <2> QED
    BY <1>1, <1>2, <1>3, <1>4, <2>1, <2>2, Types, RowStep, SMT DEF Inv
<1>5. CASE /\ Blocks(held.row)
           /\ IF held.row.blockedAt = 0 THEN UNCHANGED putBacks ELSE Overwrites(held.row)
  <2>1. Kept(held.row, deliveries, episodes)
    BY DEF Inv
  <2>2. row' \in Row /\ episodes' \in Nat
    BY <1>5, <2>1, Types, Blocking
  <2>3. /\ putBacks' \in {putBacks, putBacks + 1} /\ putBacks' \in Nat
        /\ putBacks' = putBacks => \/ held.row.blockedAt = 0
                                   \/ held.row.blockedAt = row.blockedAt /\ held.row.alertedAt = row.alertedAt
    <3>1. CASE held.row.blockedAt = 0
      BY <1>5, <3>1, Types
    <3>2. CASE held.row.blockedAt # 0
      BY <1>5, <3>2, Types, Overwriting
    <3> QED
      BY <3>1, <3>2
  <2>4. TypeOK'
    BY <1>1, <1>3, <2>2, <2>3, Types DEF TypeOK
  <2> QED
    <3> PICK r \in Row : r = held.row
      BY Types
    <3>1. /\ r \in Row /\ Kept(r, deliveries, episodes) /\ Blocks(r)
          /\ putBacks' = putBacks => \/ r.blockedAt = 0
                                     \/ r.blockedAt = row.blockedAt /\ r.alertedAt = row.alertedAt
      BY <1>5, <2>1, <2>3, Types
    <3> QED
      BY <1>1, <1>3, <2>3, <2>4, <3>1, BlocksStep, Zenon
<1> QED
  BY <1>4, <1>5 DEF Adopt

\* Nothing of the rows or the alerts changes.
LEMMA ChangeStep == ASSUME Inv, Change PROVE Inv'
<1>1. /\ row' = row /\ held' = held /\ putBacks' = putBacks /\ deliveries' = deliveries
      /\ episodes' = episodes /\ todo' = todo /\ pc' = pc
      /\ dispatch' \in BOOLEAN /\ requester' \in BOOLEAN
  BY Types DEF Change, workerVars, tickVars, TypeOK
<1>2. TypeOK'
  BY <1>1, Types DEF TypeOK
<1> QED
  BY <1>1, <1>2, Types, RowStep, SMT DEF Inv

\* Time passes.
LEMMA ElapseStep == ASSUME Inv, Elapse PROVE Inv'
<1>1. PICK t \in {"block", "alert"} : row' = [row EXCEPT !.due = @ \cup {t}]
  BY DEF Elapse
<1>2. /\ held' = held /\ putBacks' = putBacks /\ deliveries' = deliveries
      /\ episodes' = episodes /\ todo' = todo /\ pc' = pc
      /\ dispatch' = dispatch /\ requester' = requester
  BY DEF Elapse, tickVars, dispatchVars
<1>3. /\ row' \in Row /\ row'.blockedAt = row.blockedAt /\ row'.alertedAt = row.alertedAt
      /\ row'.alertId = row.alertId /\ row'.escalated = row.escalated
  <2>1. row.due \cup {t} \in SUBSET {"block", "alert"}
    BY <1>1, Types DEF Row
  <2> QED
    BY <1>1, <2>1, Types DEF Row
<1>4. TypeOK'
  BY <1>2, <1>3, Types DEF TypeOK
<1>5. Kept(row', deliveries, episodes)
  <2>1. row.blockedAt # 0
    BY DEF Elapse
  <2> QED
    BY <1>3, <2>1, Zenon DEF Inv, Kept
<1>6. ASSUME NEW e \in 1..episodes PROVE Tallied(row', deliveries, e, putBacks)
  <2>1. Waiting(row', e) <= Waiting(row, e)
    BY <1>3, SMT DEF Waiting
  <2>2. Tallied(row, deliveries, e, putBacks) /\ e \in Nat
    BY Types DEF Inv
  <2> QED
    BY <1>3, <2>1, <2>2, Types, TallyKept
<1> QED
  BY <1>2, <1>4, <1>5, <1>6, Types, RowStep, SMT DEF Inv

\* The watchdog looks, or its tick is given up.
LEMMA LookStep == ASSUME Inv, LookAtWorkers \/ LookAtDeliveries \/ Stop PROVE Inv'
<1>1. /\ row' = row /\ held' = held /\ putBacks' = putBacks /\ deliveries' = deliveries
      /\ episodes' = episodes /\ dispatch' = dispatch /\ requester' = requester
  BY DEF LookAtWorkers, LookAtDeliveries, Stop, workerVars, dispatchVars
<1>2. pc' \in {"rest", "worker", "deliveries", "tell"} /\ todo' \in SUBSET Unreached
  BY DEF LookAtWorkers, LookAtDeliveries, Stop, Go
<1>3. \A i \in Unreached : i \in 1..Len(deliveries) /\ deliveries[i].to # "human"
  <2>1. SUFFICES ASSUME NEW i \in Unreached PROVE i \in 1..Len(deliveries) /\ deliveries[i].to # "human"
    OBVIOUS
  <2>2. i \in 1..Len(deliveries) /\ deliveries[i].wake = "queued"
    BY Types DEF Unreached
  <2>3. Sane(deliveries[i], episodes)
    BY <2>2 DEF Inv
  <2> QED
    BY <2>2, <2>3 DEF Sane
<1>4. TypeOK'
  BY <1>1, <1>2, <1>3, Types DEF TypeOK
<1> QED
  BY <1>1, <1>2, <1>3, <1>4, Types, RowStep, SMT DEF Inv

\* An alert is typed into the requester's pane, or taken.
LEMMA WakeStep == ASSUME Inv, Wake PROVE Inv'
<1>1. PICK i \in 1..Len(deliveries) : /\ deliveries[i].wake = "queued"
                                      /\ deliveries' = [deliveries EXCEPT ![i].wake = "taken"]
  BY Types DEF Wake
<1>2. /\ row' = row /\ held' = held /\ putBacks' = putBacks /\ todo' = todo /\ pc' = pc
      /\ episodes' = episodes /\ dispatch' = dispatch /\ requester' = requester
  BY DEF Wake, workerVars, dispatchVars, tickVars
<1>3. /\ deliveries' \in Seq(Delivery) /\ Len(deliveries') = Len(deliveries)
      /\ Grows(deliveries, deliveries')
      /\ \A j \in 1..Len(deliveries) : j # i => deliveries'[j] = deliveries[j]
      /\ deliveries'[i].escalated = deliveries[i].escalated
      /\ deliveries'[i].about = deliveries[i].about /\ deliveries'[i].to = deliveries[i].to
  BY <1>1, Types, Typing
<1>4. \A e : Firsts(deliveries', e) = Firsts(deliveries, e) /\ Open(deliveries', e) = Open(deliveries, e)
  BY <1>1, Types, Typing
<1>5. TypeOK'
  BY <1>2, <1>3, Types DEF TypeOK
<1>6. Kept(row', deliveries', episodes') /\ Kept(held'.row, deliveries', episodes')
  BY <1>2, <1>3, Types, KeptLater DEF Inv
<1>7. ASSUME NEW j \in 1..Len(deliveries') PROVE Sane(deliveries'[j], episodes')
  <2>1. Sane(deliveries[j], episodes) /\ Sane(deliveries[i], episodes)
    BY <1>3 DEF Inv
  <2>2. deliveries[i].to # "human"
    BY <1>1, <2>1 DEF Sane
  <2> QED
    BY <1>2, <1>3, <2>1, <2>2, Zenon DEF Sane
<1>8. \A j \in todo' : deliveries'[j].to # "human"
  BY <1>2, <1>3, Types DEF Inv, TypeOK
<1>9. \A e \in 1..episodes' : Tallied(row', deliveries', e, putBacks')
  BY <1>2, <1>4, Zenon DEF Inv, Tallied
<1> QED
  BY <1>5, <1>6, <1>7, <1>8, <1>9, Zenon DEF Inv

\* A delivery is addressed, and not escalated when it is made.
LEMMA Addressing ==
  ASSUME NEW about \in Nat, NEW why \in {"first", "still", "unreachable"}, NEW to \in {"requester", "human"}
  PROVE  /\ Alert(about, why, to) \in Delivery /\ Alert(about, why, to).about = about
         /\ Alert(about, why, to).why = why /\ Alert(about, why, to).to = to
         /\ ~Alert(about, why, to).escalated
         /\ to = "human" => Alert(about, why, to).wake = "human"
  BY SMT DEF Alert, Delivery

\* The requester is the human or a worker.
LEMMA Requesters == Requester \in {"requester", "human"}
  BY DEF Requester, Addressee

\* A row that is due has an episode, which has begun.
LEMMA Due ==
  ASSUME Inv, row.alertedAt # 0 \/ row.blockedAt # 0
  PROVE  row.blockedAt \in 1..episodes
<1>1. row.blockedAt \in Nat /\ row.alertedAt \in Nat /\ Kept(row, deliveries, episodes)
  BY Types DEF Inv, Row
<1> QED
  BY <1>1, Types, SMT DEF Kept

\* The first alert of an episode: what was to be recorded is.
LEMMA FirstAlertStep ==
  ASSUME Inv, FirstAlert, row.alertedAt = 0, row.blockedAt # 0,
         held' = held, episodes' = episodes, putBacks' = putBacks, dispatch' = dispatch,
         requester' = requester, pc' \in {"deliveries"}, todo' = {}
  PROVE  Inv'
<1> DEFINE to == Requester
           a == Alert(row.blockedAt, "first", to)
           n == Len(deliveries) + 1
<1>1. to \in {"requester", "human"} /\ row.blockedAt \in 1..episodes /\ row.blockedAt \in Nat
  BY Requesters, Due, Types DEF Row
<1>2. /\ a \in Delivery /\ a.about = row.blockedAt /\ a.why = "first" /\ a.to = to
      /\ ~a.escalated
      /\ to = "human" => a.wake = "human"
  <2> HIDE DEF to
  <2> QED
    <3>1. PICK b \in Nat : b = row.blockedAt
      BY <1>1
    <3>2. PICK t \in {"requester", "human"} : t = to
      BY <1>1
    <3> QED
      BY <3>1, <3>2, Addressing
<1>3. deliveries' = Append(deliveries, a)
  BY DEF FirstAlert, Send
<1>4. row' = IF to = "human" THEN [row EXCEPT !.alertedAt = n, !.escalated = TRUE]
             ELSE [row EXCEPT !.alertedAt = n, !.alertId = n]
  BY DEF FirstAlert, Sent
<1> HIDE DEF to, a
<1>5. n \in Nat /\ n # 0 /\ Len(deliveries) \in Nat
  BY Types
<1>6. /\ row' \in Row /\ row'.blockedAt = row.blockedAt /\ row'.alertedAt = n
      /\ ~row'.escalated => row'.alertId = n /\ to # "human"
  <2> HIDE DEF n
  <2>1. CASE to = "human"
    <3>1. row' = [row EXCEPT !.alertedAt = n, !.escalated = TRUE]
      BY <1>4, <2>1
    <3> QED
      BY <1>5, <2>1, <3>1, Types DEF Row
  <2>2. CASE to # "human"
    <3>1. row' = [row EXCEPT !.alertedAt = n, !.alertId = n]
      BY <1>4, <2>2
    <3> QED
      BY <1>5, <2>2, <3>1, Types DEF Row
  <2> QED
    BY <2>1, <2>2
<1>7. /\ deliveries' \in Seq(Delivery) /\ Len(deliveries') = n /\ Grows(deliveries, deliveries')
      /\ \A i \in 1..Len(deliveries) : deliveries'[i] = deliveries[i]
      /\ deliveries'[n] = a
  BY <1>2, <1>3, Types, Sending
<1>8. \A e : /\ Cardinality(Firsts(deliveries', e)) =
                  Cardinality(Firsts(deliveries, e)) + (IF a.about = e /\ a.why = "first" THEN 1 ELSE 0)
             /\ Cardinality(Open(deliveries', e)) =
                  Cardinality(Open(deliveries, e)) + (IF a.about = e /\ ~a.escalated THEN 1 ELSE 0)
  BY <1>2, <1>3, Types, Sending
<1>9. TypeOK'
  BY <1>6, <1>7, Types DEF TypeOK
<1>10. Kept(row', deliveries', episodes')
  BY <1>1, <1>2, <1>5, <1>6, <1>7, SMT DEF Kept
<1>11. Kept(held'.row, deliveries', episodes')
  BY <1>7, Types, KeptLater DEF Inv
<1>12. ASSUME NEW i \in 1..Len(deliveries') PROVE Sane(deliveries'[i], episodes')
  <2>1. CASE i \in 1..Len(deliveries)
    BY <1>7, <2>1 DEF Inv
  <2>2. CASE i \notin 1..Len(deliveries)
    <3>1. i = n
      BY <1>5, <1>7, <2>2, NewIndex
    <3> QED
      BY <1>1, <1>2, <1>7, <3>1, Zenon DEF Sane
  <2> QED
    BY <2>1, <2>2
<1>13. ASSUME NEW e \in 1..episodes PROVE Tallied(row', deliveries', e, putBacks)
  <2>1. Tallied(row, deliveries, e, putBacks)
    BY DEF Inv
  <2>2. /\ Cardinality(Firsts(deliveries, e)) \in Nat /\ Cardinality(Open(deliveries, e)) \in Nat
    BY Types, Finite
  <2>3. Waiting(row', e) = 0 /\ Waiting(row, e) = IF row.blockedAt = e THEN 1 ELSE 0
    BY <1>5, <1>6, SMT DEF Waiting
  <2>4. /\ Cardinality(Firsts(deliveries', e)) =
             Cardinality(Firsts(deliveries, e)) + (IF row.blockedAt = e THEN 1 ELSE 0)
        /\ Cardinality(Open(deliveries', e)) =
             Cardinality(Open(deliveries, e)) + (IF row.blockedAt = e THEN 1 ELSE 0)
    BY <1>2, <1>8
  <2> QED
    BY <2>1, <2>2, <2>3, <2>4, Types, SMT DEF Tallied
<1> QED
  BY <1>9, <1>10, <1>11, <1>12, <1>13, Zenon DEF Inv

\* An alert to a worker that is not escalated is, and the human is told instead: the
\* place among the open ones that it leaves is the new alert's.
LEMMA Escalation ==
  ASSUME Inv, NEW i \in 1..Len(deliveries), deliveries[i].to # "human", ~deliveries[i].escalated,
         NEW why \in {"still", "unreachable"},
         deliveries' = Append([deliveries EXCEPT ![i].escalated = TRUE],
                              Alert(deliveries[i].about, why, "human")),
         row' \in Row, row'.blockedAt = row.blockedAt, row'.alertedAt = row.alertedAt,
         row'.alertId = row.alertId, row.escalated => row'.escalated, row'.due = row.due,
         held' = held, episodes' = episodes, putBacks' = putBacks,
         dispatch' = dispatch, requester' = requester,
         pc' \in {"rest", "worker", "deliveries", "tell"}, todo' \in SUBSET todo
  PROVE  Inv'
<1> DEFINE z == [deliveries EXCEPT ![i].escalated = TRUE]
           n == Len(deliveries) + 1
<1>1. PICK about \in 1..episodes : about = deliveries[i].about
  BY DEF Inv, Sane
<1> DEFINE a == Alert(about, why, "human")
<1>2. /\ a \in Delivery /\ a.about = about /\ a.why # "first" /\ a.to = "human"
      /\ ~a.escalated /\ a.wake = "human"
  <2>1. about \in Nat
    BY Types
  <2>2. /\ a \in Delivery /\ a.about = about /\ a.why = why /\ a.to = "human"
        /\ ~a.escalated /\ a.wake = "human"
    BY <2>1, Addressing
  <2> QED
    BY <2>2
<1>3. deliveries' = Append(z, a)
  BY <1>1
<1>4. /\ z \in Seq(Delivery) /\ Len(z) = Len(deliveries) /\ Grows(deliveries, z)
      /\ \A j \in 1..Len(deliveries) : j # i => z[j] = deliveries[j]
      /\ z[i].escalated = TRUE /\ z[i].about = deliveries[i].about /\ z[i].to = deliveries[i].to
  BY Types, Escalating
<1>5. \A e : /\ Firsts(z, e) = Firsts(deliveries, e)
             /\ Cardinality(Open(z, e)) = Cardinality(Open(deliveries, e))
                  - (IF deliveries[i].about = e /\ ~deliveries[i].escalated THEN 1 ELSE 0)
  BY Types, Escalating
<1> HIDE DEF z, a
<1> PICK y \in Seq(Delivery), b \in Delivery : y = z /\ b = a
  BY <1>2, <1>4
<1>6. /\ deliveries' \in Seq(Delivery) /\ Len(deliveries') = n /\ Grows(z, deliveries')
      /\ \A j \in 1..Len(deliveries) : deliveries'[j] = z[j]
      /\ deliveries'[n] = a
  <2>1. deliveries' = Append(y, b) /\ Len(y) = Len(deliveries)
    BY <1>3, <1>4
  <2>2. /\ Append(y, b) \in Seq(Delivery) /\ Len(Append(y, b)) = Len(y) + 1
        /\ Grows(y, Append(y, b)) /\ \A j \in 1..Len(y) : Append(y, b)[j] = y[j]
        /\ Append(y, b)[Len(y) + 1] = b
    BY Sending
  <2> QED
    BY <2>1, <2>2, Zenon
<1>7. \A e : /\ Cardinality(Firsts(deliveries', e)) =
                  Cardinality(Firsts(z, e)) + (IF a.about = e /\ a.why = "first" THEN 1 ELSE 0)
             /\ Cardinality(Open(deliveries', e)) =
                  Cardinality(Open(z, e)) + (IF a.about = e /\ ~a.escalated THEN 1 ELSE 0)
  <2>1. deliveries' = Append(y, b)
    BY <1>3
  <2>2. \A e : /\ Cardinality(Firsts(Append(y, b), e)) =
                    Cardinality(Firsts(y, e)) + (IF b.about = e /\ b.why = "first" THEN 1 ELSE 0)
               /\ Cardinality(Open(Append(y, b), e)) =
                    Cardinality(Open(y, e)) + (IF b.about = e /\ ~b.escalated THEN 1 ELSE 0)
    BY Sending
  <2> QED
    BY <2>1, <2>2, Zenon
<1>8. Grows(deliveries, deliveries')
  BY <1>4, <1>6, Types, SMT DEF Grows
<1>9. TypeOK'
  <2>1. todo' \in SUBSET (1..Len(deliveries'))
    <3>1. todo \in SUBSET (1..Len(deliveries))
      BY Types DEF TypeOK
    <3> QED
      BY <1>6, <3>1, Types, SMT
  <2> QED
    BY <1>6, <2>1, Types DEF TypeOK
<1>10. Kept(row', deliveries', episodes') /\ Kept(held'.row, deliveries', episodes')
  <2>1. Kept(row, deliveries', episodes) /\ Kept(held.row, deliveries', episodes)
    <3>1. Kept(row, deliveries, episodes) /\ Kept(held.row, deliveries, episodes)
      BY DEF Inv
    <3> PICK x \in Seq(Delivery) : x = deliveries'
      BY <1>6
    <3>2. Grows(deliveries, x) /\ row \in Row /\ held.row \in Row /\ episodes \in Nat
          /\ deliveries \in Seq(Delivery) /\ episodes <= episodes
      BY <1>8, Types
    <3>3. Kept(row, x, episodes)
      BY <3>1, <3>2, KeptLater
    <3>4. Kept(held.row, x, episodes)
      BY <3>1, <3>2, KeptLater
    <3> QED
      BY <3>3, <3>4
  <2> QED
    BY <2>1, Zenon DEF Kept
<1>11. ASSUME NEW j \in 1..Len(deliveries') PROVE Sane(deliveries'[j], episodes')
  <2>1. CASE j = i
    <3>1. deliveries'[j].about = about /\ deliveries'[j].to # "human"
      BY <1>1, <1>4, <1>6, <2>1
    <3> QED
      BY <3>1, <1>1, Zenon DEF Sane
  <2>2. CASE j \in 1..Len(deliveries) /\ j # i
    BY <1>4, <1>6, <2>2 DEF Inv
  <2>3. CASE j \notin 1..Len(deliveries)
    <3>1. j = n
      <4>1. j \in 1..n /\ Len(deliveries) \in Nat
        BY <1>6, Types
      <4> QED
        BY <2>3, <4>1, NewIndex
    <3> QED
      BY <1>1, <1>2, <1>6, <3>1, Zenon DEF Sane
  <2> QED
    BY <2>1, <2>2, <2>3
<1>12. ASSUME NEW j \in todo' PROVE deliveries'[j].to # "human"
  <2>1. j \in 1..Len(deliveries) /\ deliveries[j].to # "human"
    BY Types DEF Inv, TypeOK
  <2> QED
    BY <1>8, <2>1 DEF Grows
<1>13. ASSUME NEW e \in 1..episodes PROVE Tallied(row', deliveries', e, putBacks)
  <2>1. Tallied(row, deliveries, e, putBacks) /\ Waiting(row', e) = Waiting(row, e)
    BY DEF Inv, Waiting
  <2>2. /\ Cardinality(Firsts(deliveries, e)) \in Nat /\ Cardinality(Open(deliveries, e)) \in Nat
    BY Types, Finite
  <2>3. Cardinality(Firsts(deliveries', e)) = Cardinality(Firsts(deliveries, e))
    <3>1. Cardinality(Firsts(deliveries', e)) = Cardinality(Firsts(z, e)) + 0
      BY <1>2, <1>7
    <3> QED
      BY <1>5, <2>2, <3>1
  <2>4. Cardinality(Open(deliveries', e)) = Cardinality(Open(deliveries, e))
    <3>1. Cardinality(Open(deliveries', e)) =
            Cardinality(Open(z, e)) + (IF about = e THEN 1 ELSE 0)
      BY <1>2, <1>7
    <3>2. Cardinality(Open(z, e)) =
            Cardinality(Open(deliveries, e)) - (IF about = e THEN 1 ELSE 0)
      BY <1>1, <1>5
    <3> QED
      BY <2>2, <3>1, <3>2, SMT
  <2> QED
    BY <2>1, <2>3, <2>4, Zenon DEF Tallied
<1> QED
  BY <1>9, <1>10, <1>11, <1>12, <1>13, Zenon DEF Inv

\* What blockedDue says of the row it read.
LEMMA DueSays ==
  /\ blockedDue = "first" => row.alertedAt = 0
  /\ blockedDue = "human" => row.alertedAt # 0 /\ ~row.escalated /\ "alert" \in row.due
  /\ blockedDue \in {"first", "human"} => row.state = "blocked" /\ "block" \in row.due
  BY DEF blockedDue

\* The block goes on after the requester was told: the row says so, and the human is
\* told unless the fallback did.
LEMMA StillBlockedStep ==
  ASSUME Inv, StillBlocked, row.alertedAt # 0, ~row.escalated,
         held' = held, episodes' = episodes, putBacks' = putBacks, dispatch' = dispatch,
         requester' = requester, pc' \in {"deliveries"}, todo' = {}
  PROVE  Inv'
<1>1. /\ row.alertedAt \in 1..Len(deliveries) /\ row.alertId = row.alertedAt
      /\ deliveries[row.alertedAt].about = row.blockedAt /\ deliveries[row.alertedAt].to # "human"
  BY DEF Inv, Kept
<1>2. row' = [row EXCEPT !.escalated = TRUE]
  BY DEF StillBlocked
<1>3. /\ row' \in Row /\ row'.blockedAt = row.blockedAt /\ row'.alertedAt = row.alertedAt
      /\ row'.alertId = row.alertId /\ row'.escalated /\ row'.due = row.due
  BY <1>2, Types DEF Row
<1>4. PICK i \in 1..Len(deliveries) : i = row.alertId
  BY <1>1
<1>5. CASE deliveries[i].escalated
  <2>1. deliveries' = deliveries
    BY <1>4, <1>5 DEF StillBlocked
  <2>2. TypeOK'
    BY <1>3, <2>1, Types DEF TypeOK
  <2>3. Kept(row', deliveries, episodes)
    BY <1>3, Zenon DEF Inv, Kept
  <2>4. ASSUME NEW e \in 1..episodes PROVE Tallied(row', deliveries, e, putBacks)
    <3>1. Waiting(row', e) = Waiting(row, e)
      BY <1>3 DEF Waiting
    <3> QED
      BY <3>1, Zenon DEF Inv, Tallied
  <2> QED
    BY <2>1, <2>2, <2>3, <2>4, Types, RowStep, SMT DEF Inv
<1>6. CASE ~deliveries[i].escalated
  <2>1. deliveries' = Append([deliveries EXCEPT ![i].escalated = TRUE],
                             Alert(deliveries[i].about, "still", "human"))
    BY <1>1, <1>4, <1>6 DEF StillBlocked
  <2>2. deliveries[i].to # "human" /\ "still" \in {"still", "unreachable"}
    BY <1>1, <1>4
  <2>3. pc' \in {"rest", "worker", "deliveries", "tell"} /\ todo' \in SUBSET todo
    OBVIOUS
  <2> QED
    BY <1>3, <1>6, <2>1, <2>2, <2>3, Escalation
<1> QED
  BY <1>5, <1>6

\* The watchdog escalates the worker's block, as the row is now.
LEMMA EscalateStep == ASSUME Inv, EscalateBlocked PROVE Inv'
<1>1. /\ pc' = "deliveries" /\ todo' = {} /\ TellBlocked /\ held' = held /\ episodes' = episodes
      /\ putBacks' = putBacks /\ dispatch' = dispatch /\ requester' = requester
  BY DEF EscalateBlocked, Go, dispatchVars
<1>2. CASE blockedDue = "first"
  <2>1. row.blockedAt # 0
    <3>1. row.due # {}
      BY <1>2, DueSays
    <3> QED
      BY <3>1, Zenon DEF Inv, Kept
  <2>2. FirstAlert /\ row.alertedAt = 0 /\ pc' \in {"deliveries"}
    BY <1>1, <1>2, DueSays DEF TellBlocked
  <2> QED
    BY <1>1, <2>1, <2>2, FirstAlertStep, Zenon
<1>3. CASE blockedDue = "human"
  <2>1. StillBlocked
    BY <1>1, <1>3 DEF TellBlocked
  <2> QED
    BY <1>1, <1>3, <2>1, DueSays, StillBlockedStep
<1>4. CASE blockedDue \notin {"first", "human"}
  <2>1. row' = row /\ deliveries' = deliveries
    BY <1>1, <1>4 DEF TellBlocked
  <2>2. TypeOK'
    BY <1>1, <2>1, Types DEF TypeOK
  <2> QED
    BY <1>1, <2>1, <2>2, Types, RowStep, SMT DEF Inv
<1> QED
  BY <1>2, <1>3, <1>4

\* The fallback tells the human of an alert that reached nobody.
LEMMA TellHumanStep == ASSUME Inv, TellHuman PROVE Inv'
<1>1. PICK i \in todo :
        /\ Go(IF todo = {i} THEN "rest" ELSE "tell", todo \ {i})
        /\ IF deliveries[i].escalated THEN UNCHANGED deliveries
           ELSE deliveries' = Append([deliveries EXCEPT ![i].escalated = TRUE],
                                     Alert(deliveries[i].about, "unreachable", "human"))
  BY DEF TellHuman
<1>2. /\ row' = row /\ held' = held /\ putBacks' = putBacks /\ episodes' = episodes
      /\ dispatch' = dispatch /\ requester' = requester
      /\ pc' \in {"rest", "worker", "deliveries", "tell"} /\ todo' \in SUBSET todo
  BY <1>1 DEF TellHuman, workerVars, dispatchVars, Go
<1>3. i \in 1..Len(deliveries) /\ deliveries[i].to # "human"
  BY Types DEF Inv, TypeOK
<1>4. CASE deliveries[i].escalated
  <2>1. deliveries' = deliveries
    BY <1>1, <1>4
  <2>2. TypeOK'
    BY <1>2, <2>1, Types DEF TypeOK
  <2>3. \A j \in todo' : deliveries[j].to # "human"
    BY <1>2 DEF Inv
  <2> QED
    BY <1>2, <2>1, <2>2, <2>3, Types, RowStep, SMT DEF Inv
<1>5. CASE ~deliveries[i].escalated
  <2>1. deliveries' = Append([deliveries EXCEPT ![i].escalated = TRUE],
                             Alert(deliveries[i].about, "unreachable", "human"))
    BY <1>1, <1>5
  <2>2. row' \in Row /\ "unreachable" \in {"still", "unreachable"}
    BY <1>2, Types
  <2> QED
    BY <1>2, <1>3, <1>5, <2>1, <2>2, Escalation, Zenon
<1> QED
  BY <1>4, <1>5

\* Every step keeps the invariant.
LEMMA Step == ASSUME Inv, [Next]_vars PROVE Inv'
<1>1. CASE Worker
  BY <1>1, UnblocksStep, ObserveStep, DetachStep, ReadRowStep, RewriteStep, AdoptStep DEF Worker
<1>2. CASE Watchdog
  BY <1>2, LookStep, EscalateStep, TellHumanStep DEF Watchdog
<1>3. CASE Change \/ Wake \/ Stop \/ Elapse
  BY <1>3, ChangeStep, WakeStep, LookStep, ElapseStep
<1>4. CASE UNCHANGED vars
  BY <1>4, Zenon DEF vars, workerVars, dispatchVars, tickVars, Inv, TypeOK
<1> QED
  BY <1>1, <1>2, <1>3, <1>4 DEF Next

\* What the rows say agrees with the alerts made, and the alerts that can still be said
\* of an episode are as many as its record allows.
THEOREM Invariance == Spec => []Inv
<1>1. Inv /\ [Next]_vars => Inv'
  BY Step
<1> QED
  BY Initially, <1>1, PTL DEF Spec

-----------------------------------------------------------------------------
(* What follows of the alerts.                                             *)

\* The alerts to the human are open: he has no wake to fail, and nobody is told of them.
LEMMA Counted ==
  ASSUME Inv, NEW about \in 1..episodes
  PROVE  /\ Count(about, LAMBDA a : a.why = "first") <= 1 + putBacks
         /\ Count(about, LAMBDA a : a.to = "human") <= 1 + putBacks
<1> DEFINE F == {i \in DOMAIN deliveries : deliveries[i].about = about /\ deliveries[i].why = "first"}
           H == {i \in DOMAIN deliveries : deliveries[i].about = about /\ deliveries[i].to = "human"}
<1>1. F = Firsts(deliveries, about)
  BY Types DEF Firsts
<1>2. H \in SUBSET Open(deliveries, about)
  <2>1. SUFFICES ASSUME NEW i \in H PROVE i \in Open(deliveries, about)
    OBVIOUS
  <2>2. i \in 1..Len(deliveries) /\ deliveries[i].about = about /\ deliveries[i].to = "human"
    BY Types
  <2>3. Sane(deliveries[i], episodes)
    BY <2>2 DEF Inv
  <2> QED
    BY <2>2, <2>3 DEF Sane, Open
<1> HIDE DEF F, H
<1>3. /\ IsFiniteSet(Open(deliveries, about)) /\ Cardinality(Open(deliveries, about)) \in Nat
      /\ Cardinality(Firsts(deliveries, about)) \in Nat
  BY Types, Finite
<1>4. IsFiniteSet(H) /\ Cardinality(H) <= Cardinality(Open(deliveries, about))
  BY <1>2, <1>3, FS_Subset
<1>5. Cardinality(H) \in Nat
  BY <1>4, FS_CardinalityType
<1>6. Tallied(row, deliveries, about, putBacks) /\ Waiting(row, about) \in {0, 1}
  BY DEF Inv, Waiting
<1>7. Cardinality(F) <= 1 + putBacks /\ Cardinality(H) <= 1 + putBacks
  <2> HIDE DEF Waiting
  <2> QED
    BY <1>1, <1>3, <1>4, <1>5, <1>6, Types, SMT DEF Tallied
<1> QED
  BY <1>7 DEF Count, F, H

\* A block episode is reported to its requester once and to the human once, and once
\* more for each time a command overwrote the record with an older row: neither a
\* restart, an adoption nor the fallback that races the escalation repeats it.
THEOREM AlertsDoNotRepeat == Spec => []NoRepeats
<1>1. Inv => NoRepeats
  BY Counted DEF NoRepeats
<1> QED
  BY Invariance, <1>1, PTL

\* An alert that a step adds is the first of the row's episode, says that it goes on, or
\* says that one did not reach its worker.
LEMMA Said ==
  ASSUME Inv, [Next]_vars
  PROVE  \A i \in DOMAIN deliveries' \ DOMAIN deliveries : TrueWhenSaid(deliveries'[i])
<1> SUFFICES ASSUME NEW i \in DOMAIN deliveries' \ DOMAIN deliveries
             PROVE  TrueWhenSaid(deliveries'[i])
  OBVIOUS
<1>1. Inv'
  BY Step
<1>2. i \in 1..Len(deliveries') /\ i \notin 1..Len(deliveries) /\ Len(deliveries) \in Nat
  <2>1. deliveries' \in Seq(Delivery)
    BY <1>1 DEF Inv, TypeOK
  <2> QED
    BY <2>1, Types, LenProperties
<1>3. deliveries' # deliveries
  BY <1>2
<1>4. CASE EscalateBlocked
  <2>1. TellBlocked
    BY <1>4 DEF EscalateBlocked
  <2>2. CASE blockedDue = "first"
    <3>1. deliveries' = Append(deliveries, Alert(row.blockedAt, "first", Requester))
      BY <2>1, <2>2 DEF TellBlocked, FirstAlert, Send
    <3>2. row.blockedAt \in Nat /\ Requester \in {"requester", "human"}
      BY Types, Requesters DEF Row
    <3>3. PICK b \in Nat, t \in {"requester", "human"} : b = row.blockedAt /\ t = Requester
      BY <3>2
    <3>4. Alert(b, "first", t) \in Delivery /\ Alert(b, "first", t).about = b
          /\ Alert(b, "first", t).why = "first"
      BY Addressing
    <3>5. deliveries'[i] = Alert(b, "first", t)
      <4>1. PICK a \in Delivery : a = Alert(b, "first", t)
        BY <3>4
      <4>2. deliveries' = Append(deliveries, a)
        BY <3>1, <3>3, <4>1
      <4>3. Len(deliveries') = Len(deliveries) + 1 /\ deliveries'[Len(deliveries) + 1] = a
        BY <4>2, Types, Sending
      <4>4. i = Len(deliveries) + 1
        BY <1>2, <4>3, NewIndex
      <4> QED
        BY <4>1, <4>3, <4>4
    <3>6. row.state = "blocked"
      BY <2>2, DueSays
    <3> QED
      BY <3>3, <3>4, <3>5, <3>6 DEF TrueWhenSaid
  <2>3. CASE blockedDue = "human"
    <3>1. /\ row.state = "blocked" /\ "alert" \in row.due /\ row.alertedAt # 0 /\ ~row.escalated
      BY <2>3, DueSays
    <3>2. /\ row.alertedAt \in 1..Len(deliveries) /\ row.alertId = row.alertedAt
          /\ deliveries[row.alertedAt].about = row.blockedAt /\ deliveries[row.alertedAt].to # "human"
      BY <3>1 DEF Inv, Kept
    <3>3. deliveries' = Append([deliveries EXCEPT ![row.alertedAt].escalated = TRUE],
                               Alert(row.blockedAt, "still", "human"))
      BY <1>3, <2>1, <2>3, <3>2 DEF TellBlocked, StillBlocked
    <3>4. PICK b \in Nat, k \in 1..Len(deliveries) : b = row.blockedAt /\ k = row.alertedAt
      BY <3>2, Types DEF Row
    <3>5. PICK a \in Delivery : a = Alert(b, "still", "human") /\ a.about = b /\ a.why = "still"
      BY Addressing
    <3>6. PICK z \in Seq(Delivery) : z = [deliveries EXCEPT ![k].escalated = TRUE] /\ Len(z) = Len(deliveries)
      BY Types, Escalating
    <3>7. deliveries' = Append(z, a)
      BY <3>3, <3>4, <3>5, <3>6
    <3>8. Len(deliveries') = Len(deliveries) + 1 /\ deliveries'[Len(deliveries) + 1] = a
      BY <3>6, <3>7, Sending
    <3>9. i = Len(deliveries) + 1
      BY <1>2, <3>8, NewIndex
    <3> QED
      BY <3>1, <3>2, <3>4, <3>5, <3>8, <3>9 DEF ToWorker, TrueWhenSaid
  <2>4. CASE blockedDue \notin {"first", "human"}
    BY <1>3, <2>1, <2>4 DEF TellBlocked
  <2> QED
    BY <2>2, <2>3, <2>4
<1>5. CASE TellHuman
  <2>1. PICK k \in todo : \/ deliveries' = deliveries
                          \/ deliveries' = Append([deliveries EXCEPT ![k].escalated = TRUE],
                                                  Alert(deliveries[k].about, "unreachable", "human"))
    BY <1>5 DEF TellHuman
  <2>2. k \in 1..Len(deliveries)
    BY Types DEF TypeOK
  <2>3. PICK b \in Nat : b = deliveries[k].about
    <3>1. deliveries[k] \in Delivery
      BY <2>2, Types, ElementOfSeq
    <3> QED
      BY <3>1 DEF Delivery
  <2>4. PICK a \in Delivery : a = Alert(b, "unreachable", "human") /\ a.why = "unreachable"
    BY Addressing
  <2>5. PICK z \in Seq(Delivery) : z = [deliveries EXCEPT ![k].escalated = TRUE] /\ Len(z) = Len(deliveries)
    BY <2>2, Types, Escalating
  <2>6. deliveries' = Append(z, a)
    BY <1>3, <2>1, <2>3, <2>4, <2>5
  <2>7. Len(deliveries') = Len(deliveries) + 1 /\ deliveries'[Len(deliveries) + 1] = a
    BY <2>5, <2>6, Sending
  <2>8. i = Len(deliveries) + 1
    BY <1>2, <2>7, NewIndex
  <2> QED
    BY <2>4, <2>7, <2>8 DEF TrueWhenSaid
<1>6. CASE Wake
  <2>1. PICK k \in 1..Len(deliveries) : deliveries' = [deliveries EXCEPT ![k].wake = "taken"]
    BY <1>6, Types DEF Wake
  <2>2. Len(deliveries') = Len(deliveries)
    BY <2>1, Types, Typing
  <2> QED
    BY <1>2, <2>2
<1>7. CASE ~(EscalateBlocked \/ TellHuman \/ Wake)
  <2>1. deliveries' = deliveries
    BY <1>7 DEF Next, Worker, Watchdog, Unblocks, Observe, Detach, ReadRow, Rewrite, Adopt, Change,
                Elapse, LookAtWorkers, LookAtDeliveries, Stop, vars
  <2> QED
    BY <1>3, <2>1
<1> QED
  BY <1>4, <1>5, <1>6, <1>7

\* What the watchdog reports of a block is true when it is said, of the episode the
\* worker is in, though its list was read before; "still blocked" is said only when a
\* worker was told of this episode and had its time.
THEOREM ReportsAreCurrent == Spec => ReportsThePresent
<1>1. Inv /\ [Next]_vars =>
        [\A i \in DOMAIN deliveries' \ DOMAIN deliveries : TrueWhenSaid(deliveries'[i])]_vars
  BY Said
<1> QED
  BY Invariance, <1>1, PTL DEF Spec, ReportsThePresent
=============================================================================
