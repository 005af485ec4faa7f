----------------------------- MODULE ViewProofs -----------------------------
(***************************************************************************)
(* Proofs about the event stream and the screen over it, for any journal,  *)
(* limits and disturbances: readers are given what Journal promises, and   *)
(* no event that matters stays unseen.                                     *)
(***************************************************************************)
EXTENDS View, SequenceTheorems, FiniteSetTheorems, TLAPS

-----------------------------------------------------------------------------
(* A journal can be read in order, from anywhere.                          *)

Events == {"mine", "other"}
AheadIn(j, c) == {s \in DOMAIN j : j[s] = "mine" /\ s > c}
Enumerates(q, S) == /\ q \in Seq(S) /\ Increasing(q)
                    /\ \A s \in S : \E i \in DOMAIN q : q[i] = s
Enumerable(j) == \A c \in Nat : \E q \in Seq(Nat) : Enumerates(q, AheadIn(j, c))

\* One larger element more, and it still can be enumerated.
LEMMA OneMore ==
  ASSUME NEW S \in SUBSET Nat, NEW q, Enumerates(q, S), NEW x \in Nat, \A s \in S : s < x
  PROVE  Enumerates(Append(q, x), S \cup {x})
<1> DEFINE T == S \cup {x}
<1>1. q \in Seq(T) /\ q \in Seq(S) /\ x \in T /\ DOMAIN q = 1..Len(q) /\ Len(q) \in Nat
  BY DEF Enumerates
<1>2. /\ Append(q, x) \in Seq(T) /\ Len(Append(q, x)) = Len(q) + 1
      /\ DOMAIN Append(q, x) = 1..(Len(q) + 1)
      /\ \A i \in 1..Len(q) : Append(q, x)[i] = q[i]
      /\ Append(q, x)[Len(q) + 1] = x
  BY <1>1
<1>3. \A i \in 1..Len(q) : q[i] \in S
  BY <1>1
<1> HIDE DEF T
<1>4. Increasing(Append(q, x))
  <2>1. SUFFICES ASSUME NEW i \in 1..(Len(q) + 1), NEW j \in 1..(Len(q) + 1), i < j
                 PROVE  Append(q, x)[i] < Append(q, x)[j]
    BY <1>2 DEF Increasing
  <2>2. i \in 1..Len(q)
    BY <1>1, <2>1
  <2>3. CASE j = Len(q) + 1
    BY <1>2, <1>3, <2>2, <2>3
  <2>4. CASE j \in 1..Len(q)
    BY <1>1, <1>2, <2>1, <2>2, <2>4 DEF Enumerates, Increasing
  <2> QED
    BY <1>1, <2>3, <2>4
<1>5. ASSUME NEW s \in T PROVE \E i \in DOMAIN Append(q, x) : Append(q, x)[i] = s
  <2>1. CASE s = x
    BY <1>1, <1>2, <2>1
  <2>2. CASE s \in S
    <3>1. PICK i \in 1..Len(q) : q[i] = s
      BY <1>1, <2>2 DEF Enumerates
    <3> QED
      BY <1>1, <1>2, <3>1
  <2> QED
    BY <1>5, <2>1, <2>2 DEF T
<1> QED
  BY <1>2, <1>4, <1>5 DEF Enumerates, T

\* So can a journal with one event more.
LEMMA Grown ==
  ASSUME NEW j \in Seq(Events), Enumerable(j), NEW e \in Events
  PROVE  Enumerable(Append(j, e))
<1>1. /\ DOMAIN j = 1..Len(j) /\ Len(j) \in Nat /\ DOMAIN Append(j, e) = 1..(Len(j) + 1)
      /\ \A i \in 1..Len(j) : Append(j, e)[i] = j[i]
      /\ Append(j, e)[Len(j) + 1] = e
  OBVIOUS
<1>2. SUFFICES ASSUME NEW c \in Nat
               PROVE  \E q \in Seq(Nat) : Enumerates(q, AheadIn(Append(j, e), c))
  BY DEF Enumerable
<1> DEFINE S == AheadIn(j, c)
           x == Len(j) + 1
<1>3. PICK q \in Seq(Nat) : Enumerates(q, S)
  BY DEF Enumerable
<1>4. S \in SUBSET Nat /\ x \in Nat /\ \A s \in S : s < x
  BY <1>1 DEF AheadIn
<1>5. CASE e = "mine" /\ x > c
  <2>1. AheadIn(Append(j, e), c) = S \cup {x}
    BY <1>1, <1>5 DEF AheadIn
  <2>2. Append(q, x) \in Seq(Nat)
    BY <1>4
  <2> QED
    BY <1>3, <1>4, <2>1, <2>2, OneMore
<1>6. CASE ~(e = "mine" /\ x > c)
  <2>1. AheadIn(Append(j, e), c) = S
    BY <1>1, <1>6 DEF AheadIn
  <2> QED
    BY <1>3, <2>1
<1> QED
  BY <1>5, <1>6

\* After is the enumeration of what lies ahead.
LEMMA AfterInOrder ==
  ASSUME journal \in Seq(Events), Enumerable(journal), NEW c \in Nat
  PROVE  Enumerates(After(c), Ahead(c)) /\ Ahead(c) \subseteq 1..Len(journal)
<1> DEFINE S == Ahead(c)
<1>1. S = AheadIn(journal, c) /\ S \subseteq 1..Len(journal) /\ Len(journal) \in Nat
  BY DEF Ahead, AheadIn, Matching
<1>2. PICK q : Enumerates(q, S)
  BY <1>1 DEF Enumerable
<1>3. q \in [1..Len(q) -> S] /\ Len(q) \in Nat /\ DOMAIN q = 1..Len(q)
  BY <1>2 DEF Enumerates
<1> HIDE DEF S
<1>4. q \in Bijection(1..Len(q), S)
  <2>1. \A i, j \in 1..Len(q) : q[i] = q[j] => i = j
    <3>1. \A i \in 1..Len(q) : q[i] \in Nat
      BY <1>1, <1>3
    <3> QED
      BY <1>2, <1>3, <3>1 DEF Enumerates, Increasing
  <2>2. q \in Injection(1..Len(q), S)
    BY <1>3, <2>1 DEF Injection, IsInjective
  <2>3. q \in Surjection(1..Len(q), S)
    BY <1>2, <1>3 DEF Enumerates, Surjection
  <2> QED
    BY <2>2, <2>3 DEF Bijection
<1>5. IsFiniteSet(S) /\ Cardinality(S) = Len(q)
  <2>1. \A n \in Nat : IsFiniteSet(1..n) /\ Cardinality(1..n) = n
    BY FS_Interval
  <2>2. ExistsBijection(1..Len(q), S)
    BY <1>4 DEF ExistsBijection
  <2> QED
    BY <1>3, <2>1, <2>2, FS_Bijection
<1>6. \E a \in [1..Cardinality(S) -> S] : Increasing(a)
  BY <1>2, <1>3, <1>5 DEF Enumerates
<1> DEFINE a == After(c)
<1>7. a \in [1..Len(q) -> S] /\ Increasing(a)
  BY <1>5, <1>6 DEF After, S
<1> HIDE DEF a
<1>8. a \in Injection(1..Len(q), S)
  BY <1>1, <1>3, <1>7 DEF Increasing, Injection, IsInjective
<1>9. a \in Surjection(1..Len(q), S)
  BY <1>3, <1>5, <1>8, FS_Injection, FS_Interval
<1>10. a \in Seq(S)
  BY <1>3, <1>7
<1> QED
  BY <1>1, <1>7, <1>9, <1>10 DEF Enumerates, Surjection, S, a

-----------------------------------------------------------------------------
(* The reader's place in the journal.                                      *)

\* b is the first event of interest after a.
Follows(a, b) == b \in Matching /\ a < b /\ \A s \in Matching : s <= a \/ b <= s
Newest(q, start) == IF q = <<>> THEN start ELSE q[Len(q)]

StreamType ==
  /\ journal \in Seq(Events) /\ fresh \in Nat /\ from \in Nat \cup {None} /\ cur \in Nat \cup {None}
  /\ out \in Seq(Nat) /\ pc \in {"off", "ask", "dial", "stream", "lost", "done"}
  /\ h \in [st : {"off", "read", "wait"}, cur : Nat]
  /\ chan \in [open : BOOLEAN, n : Nat] /\ link \in Seq(Nat) /\ hits \subseteq Kinds

\* Where a client has come to, by its cursor and by what it was given.
ClientInv ==
  /\ pc \in {"dial", "stream", "lost"} => cur \in 0..Len(journal)
  /\ role = "view" => out = <<>> /\ pc \notin {"ask", "done"}
  /\ role # "view" =>
       /\ pc # "off" /\ (pc = "ask" => from = None /\ out = <<>>)
       /\ pc \in {"dial", "stream", "lost"} => from \in Nat /\ cur = Newest(out, from)
       /\ Single /\ pc # "done" => out = <<>>

\* A handler has come as far as what it sent.
HandlerInv ==
  h.st # "off" =>
    /\ pc = "stream" /\ (Single => link = <<>>)
    /\ \A i \in 1..Len(link) : link[i] # Slow
    /\ h.cur = Newest(link, cur)

\* What is on its way goes on from the client's cursor, leaving nothing out.
LinkInv ==
  pc = "stream" =>
    \A i \in 1..Len(link) :
      IF link[i] = Slow THEN i = Len(link)
      ELSE Follows(IF i = 1 THEN cur ELSE link[i-1], link[i])

StreamInv == StreamType /\ Enumerable(journal) /\ ClientInv /\ HandlerInv /\ LinkInv

\* The journal grows at its end: what followed still follows.
LEMMA StillFollows ==
  ASSUME journal \in Seq(Events), NEW e \in Seq(Events), journal' = journal \o e
  PROVE  /\ Len(journal') \in Nat /\ Len(journal') >= Len(journal)
         /\ \A a, b \in Nat : Follows(a, b) => Follows(a, b)'
<1>1. /\ Len(journal) \in Nat /\ Len(e) \in Nat /\ journal' \in Seq(Events)
      /\ Len(journal') = Len(journal) + Len(e)
      /\ DOMAIN journal = 1..Len(journal) /\ DOMAIN journal' = 1..Len(journal')
      /\ \A i \in 1..Len(journal) : journal'[i] = journal[i]
  OBVIOUS
<1>2. /\ Matching \subseteq 1..Len(journal) /\ Matching \subseteq Matching'
      /\ \A s \in Matching' : s \in Matching \/ s > Len(journal)
      /\ Matching' \subseteq 1..Len(journal')
  BY <1>1 DEF Matching
<1>3. ASSUME NEW a \in Nat, NEW b \in Nat, Follows(a, b) PROVE Follows(a, b)'
  BY <1>1, <1>2, <1>3 DEF Follows
<1> QED
  BY <1>1, <1>3

LEMMA CommitKeeps ==
  ASSUME StreamInv, NEW e \in {"mine", "other"}, NEW f \in {"mine", "other"},
         Commit(<< e >>) \/ Commit(<< e, f >>)
  PROVE  StreamInv'
<1>1. PICK es \in Seq(Events) : Commit(es) /\ (es = << e >> \/ es = << e, f >>)
  <2>1. << e >> \in Seq(Events) /\ << e, f >> \in Seq(Events)
    BY DEF Events
  <2> QED
    BY <2>1
<1>2. journal' = journal \o es /\ journal \in Seq(Events)
  BY <1>1 DEF Commit, StreamInv, StreamType
<1>3. Enumerable(journal')
  <2>1. CASE es = << e >>
    <3>1. journal' = Append(journal, e)
      BY <1>2, <2>1
    <3> QED
      BY <1>2, <3>1, Grown DEF StreamInv, Events
  <2>2. CASE es = << e, f >>
    <3>1. journal' = Append(Append(journal, e), f)
      BY <1>2, <2>2
    <3>2. Append(journal, e) \in Seq(Events) /\ Enumerable(Append(journal, e))
      BY <1>2, Grown DEF StreamInv, Events
    <3> QED
      BY <3>1, <3>2, Grown DEF Events
  <2> QED
    BY <1>1, <2>1, <2>2
<1>4. /\ journal' \in Seq(Events) /\ fresh' \in Nat
      /\ UNCHANGED <<role, from, cur, out, pc, h, chan, link, hits>>
  BY <1>1, <1>2 DEF Commit
<1>5. Len(journal) \in Nat /\ Len(journal') \in Nat /\ Len(journal') >= Len(journal)
  BY <1>2, StillFollows
<1>6. StreamType' /\ ClientInv' /\ HandlerInv'
  <2>1. StreamType'
    BY <1>4 DEF StreamInv, StreamType
  <2>2. ClientInv'
    BY <1>4, <1>5 DEF StreamInv, ClientInv, Single, Newest
  <2>3. HandlerInv'
    BY <1>4 DEF StreamInv, HandlerInv, Single, Newest
  <2> QED
    BY <2>1, <2>2, <2>3
<1>7. LinkInv'
  <2>1. SUFFICES ASSUME pc = "stream", NEW i \in 1..Len(link)
                 PROVE  IF link[i] = Slow THEN i = Len(link)
                        ELSE Follows(IF i = 1 THEN cur ELSE link[i-1], link[i])'
    BY <1>4 DEF LinkInv
  <2>2. link[i] \in Nat /\ (i # 1 => link[i-1] \in Nat) /\ cur \in Nat
    <3>1. link \in Seq(Nat) /\ cur \in Nat
      BY <2>1 DEF StreamInv, StreamType, ClientInv
    <3>2. Len(link) \in Nat /\ (i # 1 => i - 1 \in 1..Len(link))
      BY <2>1, <3>1
    <3> QED
      BY <2>1, <3>1, <3>2
  <2>3. IF link[i] = Slow THEN i = Len(link) ELSE Follows(IF i = 1 THEN cur ELSE link[i-1], link[i])
    BY <2>1 DEF StreamInv, LinkInv
  <2> QED
    BY <1>2, <1>4, <2>2, <2>3, StillFollows
<1> QED
  BY <1>3, <1>6, <1>7 DEF StreamInv

\* A page goes on from its cursor, leaving nothing out.
LEMMA Pages ==
  ASSUME StreamInv, NEW c \in Nat, NEW k \in Nat, k <= Len(After(c))
  PROVE  LET page == SubSeq(After(c), 1, k)
         IN /\ page \in Seq(Nat) /\ Len(page) = k
            /\ \A i \in 1..k : Follows(IF i = 1 THEN c ELSE page[i-1], page[i])
<1> DEFINE q == After(c)
           page == SubSeq(q, 1, k)
<1>1. Enumerates(q, Ahead(c)) /\ Ahead(c) \subseteq 1..Len(journal)
  BY AfterInOrder DEF StreamInv, StreamType
<1>2. q \in Seq(Ahead(c)) /\ DOMAIN q = 1..Len(q) /\ Len(q) \in Nat /\ k <= Len(q)
  BY <1>1 DEF Enumerates
<1>3. \A i \in 1..Len(q) : q[i] \in Matching /\ q[i] \in Nat /\ q[i] > c
  BY <1>1, <1>2 DEF Ahead
<1> HIDE DEF q
<1>4. page \in Seq(Nat) /\ Len(page) = k /\ \A i \in 1..k : page[i] = q[i]
  <2>1. \A i \in 1..k : q[i] \in Nat
    BY <1>2, <1>3
  <2>2. /\ page \in Seq(Nat) /\ Len(page) = IF 1 <= k THEN k - 1 + 1 ELSE 0
        /\ \A i \in 1..k - 1 + 1 : page[i] = q[1 + i - 1]
    BY <2>1, SubSeqProperties
  <2> QED
    BY <2>2
<1> HIDE DEF page
<1>5. ASSUME NEW i \in 1..k PROVE Follows(IF i = 1 THEN c ELSE page[i-1], page[i])
  <2>1. i \in 1..Len(q) /\ page[i] = q[i] /\ page[i] \in Matching /\ page[i] \in Nat /\ page[i] > c
    BY <1>2, <1>3, <1>4
  <2>2. ASSUME NEW s \in Matching, s > c PROVE \E n \in 1..Len(q) : q[n] = s
    BY <1>1, <1>2, <2>2 DEF Enumerates, Ahead
  <2>3. Matching \subseteq Nat
    BY DEF Matching, StreamInv, StreamType
  <2>4. CASE i = 1
    <3>1. ASSUME NEW s \in Matching PROVE s <= c \/ q[1] <= s
      <4>1. SUFFICES ASSUME s > c PROVE q[1] <= s
        BY <2>3, <3>1
      <4>2. PICK n \in 1..Len(q) : q[n] = s
        BY <2>2, <4>1
      <4>3. n = 1 \/ q[1] < q[n]
        <5>1. n # 1 => 1 < n /\ 1 \in DOMAIN q /\ n \in DOMAIN q
          BY <1>2, <2>1, <2>4
        <5> QED
          BY <1>1, <5>1 DEF Enumerates, Increasing
      <4> QED
        BY <1>3, <2>1, <2>4, <4>2, <4>3
    <3> QED
      BY <2>1, <2>4, <3>1 DEF Follows
  <2>5. CASE i # 1
    <3> DEFINE m == i - 1
    <3>1. m \in 1..Len(q) /\ m \in 1..k /\ m < i /\ page[m] = q[m] /\ q[m] \in Nat
      BY <1>2, <1>3, <1>4, <2>5
    <3>2. q[m] < q[i]
      BY <1>1, <1>2, <2>1, <3>1 DEF Enumerates, Increasing
    <3>3. ASSUME NEW s \in Matching PROVE s <= q[m] \/ q[i] <= s
      <4>1. CASE s <= c
        BY <1>3, <2>3, <3>1, <4>1
      <4>2. CASE s > c
        <5>1. PICK n \in 1..Len(q) : q[n] = s
          BY <2>2, <4>2
        <5>2. n < m \/ n = m \/ n = i \/ n > i
          BY <3>1
        <5>3. (n < m => q[n] < q[m]) /\ (i < n => q[i] < q[n])
          BY <1>1, <1>2, <2>1, <3>1 DEF Enumerates, Increasing
        <5> QED
          BY <1>3, <2>1, <3>1, <5>1, <5>2, <5>3
      <4> QED
        BY <2>3, <4>1, <4>2
    <3> QED
      BY <2>1, <2>5, <3>1, <3>2, <3>3 DEF Follows
  <2> QED
    BY <2>4, <2>5
<1> QED
  BY <1>4, <1>5 DEF page, q

LEMMA Nothing ==
  /\ Off \in [st : {"off", "read", "wait"}, cur : Nat]
  /\ Closed \in [open : BOOLEAN, n : Nat] /\ subscribed \in [open : BOOLEAN, n : Nat]
  BY DEF Off, Closed, subscribed

\* The handler reads on.
LEMMA ReadKeeps ==
  ASSUME StreamInv, Page \in Nat \ {0}, Read
  PROVE  StreamInv'
<1> DEFINE found == After(h.cur)
           k == Min({IF Single THEN 1 ELSE Page, Len(found)})
           page == SubSeq(found, 1, k)
<1>1. /\ h.cur \in Nat /\ h.st # "off" /\ pc = "stream" /\ link \in Seq(Nat) /\ cur \in Nat
      /\ (Single => link = <<>>) /\ h.cur = Newest(link, cur) /\ \A i \in 1..Len(link) : link[i] # Slow
      /\ \A i \in 1..Len(link) : Follows(IF i = 1 THEN cur ELSE link[i-1], link[i])
  BY DEF Read, StreamInv, StreamType, HandlerInv, ClientInv, LinkInv
<1>2. Len(found) \in Nat
  BY <1>1, AfterInOrder DEF StreamInv, StreamType, Enumerates
<1>3. k \in Nat /\ k <= Len(found) /\ (Single => k <= 1)
  <2> DEFINE m == IF Single THEN 1 ELSE Page
             n == Len(found)
  <2>1. m \in Nat /\ n \in Nat
    BY <1>2
  <2> HIDE DEF m, n
  <2>2. \E x \in {m, n} : \A y \in {m, n} : x =< y
    BY <2>1
  <2>3. Min({m, n}) \in {m, n} /\ \A y \in {m, n} : Min({m, n}) =< y
    BY <2>2 DEF Min
  <2>4. Min({m, n}) \in Nat /\ Min({m, n}) <= n /\ Min({m, n}) <= m
    BY <2>1, <2>3
  <2> QED
    BY <2>4 DEF m, n
<1>4. /\ page \in Seq(Nat) /\ Len(page) = k
      /\ \A i \in 1..k : Follows(IF i = 1 THEN h.cur ELSE page[i-1], page[i])
  BY <1>1, <1>3, Pages
<1>5. /\ link' = link \o page
      /\ \/ Single /\ page # <<>> /\ h' = Off /\ chan' = Closed
         \/ /\ h' = [st |-> IF Len(page) = Page THEN "read" ELSE "wait",
                     cur |-> IF page = <<>> THEN h.cur ELSE Last(page)]
            /\ ~(Single /\ page # <<>>) /\ UNCHANGED chan
      /\ UNCHANGED <<journal, fresh, role, from, cur, out, pc, hits>>
  BY DEF Read
<1> HIDE DEF k, page, found
<1>6. /\ link' \in Seq(Nat) /\ Len(link') = Len(link) + Len(page) /\ Len(link) \in Nat /\ Len(page) \in Nat
      /\ \A i \in 1..Len(link) : link'[i] = link[i]
      /\ \A i \in Len(link) + 1 .. Len(link') : i - Len(link) \in 1..Len(page) /\ link'[i] = page[i - Len(link)]
  <2>1. /\ link' \in Seq(Nat) /\ Len(link') = Len(link) + Len(page) /\ Len(link) \in Nat /\ Len(page) \in Nat
        /\ \A i \in 1..Len(link) + Len(page) :
             link'[i] = IF i <= Len(link) THEN link[i] ELSE page[i - Len(link)]
    <3>1. link' = link \o page
      BY <1>5
    <3>2. link \in Seq(Nat) /\ page \in Seq(Nat) /\ Len(link) \in Nat /\ Len(page) \in Nat
      BY <1>1, <1>4
    <3> QED
      BY <3>1, <3>2, ConcatProperties
  <2> QED
    BY <2>1
<1>7. \A i \in 1..Len(page) : page[i] \in Nat /\ page[i] # Slow
  <2>1. \A s \in Matching : s \in Nat /\ s # Slow
    BY DEF Matching, StreamInv, StreamType, Slow
  <2> QED
    BY <1>4, <2>1 DEF Follows
<1>8. \A i \in 1..Len(link') : link'[i] # Slow
  <2>1. ASSUME NEW i \in 1..Len(link') PROVE link'[i] # Slow
    <3>1. CASE i <= Len(link)
      <4>1. i \in 1..Len(link) /\ link'[i] = link[i]
        BY <1>6, <3>1
      <4>2. link[i] # Slow
        BY <1>1, <4>1
      <4> QED
        BY <4>1, <4>2
    <3>2. CASE i > Len(link)
      <4>1. i - Len(link) \in 1..Len(page) /\ link'[i] = page[i - Len(link)]
        BY <1>6, <3>2
      <4>2. page[i - Len(link)] # Slow
        BY <1>7, <4>1
      <4> QED
        BY <4>1, <4>2
    <3> QED
      BY <1>6, <3>1, <3>2
  <2> QED
    BY <2>1
<1>9. \A i \in 1..Len(link') : Follows(IF i = 1 THEN cur ELSE link'[i-1], link'[i])
  <2>1. SUFFICES ASSUME NEW i \in 1..Len(link') PROVE Follows(IF i = 1 THEN cur ELSE link'[i-1], link'[i])
    OBVIOUS
  <2>2. CASE i <= Len(link)
    <3>1. i \in 1..Len(link) /\ link'[i] = link[i] /\ (i # 1 => i - 1 \in 1..Len(link))
      BY <1>6, <2>2
    <3> QED
      BY <1>1, <1>6, <3>1
  <2>3. CASE i > Len(link)
    <3>1. i - Len(link) \in 1..k /\ link'[i] = page[i - Len(link)]
      BY <1>4, <1>6, <2>3
    <3>2. CASE i = Len(link) + 1
      <4>1. i - Len(link) = 1 /\ Follows(h.cur, page[1])
        BY <1>4, <1>6, <3>1, <3>2
      <4>2. h.cur = IF i = 1 THEN cur ELSE link'[i-1]
        BY <1>1, <1>6, <3>2 DEF Newest
      <4> QED
        BY <3>1, <4>1, <4>2
    <3>3. CASE i # Len(link) + 1
      <4>1. i - 1 \in Len(link) + 1 .. Len(link') /\ (i - 1) - Len(link) = (i - Len(link)) - 1 /\ i # 1
            /\ i - Len(link) # 1
        BY <1>6, <2>3, <3>3
      <4>2. link'[i-1] = page[(i - Len(link)) - 1]
        BY <1>6, <4>1
      <4> QED
        BY <1>4, <3>1, <4>1, <4>2
    <3> QED
      BY <3>2, <3>3
  <2> QED
    BY <1>6, <2>2, <2>3
<1>10. StreamType' /\ Enumerable(journal')
  <2>1. page # <<>> => Last(page) \in Nat
    BY <1>4, <1>6, <1>7 DEF Last
  <2>2. h' \in [st : {"off", "read", "wait"}, cur : Nat]
    BY <1>1, <1>5, <2>1 DEF Off
  <2>3. chan' \in [open : BOOLEAN, n : Nat]
    <3>1. chan' = Closed \/ chan' = chan
      BY <1>5
    <3>2. chan \in [open : BOOLEAN, n : Nat]
      BY DEF StreamInv, StreamType
    <3> QED
      BY <3>1, <3>2, Nothing
  <2> QED
    BY <1>5, <1>6, <2>2, <2>3 DEF StreamInv, StreamType
<1>11. ClientInv'
  BY <1>5 DEF StreamInv, ClientInv, Single, Newest
<1>12. HandlerInv'
  <2>1. SUFFICES ASSUME h'.st # "off" PROVE HandlerInv'
    BY DEF HandlerInv
  <2>2. /\ h'.cur = (IF page = <<>> THEN h.cur ELSE Last(page)) /\ (Single => page = <<>>)
    BY <1>5, <2>1 DEF Off
  <2>3. CASE page = <<>>
    <3>1. link' = link
      BY <1>1, <1>5, <2>3
    <3> QED
      BY <1>1, <1>5, <2>2, <2>3, <3>1 DEF HandlerInv, Newest, Single
  <2>4. CASE page # <<>>
    <3>1. Len(page) > 0 /\ link' # <<>> /\ link'[Len(link')] = page[Len(page)]
      BY <1>4, <1>6, <2>4
    <3> QED
      BY <1>1, <1>5, <1>8, <2>2, <2>4, <3>1 DEF HandlerInv, Newest, Single, Last
  <2> QED
    BY <2>3, <2>4
<1>13. LinkInv'
  <2>1. journal' = journal /\ cur' = cur
    BY <1>5
  <2> QED
    BY <1>8, <1>9, <2>1 DEF LinkInv, Follows, Matching
<1> QED
  BY <1>10, <1>11, <1>12, <1>13 DEF StreamInv

\* What the hub and the handler do besides.
LEMMA DaemonKeeps ==
  ASSUME StreamInv, Buffer \in Nat, Publish \/ Hear \/ Overflow
  PROVE  StreamInv'
<1>t. /\ chan \in [open : BOOLEAN, n : Nat] /\ h \in [st : {"off", "read", "wait"}, cur : Nat]
      /\ fresh \in Nat /\ link \in Seq(Nat)
  BY DEF StreamInv, StreamType
<1>1. CASE Publish
  <2>1. fresh' \in Nat /\ UNCHANGED <<journal, role, from, cur, out, pc, h, link, hits>>
    BY <1>1 DEF Publish
  <2>2. chan' \in [open : BOOLEAN, n : Nat]
    <3> DEFINE n == chan.n + fresh
    <3>1. n \in Nat
      BY <1>t
    <3> HIDE DEF n
    <3>2. \E x \in {Buffer, n} : \A y \in {Buffer, n} : x =< y
      BY <3>1
    <3>3. Min({Buffer, n}) \in {Buffer, n}
      BY <3>2 DEF Min
    <3>4. Min({Buffer, n}) \in Nat /\ chan.n \in Nat
      BY <1>t, <3>1, <3>3
    <3>5. (IF chan.open THEN Min({Buffer, n}) ELSE chan.n) \in Nat
      BY <3>4
    <3>6. \A b, m : m \in Nat => [open |-> chan.open /\ b, n |-> m] \in [open : BOOLEAN, n : Nat]
      OBVIOUS
    <3> QED
      BY <1>1, <3>5, <3>6 DEF Publish, hinted, n
  <2> QED
    BY <2>1, <2>2
       DEF StreamInv, StreamType, ClientInv, HandlerInv, LinkInv, Follows, Matching, Newest, Single
<1>2. CASE Hear
  <2>1. /\ h.st = "wait" /\ chan.n > 0 /\ chan' = [chan EXCEPT !.n = @ - 1]
        /\ h' = [h EXCEPT !.st = "read"]
        /\ UNCHANGED <<journal, fresh, role, from, cur, out, pc, link, hits>>
    BY <1>2 DEF Hear
  <2>2. h'.st = "read" /\ h'.cur = h.cur /\ h' \in [st : {"off", "read", "wait"}, cur : Nat]
    BY <1>t, <2>1
  <2>3. chan' \in [open : BOOLEAN, n : Nat]
    <3>1. chan.open \in BOOLEAN /\ chan.n - 1 \in Nat
      BY <1>t, <2>1
    <3>2. chan' = [open |-> chan.open, n |-> chan.n - 1]
      BY <1>t, <2>1
    <3> QED
      BY <3>1, <3>2
  <2> QED
    BY <2>1, <2>2, <2>3
       DEF StreamInv, StreamType, ClientInv, HandlerInv, LinkInv, Follows, Matching, Newest, Single
<1>3. CASE Overflow
  <2>1. /\ h.st = "wait" /\ UNCHANGED <<journal, fresh, role, from, cur, out, pc, hits>>
        /\ \/ Single /\ h' = [st |-> "read", cur |-> cur] /\ chan' = subscribed /\ link' = link
           \/ ~Single /\ h' = Off /\ chan' = Closed /\ link' = Append(link, Slow)
    BY <1>3 DEF Overflow
  <2>2. pc = "stream" /\ cur \in Nat /\ (Single => link = <<>>)
        /\ \A i \in 1..Len(link) : link[i] # Slow
    BY <2>1 DEF StreamInv, HandlerInv, ClientInv
  <2>3. CASE Single /\ h' = [st |-> "read", cur |-> cur] /\ chan' = subscribed /\ link' = link
    <3>1. StreamType'
      BY <2>1, <2>2, <2>3, Nothing DEF StreamInv, StreamType
    <3> QED
      BY <2>1, <2>2, <2>3, <3>1
         DEF StreamInv, ClientInv, HandlerInv, LinkInv, Follows, Matching, Newest, Single
  <2>4. CASE ~Single /\ h' = Off /\ chan' = Closed /\ link' = Append(link, Slow)
    <3>1. /\ link' \in Seq(Nat) /\ Len(link') = Len(link) + 1 /\ Len(link) \in Nat
          /\ link'[Len(link')] = Slow /\ \A i \in 1..Len(link) : link'[i] = link[i]
      BY <1>t, <2>4 DEF Slow
    <3>2. StreamType'
      BY <2>1, <2>4, <3>1, Nothing DEF StreamInv, StreamType
    <3>3. LinkInv'
      <4>1. SUFFICES ASSUME NEW i \in 1..Len(link')
                     PROVE  IF link'[i] = Slow THEN i = Len(link')
                            ELSE Follows(IF i = 1 THEN cur ELSE link'[i-1], link'[i])
        BY <2>1 DEF LinkInv, Follows, Matching
      <4>2. CASE i = Len(link')
        BY <3>1, <4>2
      <4>3. CASE i # Len(link')
        <5>1. i \in 1..Len(link) /\ (i # 1 => i - 1 \in 1..Len(link))
          <6>1. i \in 1..Len(link) + 1 /\ i # Len(link) + 1 /\ Len(link) \in Nat
            BY <3>1, <4>3
          <6> QED
            BY <6>1
        <5>2. link'[i] = link[i] /\ (i # 1 => link'[i-1] = link[i-1])
          BY <3>1, <5>1
        <5> QED
          BY <2>2, <5>1, <5>2 DEF StreamInv, LinkInv
      <4> QED
        BY <4>2, <4>3
    <3>4. ClientInv' /\ HandlerInv' /\ Enumerable(journal')
      BY <2>1, <2>4 DEF StreamInv, ClientInv, HandlerInv, Newest, Single, Off
    <3> QED
      BY <3>2, <3>3, <3>4 DEF StreamInv
  <2> QED
    BY <2>1, <2>3, <2>4
<1> QED
  BY <1>1, <1>2, <1>3

\* The client is given the next event.
LEMMA ReceiveKeeps ==
  ASSUME StreamInv, Receive
  PROVE  StreamInv' /\ Follows(cur, Head(link)) /\ Head(link) \in Nat
<1>1. /\ pc = "stream" /\ link # <<>> /\ Head(link) # Slow /\ link \in Seq(Nat) /\ out \in Seq(Nat)
      /\ link' = Tail(link) /\ out' = (IF role = "view" THEN out ELSE Append(out, Head(link)))
      /\ UNCHANGED <<journal, fresh, role, from, h, chan, hits>>
      /\ IF Single THEN pc' = "done" /\ cur' = cur ELSE cur' = Head(link) /\ pc' = pc
  BY DEF Receive, StreamInv, StreamType
<1>2. /\ Len(link) \in Nat /\ Len(link) > 0 /\ Head(link) = link[1] /\ link[1] \in Nat
      /\ link' \in Seq(Nat) /\ Len(link') = Len(link) - 1
      /\ \A i \in 1..Len(link') : link'[i] = link[i+1]
  BY <1>1
<1>3. Follows(cur, Head(link))
  <2>1. 1 \in 1..Len(link) /\ link[1] # Slow /\ pc = "stream"
    BY <1>1, <1>2
  <2>2. Follows(IF 1 = 1 THEN cur ELSE link[1-1], link[1])
    BY <2>1 DEF StreamInv, LinkInv
  <2> QED
    BY <1>2, <2>2
<1>4. cur \in Nat /\ Head(link) \in 1..Len(journal)
  BY <1>1, <1>3 DEF StreamInv, StreamType, ClientInv, Follows, Matching
<1>5. /\ Append(out, Head(link)) \in Seq(Nat) /\ Append(out, Head(link)) # <<>>
      /\ Newest(Append(out, Head(link)), from) = Head(link)
  <2>1. \A q \in Seq(Nat), x \in Nat : /\ Append(q, x) \in Seq(Nat) /\ Append(q, x) # <<>>
                                       /\ Append(q, x)[Len(Append(q, x))] = x
    OBVIOUS
  <2>2. out \in Seq(Nat) /\ Head(link) \in Nat
    BY <1>1, <1>2
  <2> QED
    BY <2>1, <2>2 DEF Newest
<1>6. StreamType' /\ Enumerable(journal')
  BY <1>1, <1>2, <1>4, <1>5 DEF StreamInv, StreamType
<1>7. ClientInv'
  <2>1. ClientInv /\ UNCHANGED <<journal, role, from>>
    BY <1>1 DEF StreamInv
  <2>2. CASE role = "view"
    BY <1>1, <1>4, <2>1, <2>2 DEF ClientInv, Single
  <2>3. CASE role # "view" /\ Single
    BY <1>1, <2>1, <2>3 DEF ClientInv, Single
  <2>4. CASE role # "view" /\ ~Single
    <3>1. cur' = Head(link) /\ pc' = "stream" /\ Newest(out', from') = Head(link) /\ from \in Nat
      BY <1>1, <1>5, <2>1, <2>4 DEF ClientInv
    <3>2. ~Single'
      BY <2>1, <2>4 DEF Single
    <3> QED
      BY <1>4, <2>1, <2>4, <3>1, <3>2 DEF ClientInv
  <2> QED
    BY <2>2, <2>3, <2>4
<1>8. HandlerInv'
  <2>1. SUFFICES ASSUME h.st # "off" PROVE HandlerInv'
    BY <1>1 DEF HandlerInv
  <2>2. ~Single /\ (\A i \in 1..Len(link) : link[i] # Slow) /\ h.cur = Newest(link, cur)
    BY <1>1, <2>1 DEF StreamInv, HandlerInv
  <2>3. \A i \in 1..Len(link') : i + 1 \in 1..Len(link)
    BY <1>2
  <2>4. Newest(link', cur') = h.cur
    <3>1. CASE Len(link) = 1
      BY <1>1, <1>2, <2>2, <3>1 DEF Newest
    <3>2. CASE Len(link) # 1
      <4>1. Len(link') \in 1..Len(link') /\ link' # <<>> /\ Len(link') + 1 = Len(link)
        BY <1>2, <3>2
      <4> QED
        BY <1>1, <1>2, <2>2, <4>1 DEF Newest
    <3> QED
      BY <3>1, <3>2
  <2> QED
    BY <1>1, <1>2, <2>2, <2>3, <2>4 DEF HandlerInv, Single
<1>9. LinkInv'
  <2>1. SUFFICES ASSUME pc' = "stream", NEW i \in 1..Len(link')
                 PROVE  IF link'[i] = Slow THEN i = Len(link')
                        ELSE Follows(IF i = 1 THEN cur' ELSE link'[i-1], link'[i])
    BY <1>1 DEF LinkInv, Follows, Matching
  <2>2. i + 1 \in 1..Len(link) /\ link'[i] = link[i+1] /\ i + 1 # 1 /\ (i + 1) - 1 = i
        /\ i \in 1..Len(link) /\ (i # 1 => link'[i-1] = link[i])
    BY <1>2, <2>1
  <2>3. cur' = link[1]
    BY <1>1, <1>2, <2>1
  <2>4. IF link[i+1] = Slow THEN i + 1 = Len(link) ELSE Follows(link[i], link[i+1])
    BY <1>1, <2>2 DEF StreamInv, LinkInv
  <2> QED
    BY <1>2, <2>2, <2>3, <2>4
<1> QED
  BY <1>2, <1>3, <1>6, <1>7, <1>8, <1>9 DEF StreamInv

\* Connections come and go; the client's place does not.
LEMMA ClientKeeps ==
  ASSUME StreamInv, \/ role # "view" /\ AskCursor
                    \/ Dial \/ Again \/ ReceiveSlow \/ Break
                    \/ role = "view" /\ pc \in {"off", "lost"} /\ pc' \in {"dial", "off"}
                       /\ cur' \in Nat \cup {None} /\ (pc' = "dial" => cur' \in 0..Len(journal))
                       /\ hits' \subseteq Kinds
                       /\ UNCHANGED <<journal, fresh, role, from, out, h, chan, link>>
                    \/ UNCHANGED <<journal, fresh, role, from, cur, out, pc, h, chan, link>>
                       /\ hits' \subseteq Kinds
  PROVE  StreamInv'
<1>1. CASE role # "view" /\ AskCursor
  <2>1. /\ pc = "ask" /\ cur' = Len(journal) /\ from' = cur' /\ pc' = "dial" /\ role # "view"
        /\ UNCHANGED <<journal, fresh, role, out, h, chan, link, hits>>
    BY <1>1 DEF AskCursor
  <2>2. Len(journal) \in Nat
    BY DEF StreamInv, StreamType
  <2> QED
    BY <2>1, <2>2 DEF StreamInv, StreamType, ClientInv, HandlerInv, LinkInv, Newest, Single
<1>2. CASE Dial
  <2>1. /\ pc = "dial" /\ pc' = "stream" /\ h' = [st |-> "read", cur |-> cur]
        /\ chan' = subscribed /\ link' = <<>>
        /\ UNCHANGED <<journal, fresh, role, from, cur, out, hits>>
    BY <1>2 DEF Dial
  <2>2. cur \in Nat
    BY <2>1 DEF StreamInv, StreamType, ClientInv
  <2>3. StreamType'
    BY <2>1, <2>2, Nothing DEF StreamInv, StreamType
  <2>4. ClientInv' /\ Enumerable(journal')
    BY <2>1 DEF StreamInv, ClientInv, Newest, Single
  <2>5. Len(link') = 0 /\ HandlerInv' /\ LinkInv'
    BY <2>1 DEF HandlerInv, LinkInv, Newest
  <2> QED
    BY <2>3, <2>4, <2>5 DEF StreamInv
<1>3. CASE Again
  BY <1>3 DEF Again, StreamInv, StreamType, ClientInv, HandlerInv, LinkInv, Newest, Single
<1>4. CASE ReceiveSlow
  <2>1. h.st = "off"
    <3>1. link \in Seq(Nat) /\ link # <<>> /\ Head(link) = Slow
      BY <1>4 DEF ReceiveSlow, StreamInv, StreamType
    <3>2. 1 \in 1..Len(link) /\ link[1] = Slow
      BY <3>1
    <3> QED
      BY <3>2 DEF StreamInv, HandlerInv
  <2> QED
    BY <1>4, <2>1 DEF ReceiveSlow, StreamInv, StreamType, ClientInv, HandlerInv, LinkInv, Newest, Single
<1>5. CASE Break
  <2>1. /\ pc = "stream" /\ pc' = "lost" /\ h' = Off /\ chan' = Closed /\ link' = <<>>
        /\ hits' \subseteq Kinds /\ fresh' \in {fresh, 0} /\ UNCHANGED <<journal, role, from, cur, out>>
    BY <1>5 DEF Break, Disturb, StreamInv, StreamType
  <2>2. StreamType'
    BY <2>1, Nothing DEF StreamInv, StreamType
  <2> QED
    BY <2>1, <2>2 DEF StreamInv, ClientInv, HandlerInv, LinkInv, Newest, Single, Off
<1>6. CASE /\ role = "view" /\ pc \in {"off", "lost"} /\ pc' \in {"dial", "off"}
           /\ cur' \in Nat \cup {None} /\ (pc' = "dial" => cur' \in 0..Len(journal))
           /\ hits' \subseteq Kinds
           /\ UNCHANGED <<journal, fresh, role, from, out, h, chan, link>>
  BY <1>6 DEF StreamInv, StreamType, ClientInv, HandlerInv, LinkInv, Newest, Single
<1>7. CASE UNCHANGED <<journal, fresh, role, from, cur, out, pc, h, chan, link>> /\ hits' \subseteq Kinds
  BY <1>7 DEF StreamInv, StreamType, ClientInv, HandlerInv, LinkInv, Follows, Matching, Newest, Single
<1> QED
  BY <1>1, <1>2, <1>3, <1>4, <1>5, <1>6, <1>7

-----------------------------------------------------------------------------
(* The screen.                                                             *)

Messages == {"event", "lost", "ended"}
ViewType ==
  /\ shown \in [rows : Nat, connected : BOOLEAN]
  /\ load \in [st : {"none", "tail", "rows", "done", "failed"}, cursor : Nat, rows : Nat,
               connected : BOOLEAN]
  /\ queue \in Seq(Messages)

\* The update loop knows of a follower until it hears of its end, which is the last it
\* hears before it starts another. Readers of other kinds have no screen.
FollowerInv ==
  IF role = "view"
  THEN /\ ~following => pc = "off"
       /\ \A i \in 1..Len(queue) : queue[i] = "ended" => pc = "off" /\ following /\ i = Len(queue)
       /\ following /\ pc = "off" => queue # <<>> /\ queue[Len(queue)] = "ended"
  ELSE ~Loading /\ ~scheduled /\ queue = <<>>

\* A load knows more than the screen and follows from no later than where it read.
LoadInv ==
  /\ shown.rows <= Len(journal)
  /\ load.st \in {"rows", "done"} => load.cursor <= Len(journal)
  /\ load.st = "done" => load.cursor <= load.rows /\ shown.rows <= load.rows /\ load.rows <= Len(journal)
  /\ role = "view" => following \/ queue # <<>> \/ scheduled \/ Loading

\* Where an event that is not on the screen may be. A load's cursor counts only as long as
\* no follower runs, which reads from a place of its own.
ToSee(s) ==
  \/ s <= shown.rows
  \/ following /\ pc # "off" /\ s > cur
  \/ queue # <<>> \/ scheduled
  \/ Loading /\ (dirty \/ load.st \in {"tail", "rows", "failed"} \/ s <= load.rows
                 \/ (~following /\ s > load.cursor))
SeenInv == role = "view" => \A s \in Matching : ToSee(s)

ViewInv == ViewType /\ FollowerInv /\ LoadInv /\ SeenInv

\* What happens elsewhere takes nothing from the screen, and new events are still to come.
LEMMA ElsewhereKeeps ==
  ASSUME StreamInv, ViewInv, UNCHANGED viewVars, role' = role,
         role = "view" => cur' = cur /\ (pc' = "off" <=> pc = "off"),
         NEW es \in Seq(Events), journal' = journal \o es
  PROVE  ViewInv'
<1>1. /\ Len(journal) \in Nat /\ Len(journal') \in Nat /\ Len(journal') >= Len(journal)
      /\ \A s \in Matching' : s \in Nat /\ (s \in Matching \/ s > Len(journal))
  <2>1. /\ Len(journal) \in Nat /\ Len(es) \in Nat /\ journal' \in Seq(Events) /\ journal \in Seq(Events)
        /\ Len(journal') = Len(journal) + Len(es)
        /\ DOMAIN journal = 1..Len(journal) /\ DOMAIN journal' = 1..Len(journal')
        /\ \A i \in 1..Len(journal) : journal'[i] = journal[i]
    BY DEF StreamInv, StreamType
  <2> QED
    BY <2>1 DEF Matching
<1>2. UNCHANGED <<shown, load, dirty, scheduled, following, ready, queue>>
  BY DEF viewVars
<1>3. ViewType' /\ FollowerInv'
  BY <1>2 DEF ViewInv, ViewType, FollowerInv, Loading
<1>4. LoadInv'
  BY <1>1, <1>2 DEF ViewInv, ViewType, LoadInv, Loading
<1>5. SeenInv'
  <2>1. SUFFICES ASSUME role = "view", NEW s \in Matching' PROVE ToSee(s)'
    BY DEF SeenInv
  <2>2. cur' = cur /\ (pc' = "off" <=> pc = "off")
    BY <2>1
  <2>3. CASE s \in Matching
    <3>1. ToSee(s)
      BY <2>1, <2>3 DEF ViewInv, SeenInv
    <3> QED
      BY <1>2, <2>2, <3>1 DEF ToSee, Loading
  <2>4. CASE s > Len(journal)
    <3>1. pc # "off" => cur \in 0..Len(journal)
      BY <2>1 DEF StreamInv, StreamType, ClientInv
    <3>2. following /\ pc = "off" => queue # <<>>
      BY <2>1 DEF ViewInv, FollowerInv
    <3>3. following \/ queue # <<>> \/ scheduled \/ Loading
      BY <2>1 DEF ViewInv, LoadInv
    <3>4. load.st \in {"none", "tail", "rows", "done", "failed"} /\ load.cursor \in Nat
          /\ (load.st = "done" => load.cursor <= Len(journal))
      BY DEF ViewInv, ViewType, LoadInv
    <3> QED
      BY <1>1, <1>2, <2>2, <2>4, <3>1, <3>2, <3>3, <3>4 DEF ToSee, Loading
  <2> QED
    BY <1>1, <2>3, <2>4
<1> QED
  BY <1>3, <1>4, <1>5 DEF ViewInv

LEMMA InSecond ==
  ASSUME NEW S, NEW s \in Seq(S), NEW t \in Seq(S), NEW i \in 1..Len(s \o t), i > Len(s)
  PROVE  \E k \in 1..Len(t) : i = Len(s) + k /\ (s \o t)[i] = t[k]
<1>1. /\ Len(s) \in Nat /\ Len(t) \in Nat /\ Len(s \o t) = Len(s) + Len(t)
      /\ \A n \in 1..Len(s) + Len(t) : (s \o t)[n] = IF n <= Len(s) THEN s[n] ELSE t[n - Len(s)]
  BY ConcatProperties
<1>2. i - Len(s) \in 1..Len(t) /\ i = Len(s) + (i - Len(s)) /\ (s \o t)[i] = t[i - Len(s)]
  BY <1>1
<1> QED
  BY <1>2

\* A message of the follower is in the queue until the update loop handles it.
LEMMA MessageKeeps ==
  ASSUME StreamInv, ViewInv, role = "view", role' = role, pc \in {"stream", "lost"},
         NEW messages \in Seq(Messages), messages # <<>>, queue' = queue \o messages,
         \/ pc' # "off" /\ \A i \in 1..Len(messages) : messages[i] # "ended"
         \/ /\ pc' = "off" /\ messages[Len(messages)] = "ended"
            /\ \A i \in 1..Len(messages) : messages[i] = "ended" => i = Len(messages),
         shown' \in [rows : Nat, connected : BOOLEAN], shown'.rows = shown.rows,
         load' = load \/ load' = [load EXCEPT !.connected = FALSE],
         UNCHANGED <<journal, dirty, scheduled, following>>
  PROVE  ViewInv'
<1>1. /\ queue \in Seq(Messages) /\ Len(queue) \in Nat /\ Len(messages) \in Nat /\ Len(messages) > 0
      /\ queue' \in Seq(Messages) /\ Len(queue') = Len(queue) + Len(messages) /\ queue' # <<>>
      /\ \A i \in 1..Len(queue) : queue'[i] = queue[i]
      /\ \A i \in Len(queue) + 1 .. Len(queue') :
           i - Len(queue) \in 1..Len(messages) /\ queue'[i] = messages[i - Len(queue)]
  <2>1. queue \in Seq(Messages)
    BY DEF ViewInv, ViewType
  <2>2. /\ queue' \in Seq(Messages) /\ Len(queue') = Len(queue) + Len(messages)
        /\ \A i \in 1..Len(queue) + Len(messages) :
             queue'[i] = IF i <= Len(queue) THEN queue[i] ELSE messages[i - Len(queue)]
    BY <2>1, ConcatProperties
  <2>3. Len(queue) \in Nat /\ Len(messages) \in Nat /\ Len(messages) > 0
    BY <2>1
  <2> QED
    BY <2>1, <2>2, <2>3
<1>2. following /\ \A i \in 1..Len(queue) : queue[i] # "ended"
  BY DEF ViewInv, FollowerInv
<1>3. /\ load' \in [st : {"none", "tail", "rows", "done", "failed"}, cursor : Nat, rows : Nat,
                    connected : BOOLEAN]
      /\ load'.st = load.st /\ load'.cursor = load.cursor /\ load'.rows = load.rows
  BY DEF ViewInv, ViewType
<1>4. FollowerInv'
  <2>1. ASSUME NEW i \in 1..Len(queue'), queue'[i] = "ended"
        PROVE  pc' = "off" /\ i = Len(queue')
    <3>1. ~(i <= Len(queue))
      BY <1>1, <1>2, <2>1
    <3>2. PICK k \in 1..Len(messages) : i = Len(queue) + k /\ queue'[i] = messages[k]
      <4>1. i \in 1..Len(queue \o messages) /\ i > Len(queue)
        BY <1>1, <2>1, <3>1
      <4> QED
        BY <1>1, <4>1, InSecond
    <3>3. pc' = "off" /\ k = Len(messages)
      BY <2>1, <3>2
    <3> QED
      BY <1>1, <3>2, <3>3
  <2>2. pc' = "off" => queue'[Len(queue')] = "ended"
    <3>1. Len(queue') \in Len(queue) + 1 .. Len(queue') /\ Len(queue') - Len(queue) = Len(messages)
      BY <1>1
    <3> QED
      BY <1>1, <3>1
  <2> QED
    BY <1>1, <1>2, <2>1, <2>2 DEF FollowerInv
<1>5. LoadInv'
  BY <1>1, <1>3 DEF ViewInv, LoadInv, Loading
<1>6. SeenInv'
  BY <1>1 DEF SeenInv, ToSee
<1> QED
  BY <1>1, <1>3, <1>4, <1>5, <1>6 DEF ViewInv, ViewType

\* Loads and the update loop.
LEMMA ScreenKeeps ==
  ASSUME StreamInv, ViewInv, Loaded \/ LoadFailed \/ Refresh \/ Update \/ Load \/ LoadFails
  PROVE  ViewInv'
<1>t. /\ shown \in [rows : Nat, connected : BOOLEAN]
      /\ load \in [st : {"none", "tail", "rows", "done", "failed"}, cursor : Nat, rows : Nat,
                   connected : BOOLEAN]
      /\ queue \in Seq(Messages) /\ Len(journal) \in Nat
      /\ Matching \subseteq 1..Len(journal)
  BY DEF ViewInv, ViewType, StreamInv, StreamType, Matching
<1>n. /\ NoLoad \in [st : {"none", "tail", "rows", "done", "failed"}, cursor : Nat, rows : Nat,
                     connected : BOOLEAN]
      /\ Starts \in [st : {"none", "tail", "rows", "done", "failed"}, cursor : Nat, rows : Nat,
                     connected : BOOLEAN]
      /\ NoLoad.st = "none" /\ Starts.st = "tail"
  BY DEF NoLoad, Starts
<1>m. /\ role = "view" => \A s \in Matching : ToSee(s)
      /\ pc # "off" /\ role = "view" => cur \in Nat
  BY DEF ViewInv, SeenInv, StreamInv, StreamType, ClientInv
<1>1. CASE Loaded
  <2>1. /\ load.st = "done" /\ load' = NoLoad
        /\ shown' = [rows |-> load.rows, connected |-> load.connected]
        /\ dirty' = (dirty \/ ~fresher) /\ scheduled' = (scheduled \/ dirty') /\ Follow
        /\ UNCHANGED <<journal, fresh, role, from, out, h, chan, link, hits, queue>>
    BY <1>1 DEF Loaded, refreshDue
  <2>2. role = "view"
    BY <2>1 DEF ViewInv, FollowerInv, Loading
  <2>3. load.cursor <= load.rows /\ shown.rows <= load.rows /\ load.rows <= Len(journal)
    BY <2>1 DEF ViewInv, LoadInv
  <2>4. following' /\ (pc' = "off" => following /\ pc = "off")
        /\ (following => pc' = pc /\ cur' = cur)
        /\ (~following => pc' # "off" /\ cur' = load.cursor /\ \A i \in 1..Len(queue) : queue[i] # "ended")
    BY <2>1, <2>2 DEF Follow, ViewInv, FollowerInv
  <2>5. ViewType'
    <3>1. shown' \in [rows : Nat, connected : BOOLEAN]
      BY <1>t, <2>1
    <3> QED
      BY <1>t, <1>n, <2>1, <3>1 DEF ViewType
  <2>6. FollowerInv'
    BY <2>1, <2>2, <2>4 DEF ViewInv, FollowerInv
  <2>7. LoadInv'
    <3>1. shown'.rows = load.rows
      BY <2>1
    <3> QED
      BY <1>n, <2>1, <2>3, <2>4, <3>1 DEF LoadInv
  <2>8. SeenInv'
    <3>1. SUFFICES ASSUME NEW s \in Matching PROVE ToSee(s)'
      BY <2>1 DEF SeenInv, Matching
    <3>2. ToSee(s) /\ s \in Nat /\ shown'.rows = load.rows
      BY <1>m, <1>t, <2>1, <2>2
    <3>3. CASE s <= load.rows \/ queue # <<>> \/ scheduled \/ dirty
      BY <2>1, <3>2, <3>3 DEF ToSee
    <3>4. CASE s > load.rows /\ queue = <<>> /\ ~scheduled /\ ~dirty
      <4>1. ~(s <= shown.rows) /\ s > load.cursor
        BY <1>t, <2>3, <3>2, <3>4
      <4>2. following => pc # "off" /\ s > cur
        BY <2>1, <3>2, <3>4, <4>1, <1>t DEF ToSee
      <4> QED
        BY <2>4, <4>1, <4>2 DEF ToSee
    <3> QED
      BY <1>t, <3>2, <3>3, <3>4
  <2> QED
    BY <2>5, <2>6, <2>7, <2>8 DEF ViewInv
<1>2. CASE LoadFailed
  <2>1. /\ load.st = "failed" /\ load' = NoLoad /\ scheduled'
        /\ UNCHANGED <<journal, role, cur, pc, shown, dirty, following, queue>>
    BY <1>2 DEF LoadFailed, streamVars
  <2>2. role = "view"
    BY <2>1 DEF ViewInv, FollowerInv, Loading
  <2> QED
    BY <1>t, <1>n, <2>1, <2>2 DEF ViewInv, ViewType, FollowerInv, LoadInv, SeenInv, ToSee
<1>3. CASE Refresh
  <2>1. /\ scheduled
        /\ \/ Loading /\ dirty' /\ load' = load
           \/ ~Loading /\ load' = Starts
        /\ UNCHANGED <<journal, role, cur, pc, shown, following, queue>>
    BY <1>3 DEF Refresh, streamVars
  <2>2. role = "view" /\ Loading'
    BY <1>n, <2>1 DEF ViewInv, FollowerInv, Loading
  <2>3. dirty' \/ load'.st = "tail"
    BY <1>n, <2>1
  <2>4. ViewType' /\ FollowerInv'
    BY <1>t, <1>n, <2>1, <2>2 DEF ViewInv, ViewType, FollowerInv
  <2>5. LoadInv'
    BY <1>t, <1>n, <2>1, <2>2 DEF ViewInv, LoadInv
  <2>6. SeenInv'
    BY <2>2, <2>3 DEF SeenInv, ToSee
  <2> QED
    BY <2>4, <2>5, <2>6 DEF ViewInv
<1>4. CASE Update
  <2>1. /\ queue # <<>> /\ queue' = Tail(queue) /\ scheduled'
        /\ following' = (following /\ Head(queue) # "ended")
        /\ UNCHANGED <<journal, role, cur, pc, shown, load>>
    BY <1>4 DEF Update, streamVars
  <2>2. role = "view"
    BY <2>1 DEF ViewInv, FollowerInv
  <2>3. /\ Len(queue) \in Nat /\ Len(queue) > 0 /\ Head(queue) = queue[1] /\ queue' \in Seq(Messages)
        /\ Len(queue') = Len(queue) - 1 /\ \A i \in 1..Len(queue') : queue'[i] = queue[i+1]
    BY <1>t, <2>1
  <2>4. FollowerInv
    BY DEF ViewInv
  <2>5. FollowerInv'
    <3>1. CASE queue[1] = "ended"
      <4>1. 1 \in 1..Len(queue)
        BY <2>3
      <4>2. pc = "off" /\ Len(queue) = 1
        BY <2>2, <2>4, <3>1, <4>1 DEF FollowerInv
      <4>3. Len(queue') = 0
        BY <2>3, <4>2
      <4>4. Head(queue) = "ended"
        BY <2>3, <3>1
      <4>5. ~following'
        BY <2>1, <4>4
      <4> QED
        BY <2>1, <2>2, <2>3, <4>2, <4>3, <4>5 DEF FollowerInv
    <3>2. CASE queue[1] # "ended"
      <4>1. (following' <=> following) /\ pc' = pc
        BY <2>1, <2>3, <3>2
      <4>2. ASSUME NEW i \in 1..Len(queue'), queue'[i] = "ended"
            PROVE  pc = "off" /\ following /\ i = Len(queue')
        <5>1. i + 1 \in 1..Len(queue) /\ queue[i+1] = "ended"
          BY <2>3, <4>2
        <5>2. pc = "off" /\ following /\ i + 1 = Len(queue)
          BY <2>2, <2>4, <5>1 DEF FollowerInv
        <5> QED
          BY <2>3, <5>2
      <4>3. ASSUME following, pc = "off" PROVE queue' # <<>> /\ queue'[Len(queue')] = "ended"
        <5>1. queue[Len(queue)] = "ended"
          BY <2>2, <2>4, <4>3 DEF FollowerInv
        <5>2. Len(queue) # 1
          BY <3>2, <5>1
        <5>3. Len(queue') \in 1..Len(queue') /\ Len(queue') + 1 = Len(queue)
          BY <2>3, <5>2
        <5> QED
          BY <2>3, <5>1, <5>3
      <4> QED
        BY <2>1, <2>2, <2>4, <4>1, <4>2, <4>3 DEF FollowerInv
    <3> QED
      BY <3>1, <3>2
  <2>6. ViewType' /\ LoadInv' /\ SeenInv'
    BY <2>1, <2>3 DEF ViewInv, ViewType, LoadInv, SeenInv, ToSee, Loading
  <2> QED
    BY <2>5, <2>6 DEF ViewInv
<1>5. CASE Load
  <2>1. /\ \/ load.st = "tail" /\ load' = [load EXCEPT !.st = "rows", !.cursor = Len(journal)]
           \/ load.st = "rows" /\ load' = [load EXCEPT !.st = "done", !.rows = Len(journal)]
        /\ UNCHANGED <<journal, role, cur, pc, shown, dirty, scheduled, following, queue>>
    BY <1>5 DEF Load, streamVars
  <2>2. /\ load' \in [st : {"none", "tail", "rows", "done", "failed"}, cursor : Nat, rows : Nat,
                      connected : BOOLEAN]
        /\ \/ load.st = "tail" /\ load'.st = "rows" /\ load'.cursor = Len(journal)
           \/ load.st = "rows" /\ load'.st = "done" /\ load'.rows = Len(journal)
              /\ load'.cursor = load.cursor
    BY <1>t, <2>1
  <2>3. role = "view"
    BY <2>1 DEF ViewInv, FollowerInv, Loading
  <2>4. ViewType' /\ FollowerInv'
    BY <2>1, <2>2, <2>3 DEF ViewInv, ViewType, FollowerInv
  <2>5. LoadInv'
    BY <1>t, <2>1, <2>2, <2>3 DEF ViewInv, LoadInv, Loading
  <2>6. SeenInv'
    <3>1. \A s \in Matching : s <= Len(journal)
      BY <1>t
    <3> QED
      BY <2>1, <2>2, <3>1 DEF SeenInv, ToSee, Loading, Matching
  <2> QED
    BY <2>4, <2>5, <2>6 DEF ViewInv
<1>6. CASE LoadFails
  <2>1. /\ load.st \in {"tail", "rows"} /\ load' = [load EXCEPT !.st = "failed"]
        /\ UNCHANGED <<journal, role, cur, pc, shown, dirty, scheduled, following, queue>>
    BY <1>6 DEF LoadFails
  <2>2. /\ load' \in [st : {"none", "tail", "rows", "done", "failed"}, cursor : Nat, rows : Nat,
                      connected : BOOLEAN]
        /\ load'.st = "failed"
    BY <1>t, <2>1
  <2>3. role = "view"
    BY <2>1 DEF ViewInv, FollowerInv, Loading
  <2> QED
    BY <2>1, <2>2, <2>3 DEF ViewInv, ViewType, FollowerInv, LoadInv, SeenInv, ToSee, Loading
<1> QED
  BY <1>1, <1>2, <1>3, <1>4, <1>5, <1>6

-----------------------------------------------------------------------------
(* Both together, and what follows.                                        *)

LEMMA StepKeeps ==
  ASSUME StreamInv, ViewInv, [Next]_vars
  PROVE  StreamInv' /\ ViewInv'
<1>b. Buffer \in Nat /\ Page \in Nat \ {0}
  BY BoundsAssumption
<1>e. <<>> \in Seq(Events) /\ journal \o <<>> = journal
  BY DEF StreamInv, StreamType
<1>c. role = "view" => pc \notin {"ask", "done"} /\ ~Single
  BY DEF StreamInv, ClientInv, Single
<1>1. CASE UNCHANGED vars
  <2>1. UNCHANGED <<streamVars, viewVars>>
    BY <1>1 DEF vars
  <2>2. StreamInv'
    <3>1. UNCHANGED <<journal, fresh, role, from, cur, out, pc, h, chan, link>> /\ hits' \subseteq Kinds
      BY <2>1 DEF streamVars, StreamInv, StreamType
    <3> QED
      BY <3>1, ClientKeeps
  <2>3. ViewInv'
    BY <1>e, <2>1, ElsewhereKeeps DEF streamVars
  <2> QED
    BY <2>2, <2>3
<1>2. CASE Writer /\ UNCHANGED viewVars
  <2>1. PICK e \in {"mine", "other"}, f \in {"mine", "other"} : Commit(<< e >>) \/ Commit(<< e, f >>)
    BY <1>2 DEF Writer
  <2>2. PICK es \in Seq(Events) : Commit(es)
    <3>1. << e >> \in Seq(Events) /\ << e, f >> \in Seq(Events)
      BY DEF Events
    <3> QED
      BY <2>1, <3>1
  <2>3. journal' = journal \o es /\ UNCHANGED <<role, cur, pc>>
    BY <2>2 DEF Commit
  <2> QED
    BY <1>2, <2>1, <2>3, CommitKeeps, ElsewhereKeeps
<1>3. CASE Daemon /\ UNCHANGED viewVars
  <2>1. StreamInv'
    BY <1>b, <1>3, ReadKeeps, DaemonKeeps DEF Daemon
  <2>2. UNCHANGED <<journal, role, cur, pc>>
    BY <1>3 DEF Daemon, Publish, Read, Hear, Overflow
  <2> QED
    BY <1>e, <1>3, <2>1, <2>2, ElsewhereKeeps
<1>4. CASE (Break \/ Dial \/ ReceiveSlow) /\ UNCHANGED viewVars
  <2>1. StreamInv'
    BY <1>4, ClientKeeps
  <2>2. UNCHANGED <<journal, role, cur>> /\ pc # "off" /\ pc' # "off"
    BY <1>4 DEF Break, Dial, ReceiveSlow
  <2> QED
    BY <1>e, <1>4, <2>1, <2>2, ElsewhereKeeps
<1>5. CASE Plain
  <2>1. StreamInv'
    BY <1>5, ClientKeeps, ReceiveKeeps DEF Plain
  <2>2. role # "view" /\ UNCHANGED viewVars /\ UNCHANGED <<journal, role>>
    BY <1>5 DEF Plain, AskCursor, Receive, Again
  <2> QED
    BY <1>e, <2>1, <2>2, ElsewhereKeeps
<1>6. CASE TakeEvent
  <2>1. StreamInv' /\ role = "view"
    BY <1>6, ReceiveKeeps DEF TakeEvent
  <2>2. /\ pc = "stream" /\ pc' = pc /\ UNCHANGED <<journal, role>>
        /\ UNCHANGED <<shown, load, dirty, scheduled, following>> /\ queue' = Append(queue, "event")
    BY <1>c, <1>6 DEF TakeEvent, Receive
  <2>3. << "event" >> \in Seq(Messages) /\ << "event" >> # <<>> /\ queue' = queue \o << "event" >>
        /\ \A i \in 1..Len(<< "event" >>) : << "event" >>[i] # "ended"
    BY <2>2 DEF Messages, ViewInv, ViewType
  <2>4. ViewInv'
    BY <2>1, <2>2, <2>3, MessageKeeps DEF ViewInv, ViewType
  <2> QED
    BY <2>1, <2>4
<1>7. CASE Reconnect
  <2>1. StreamInv' /\ role = "view"
    BY <1>7, ClientKeeps DEF Reconnect
  <2>2. /\ pc = "lost" /\ pc' = "dial" /\ UNCHANGED <<journal, role, dirty, scheduled, following>>
        /\ load' = [load EXCEPT !.connected = FALSE] /\ shown' = [shown EXCEPT !.connected = FALSE]
        /\ queue' = queue \o << "lost" >>
    BY <1>7 DEF Reconnect, Again, Invalidate
  <2>3. << "lost" >> \in Seq(Messages) /\ << "lost" >> # <<>>
        /\ \A i \in 1..Len(<< "lost" >>) : << "lost" >>[i] # "ended"
    BY DEF Messages
  <2>4. shown' \in [rows : Nat, connected : BOOLEAN] /\ shown'.rows = shown.rows
    BY <2>2 DEF ViewInv, ViewType
  <2>5. ViewInv'
    BY <2>1, <2>2, <2>3, <2>4, MessageKeeps
  <2> QED
    BY <2>1, <2>5
<1>8. CASE FollowEnds
  <2>1. /\ role = "view" /\ pc = "lost" /\ pc' = "off" /\ hits' \subseteq Kinds
        /\ UNCHANGED <<journal, fresh, role, from, cur, out, h, chan, link, dirty, scheduled, following>>
        /\ load' = [load EXCEPT !.connected = FALSE] /\ shown' = [shown EXCEPT !.connected = FALSE]
        /\ queue' = queue \o << "lost", "ended" >>
    BY <1>8 DEF FollowEnds, Invalidate, Disturb, StreamInv, StreamType
  <2>2. StreamInv'
    <3>1. cur \in Nat \cup {None}
      BY DEF StreamInv, StreamType
    <3> QED
      BY <2>1, <3>1, ClientKeeps
  <2>3. /\ << "lost", "ended" >> \in Seq(Messages) /\ << "lost", "ended" >> # <<>>
        /\ << "lost", "ended" >>[Len(<< "lost", "ended" >>)] = "ended"
        /\ \A i \in 1..Len(<< "lost", "ended" >>) :
             << "lost", "ended" >>[i] = "ended" => i = Len(<< "lost", "ended" >>)
    BY DEF Messages
  <2>4. shown' \in [rows : Nat, connected : BOOLEAN] /\ shown'.rows = shown.rows
    BY <2>1 DEF ViewInv, ViewType
  <2>5. ViewInv'
    BY <2>1, <2>3, <2>4, MessageKeeps
  <2> QED
    BY <2>2, <2>5
<1>9. CASE Loaded
  <2>1. /\ load.st = "done" /\ Follow
        /\ UNCHANGED <<journal, fresh, role, from, out, h, chan, link, hits>>
    BY <1>9 DEF Loaded
  <2>2. /\ role = "view" /\ (~following => pc = "off") /\ load.cursor \in 0..Len(journal)
        /\ hits \subseteq Kinds
    BY <2>1 DEF ViewInv, ViewType, FollowerInv, LoadInv, Loading, StreamInv, StreamType
  <2>3. StreamInv'
    <3>1. CASE following
      BY <2>1, <2>2, <3>1, ClientKeeps DEF Follow
    <3>2. CASE ~following
      <4>1. pc = "off" /\ pc' = "dial" /\ cur' \in 0..Len(journal) /\ cur' \in Nat \cup {None}
        BY <2>1, <2>2, <3>2 DEF Follow, ViewInv, ViewType
      <4> QED
        BY <2>1, <2>2, <4>1, ClientKeeps
    <3> QED
      BY <3>1, <3>2
  <2> QED
    BY <1>9, <2>3, ScreenKeeps
<1>10. CASE LoadFailed \/ Refresh \/ Update \/ Load \/ LoadFails
  <2>1. UNCHANGED <<journal, fresh, role, from, cur, out, pc, h, chan, link>> /\ hits' \subseteq Kinds
    BY <1>10 DEF LoadFailed, Refresh, Update, Load, LoadFails, Disturb, streamVars, StreamInv, StreamType
  <2> QED
    BY <1>10, <2>1, ScreenKeeps, ClientKeeps
<1> QED
  BY <1>1, <1>2, <1>3, <1>4, <1>5, <1>6, <1>7, <1>8, <1>9, <1>10 DEF Next, Stream, Screen

LEMMA InitKeeps == VInit => StreamInv /\ ViewInv
<1> SUFFICES ASSUME VInit PROVE StreamInv /\ ViewInv
  OBVIOUS
<1>1. /\ journal = <<>> /\ fresh = 0 /\ from = cur /\ out = <<>> /\ h = Off /\ chan = Closed
      /\ link = <<>> /\ hits = {}
      /\ cur \in (IF role \in {"follow", "wait"} THEN {None, 0} ELSE {IF role = "view" THEN None ELSE 0})
      /\ pc = IF role = "view" THEN "off" ELSE IF cur = None THEN "ask" ELSE "dial"
      /\ shown = [rows |-> 0, connected |-> FALSE] /\ ~scheduled /\ ~following /\ queue = <<>>
      /\ load = IF role = "view" THEN Starts ELSE NoLoad
  BY DEF VInit, Init
<1>2. None \notin Nat /\ 0 \in Nat
  BY BoundsAssumption
<1>3. Matching = {} /\ Len(journal) = 0 /\ journal \in Seq(Events)
  BY <1>1 DEF Matching
<1>4. Enumerable(journal)
  <2>1. ASSUME NEW c \in Nat PROVE <<>> \in Seq(Nat) /\ Enumerates(<<>>, AheadIn(journal, c))
    <3>1. AheadIn(journal, c) = {}
      BY <1>1 DEF AheadIn
    <3> QED
      BY <3>1 DEF Enumerates, Increasing
  <2> QED
    BY <2>1 DEF Enumerable
<1>5. StreamType
  BY <1>1, <1>3, Nothing DEF StreamType
<1>6. ClientInv /\ HandlerInv /\ LinkInv
  BY <1>1, <1>2, <1>3 DEF ClientInv, HandlerInv, LinkInv, Newest, Off
<1>7. /\ load \in [st : {"none", "tail", "rows", "done", "failed"}, cursor : Nat, rows : Nat,
                   connected : BOOLEAN]
      /\ load.st = IF role = "view" THEN "tail" ELSE "none"
  BY <1>1 DEF Starts, NoLoad
<1>8. ViewType /\ FollowerInv /\ LoadInv /\ SeenInv
  BY <1>1, <1>3, <1>7 DEF ViewType, FollowerInv, LoadInv, SeenInv, Loading
<1> QED
  BY <1>4, <1>5, <1>6, <1>8 DEF StreamInv, ViewInv

\* In every reachable state, what is on its way to a reader follows its cursor without a
\* gap, and what is not on the screen is still to come, waits, or a load will see it.
THEOREM Invariance == Spec => [](StreamInv /\ ViewInv)
<1>1. StreamInv /\ ViewInv /\ [Next]_vars => (StreamInv /\ ViewInv)'
  BY StepKeeps
<1> QED
  BY <1>1, InitKeeps, PTL DEF Spec

\* No event whose effect is missing on the screen is forgotten.
THEOREM NothingStaysUnseen == Spec => []NothingUnseen
<1>1. ViewInv => NothingUnseen
  BY DEF ViewInv, SeenInv, ToSee, NothingUnseen
<1> QED
  BY <1>1, Invariance, PTL

\* The screen allows actions only on a snapshot whose load no interruption disturbed.
THEOREM ReadyMeansConnected == Spec => []ReadyIsConnected
<1>1. VInit => ReadyIsConnected
  BY DEF VInit, ReadyIsConnected
<1>2. ASSUME ReadyIsConnected, [Next]_vars PROVE ReadyIsConnected'
  <2>1. CASE UNCHANGED <<ready, shown>>
    BY <1>2, <2>1 DEF ReadyIsConnected
  <2>2. CASE Reconnect \/ FollowEnds
    BY <2>2 DEF Reconnect, FollowEnds, Invalidate, ReadyIsConnected
  <2>3. CASE Loaded
    BY <2>3 DEF Loaded, fresher, ReadyIsConnected
  <2>4. CASE LoadFailed
    BY <2>4 DEF LoadFailed, ReadyIsConnected
  <2>5. CASE Update
    BY <1>2, <2>5 DEF Update, ReadyIsConnected
  <2>6. CASE \/ UNCHANGED vars \/ UNCHANGED viewVars \/ TakeEvent \/ Refresh \/ Load \/ LoadFails
    <3>1. UNCHANGED shown
      BY <2>6 DEF vars, viewVars, TakeEvent, Refresh, Load, LoadFails
    <3>2. UNCHANGED ready
      BY <2>6 DEF vars, viewVars, TakeEvent, Refresh, Load, LoadFails
    <3> QED
      BY <2>1, <3>1, <3>2
  <2> QED
    BY <1>2, <2>2, <2>3, <2>4, <2>5, <2>6 DEF Next, Plain, Stream, Screen
<1> QED
  BY <1>1, <1>2, PTL DEF Spec

-----------------------------------------------------------------------------
(* Refinement.                                                             *)

LEMMA LeastAhead ==
  ASSUME NEW S \in SUBSET Nat, NEW x \in S, \A s \in S : x <= s
  PROVE  Promise!Min(S) = x
<1>1. \E y \in S : \A s \in S : y =< s
  OBVIOUS
<1> DEFINE m == Promise!Min(S)
<1>2. m \in S /\ \A s \in S : m =< s
  BY <1>1 DEF Promise!Min
<1>3. m \in Nat /\ x \in Nat
  BY <1>2
<1>4. m =< x /\ x =< m
  BY <1>2
<1> HIDE DEF m
<1>5. m = x
  BY <1>3, <1>4
<1> QED
  BY <1>5 DEF m

\* Each step extends the journal, begins to read, gives the next event, or changes nothing
\* that Journal speaks of.
LEMMA StepRefines ==
  ASSUME StreamInv, [Next]_vars
  PROVE  [Promise!Next]_(Promise!vars)
<1>1. CASE Writer
  <2>1. PICK es \in Seq(Events) : Commit(es) /\ es # <<>>
    <3>1. PICK e \in {"mine", "other"}, f \in {"mine", "other"} : Commit(<< e >>) \/ Commit(<< e, f >>)
      BY <1>1 DEF Writer
    <3>2. << e >> \in Seq(Events) /\ << e, f >> \in Seq(Events) /\ << e >> # <<>> /\ << e, f >> # <<>>
      BY DEF Events
    <3> QED
      BY <3>1, <3>2
  <2>2. journal' = journal \o es /\ UNCHANGED <<role, from, out>>
    BY <2>1 DEF Commit
  <2>3. journal \in Seq(Events) /\ Len(es) > 0 /\ Len(es) \in Nat /\ Len(journal) \in Nat
    BY <2>1 DEF StreamInv, StreamType
  <2>4. Len(journal') > Len(journal) /\ Promise!IsPrefix(journal, journal')
    BY <2>2, <2>3 DEF Promise!IsPrefix
  <2> QED
    BY <2>2, <2>4 DEF Promise!Next, Promise!Extend, Single
<1>2. CASE role # "view" /\ AskCursor
  <2>1. from = None /\ from' = Len(journal) /\ UNCHANGED <<journal, role, out>>
    BY <1>2 DEF AskCursor, StreamInv, ClientInv
  <2> QED
    BY <2>1 DEF Promise!Next, Promise!Begin, Single
<1>3. CASE Receive /\ role # "view"
  <2>1. Follows(cur, Head(link)) /\ Head(link) \in Nat
    BY <1>3, ReceiveKeeps
  <2>2. /\ pc = "stream" /\ out' = Append(out, Head(link)) /\ UNCHANGED <<journal, role, from>>
        /\ from \in Nat /\ cur = Newest(out, from) /\ (Single => out = <<>>)
    BY <1>3 DEF Receive, StreamInv, ClientInv
  <2>3. from # None /\ Matching \subseteq Nat
    BY <2>2, BoundsAssumption DEF StreamInv, StreamType, Matching
  <2>4. Promise!Matching = Matching /\ Promise!Position = cur
    BY <2>2 DEF Promise!Matching, Promise!Position, Matching, Newest, Promise!Last
  <2>5. Promise!Ahead = {s \in Matching : s > cur}
    BY <2>4 DEF Promise!Ahead
  <2>6. cur \in Nat
    BY <2>2 DEF StreamInv, StreamType, ClientInv
  <2>7. Head(link) \in Promise!Ahead /\ Promise!Ahead \in SUBSET Nat /\ \A s \in Promise!Ahead : Head(link) <= s
    <3>1. Head(link) \in Matching /\ cur < Head(link) /\ \A s \in Matching : s <= cur \/ Head(link) <= s
      BY <2>1 DEF Follows
    <3>2. ASSUME NEW s \in Matching, s > cur PROVE Head(link) <= s
      BY <2>3, <2>6, <3>1, <3>2
    <3> QED
      BY <2>1, <2>3, <2>5, <2>6, <3>1, <3>2
  <2>8. Promise!Min(Promise!Ahead) = Head(link) /\ Promise!Ahead # {}
    BY <2>7, LeastAhead
  <2> QED
    BY <2>2, <2>3, <2>8 DEF Promise!Next, Promise!Give, Single
<1>4. CASE UNCHANGED <<journal, role, from, out>>
  BY <1>4 DEF Promise!vars, Single
<1>5. CASE \/ UNCHANGED vars \/ Daemon \/ Break \/ Dial \/ ReceiveSlow \/ Again \/ TakeEvent
           \/ Reconnect \/ FollowEnds \/ Loaded \/ LoadFails
  BY <1>4, <1>5
     DEF vars, streamVars, Daemon, Publish, Read, Hear, Overflow, Break, Dial, ReceiveSlow, Again,
         TakeEvent, Receive, Reconnect, FollowEnds, Invalidate, Loaded, LoadFails
<1>6. CASE LoadFailed \/ Refresh \/ Update \/ Load
  BY <1>4, <1>6 DEF streamVars, LoadFailed, Refresh, Update, Load
<1> QED
  BY <1>1, <1>2, <1>3, <1>5, <1>6 DEF Next, Plain, Stream, Screen

\* Overflow, lost connections and restarts neither skip nor repeat an event.
THEOREM Refinement == Spec => ImplementsJournal
<1>1. VInit => Promise!Init
  <2>1. ASSUME VInit PROVE Promise!Init
    <3>1. /\ journal = <<>> /\ from = cur /\ out = <<>>
          /\ cur \in (IF role \in {"follow", "wait"} THEN {None, 0} ELSE {IF role = "view" THEN None ELSE 0})
      BY <2>1 DEF VInit, Init
    <3> QED
      BY <3>1 DEF Promise!Init, Single
  <2> QED
    BY <2>1
<1>2. StreamInv /\ [Next]_vars => [Promise!Next]_(Promise!vars)
  BY StepRefines
<1> QED
  BY <1>1, <1>2, Invariance, PTL DEF Spec, ImplementsJournal, Promise!Spec
=============================================================================
