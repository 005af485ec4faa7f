----------------------------- MODULE CronProofs -----------------------------
(***************************************************************************)
(* What Cron computes is what it is meant to compute, in every calendar,   *)
(* zone and expression of the kinds Cron names. The searches are recursive *)
(* functions. Each is shown to have a solution, and to be that solution:   *)
(* a step goes on from an argument of a smaller rank (fewer minutes ahead, *)
(* a shorter interval), and of the arguments on which two solutions differ *)
(* one would have the least rank. That one exists because every set of     *)
(* natural numbers has a least one, of which induction is made as well.    *)
(***************************************************************************)
EXTENDS Cron, FiniteSetTheorems, TLAPS

-----------------------------------------------------------------------------
(* Numbers.                                                                *)

\* A set of natural numbers has a least one.
LEMMA LeastNumber ==
  ASSUME NEW T \in SUBSET Nat, T # {}
  PROVE  \E x \in T : \A y \in T : x <= y
<1> DEFINE R == OpToRel(<, Nat)
<1>1. IsWellFoundedOn(R, Nat) /\ R = {p \in Nat \X Nat : p[1] < p[2]}
  BY NatLessThanWellFounded DEF OpToRel
<1> HIDE DEF R
<1>2. PICK x \in T : \A y \in T : ~(<<y, x>> \in R)
  BY <1>1, WFMin
<1>3. ASSUME NEW y \in T PROVE x <= y
  <2>1. y \in Nat /\ x \in Nat
    OBVIOUS
  <2>2. y < x => <<y, x>> \in R
    BY <2>1, <1>1
  <2> QED
    BY <2>1, <2>2, <1>2
<1> QED
  BY <1>3

\* What holds of a number, and of a successor if of its predecessor, holds from there on.
LEMMA Induction ==
  ASSUME NEW T, NEW a \in Int, NEW b \in Int, a \in T, \A n \in a..b : n < b /\ n \in T => n + 1 \in T
  PROVE  a..b \subseteq T
<1> SUFFICES ASSUME NEW z \in a..b, z \notin T PROVE FALSE
  OBVIOUS
<1> DEFINE N == {n \in Nat : a + n \in (a..b) \ T}
<1>1. z - a \in N
  OBVIOUS
<1>2. PICK n \in N : \A m \in N : n <= m
  <2> HIDE DEF N
  <2>1. N \subseteq Nat
    BY DEF N
  <2> QED
    BY <1>1, <2>1, LeastNumber
<1>3. n # 0
  OBVIOUS
<1>4. n - 1 \notin N
  BY <1>2, <1>3
<1>5. a + (n - 1) \in T /\ a + (n - 1) \in a..b /\ a + (n - 1) < b
  BY <1>3, <1>4
<1> QED
  BY <1>5

\* A set that has an element has one of least rank.
LEMMA LeastRank ==
  ASSUME NEW S, NEW rank \in [S -> Nat], NEW B \in SUBSET S, B # {}
  PROVE  \E x \in B : \A y \in B : rank[x] <= rank[y]
<1> DEFINE T == {rank[x] : x \in B}
<1>1. PICK n \in T : \A m \in T : n <= m
  <2>1. T \in SUBSET Nat /\ T # {}
    OBVIOUS
  <2> HIDE DEF T
  <2> QED
    BY <2>1, LeastNumber
<1> QED
  BY <1>1

\* The least and the greatest of some natural numbers.
LEMMA MinIs ==
  ASSUME NEW T \in SUBSET Nat, T # {}
  PROVE  Min(T) \in T /\ \A y \in T : Min(T) <= y
BY LeastNumber DEF Min

\* What rises from each number to the next rises from every number to every later one.
LEMMA Rises ==
  ASSUME NEW a \in Int, NEW b \in Int, NEW f \in [a..b -> Int],
         \A n \in a..b : n < b => f[n] < f[n + 1]
  PROVE  \A i, j \in a..b : i < j => f[i] < f[j]
<1> SUFFICES ASSUME NEW i \in a..b, NEW j \in a..b, i < j PROVE f[i] < f[j]
  OBVIOUS
<1> DEFINE T == {n \in (i + 1)..b : f[i] < f[n]}
<1>1. i + 1 \in T
  OBVIOUS
<1>2. ASSUME NEW n \in (i + 1)..b, n < b, n \in T PROVE n + 1 \in T
  <2>1. n \in a..b /\ n + 1 \in a..b /\ f[n] < f[n + 1] /\ f[i] < f[n]
    BY <1>2
  <2> QED
    BY <2>1
<1>3. PICK k \in Int : k = i + 1
  OBVIOUS
<1>4. k..b \subseteq T
  <2> HIDE DEF T
  <2> QED
    BY <1>1, <1>2, <1>3, Induction
<1> QED
  BY <1>3, <1>4

\* Numbers in a mixed base are ordered by the first digit that differs.
LEMMA Digits ==
  ASSUME NEW B \in Nat \ {0}, NEW p \in Int, NEW q \in Int, NEW i \in 0..(B - 1), NEW j \in 0..(B - 1)
  PROVE  /\ p * B + i \in Int
         /\ p * B + i <= q * B + j <=> p < q \/ (p = q /\ i <= j)
<1>1. ASSUME NEW x \in Int, NEW y \in Int, x < y PROVE x * B + B <= y * B
  <2>1. (y - x - 1) * B >= 0
    BY <1>1
  <2>2. (y - x - 1) * B = y * B - x * B - B
    OBVIOUS
  <2> QED
    BY <2>1, <2>2
<1>2. p * B \in Int /\ q * B \in Int
  OBVIOUS
<1>3. p < q => p * B + B <= q * B
  BY <1>1
<1>4. q < p => q * B + B <= p * B
  BY <1>1
<1> QED
  BY <1>2, <1>3, <1>4

-----------------------------------------------------------------------------
(* The calendar.                                                           *)

\* The day after a month.
nextMonth(y, mo) == DayOne[y][mo] + DaysIn(y, mo)

\* Months follow one another.
LEMMA MonthsFollow ==
  ASSUME Calendar, NEW y \in 0..(LastYear + 1), NEW z \in 0..(LastYear + 1),
         NEW m \in 1..Months, NEW n \in 1..Months
  PROVE  /\ DayOne[y][m] \in Int /\ DaysIn(y, m) \in Nat \ {0} /\ nextMonth(y, m) \in Int
         /\ DayOne[y][m] < nextMonth(y, m)
         /\ m < Months => nextMonth(y, m) = DayOne[y][m + 1]
         /\ m = Months => nextMonth(y, m) = DayOne[y + 1][1]
         /\ DayOne[y + 1][1] \in Int
         /\ y < z \/ (y = z /\ m < n) => nextMonth(y, m) <= DayOne[z][n]
         /\ y < z => DayOne[y + 1][1] <= DayOne[z][n]
         /\ nextMonth(y, m) <= DayOne[y + 1][1]
<1>a. LastYear \in Nat /\ Months \in Nat \ {0} /\ 1 \in 1..Months
  BY DEF Calendar
<1>1. \A x \in 0..(LastYear + 2), k \in 1..Months : DayOne[x][k] \in Int
  BY DEF Calendar
<1>2. ASSUME NEW x \in 0..(LastYear + 1), NEW k \in 1..Months
      PROVE  /\ DaysIn(x, k) \in Nat \ {0} /\ nextMonth(x, k) \in Int /\ DayOne[x][k] < nextMonth(x, k)
             /\ DayOne[x][k] \in Int /\ DayOne[x + 1][1] \in Int
             /\ k < Months => k + 1 \in 1..Months /\ nextMonth(x, k) = DayOne[x][k + 1]
             /\ k = Months => nextMonth(x, k) = DayOne[x + 1][1]
  <2>1. DaysIn(x, k) \in Nat \ {0}
    BY DEF Calendar
  <2>2. x \in 0..(LastYear + 2) /\ x + 1 \in 0..(LastYear + 2) /\ (k < Months => k + 1 \in 1..Months)
    BY <1>a
  <2>3. /\ DayOne[x][k] \in Int /\ DayOne[x + 1][1] \in Int
        /\ k < Months => DayOne[x][k + 1] \in Int
    BY <1>1, <1>a, <2>2
  <2>4. /\ k < Months => nextMonth(x, k) = DayOne[x][k + 1]
        /\ k = Months => nextMonth(x, k) = DayOne[x + 1][1]
    BY <1>a, <2>3 DEF nextMonth, DaysIn
  <2>5. nextMonth(x, k) \in Int /\ DayOne[x][k] < nextMonth(x, k)
    BY <2>1, <2>3 DEF nextMonth
  <2> QED
    BY <2>1, <2>2, <2>3, <2>4, <2>5
<1>3. ASSUME NEW x \in 0..(LastYear + 1), NEW i \in 1..Months, NEW j \in 1..Months, i < j
      PROVE  DayOne[x][i] < DayOne[x][j]
  <2> DEFINE f == [k \in 1..Months |-> DayOne[x][k]]
  <2>1. f \in [1..Months -> Int]
    BY <1>2
  <2>2. ASSUME NEW k \in 1..Months, k < Months PROVE f[k] < f[k + 1]
    <3>1. k + 1 \in 1..Months /\ DayOne[x][k] < DayOne[x][k + 1]
      BY <1>2, <2>2
    <3> QED
      BY <3>1
  <2>3. f[i] = DayOne[x][i] /\ f[j] = DayOne[x][j]
    OBVIOUS
  <2>4. f[i] < f[j]
    <3> HIDE DEF f
    <3>1. 1 \in Int /\ Months \in Int
      BY <1>a
    <3> QED
      BY <1>3, <2>1, <2>2, <3>1, Rises
  <2> QED
    BY <2>3, <2>4
<1>4. ASSUME NEW i \in 1..Months, NEW j \in 1..Months, NEW x \in 0..(LastYear + 1)
      PROVE  /\ i < j => nextMonth(x, i) <= DayOne[x][j]
             /\ nextMonth(x, i) <= DayOne[x + 1][1]
             /\ DayOne[x][1] <= DayOne[x][i]
  <2>1. Months \in 1..Months
    BY <1>a
  <2>2. \A k \in 1..Months : i < k => nextMonth(x, i) <= DayOne[x][k]
    <3> SUFFICES ASSUME NEW k \in 1..Months, i < k PROVE nextMonth(x, i) <= DayOne[x][k]
      OBVIOUS
    <3>1. i < Months /\ i + 1 \in 1..Months /\ nextMonth(x, i) = DayOne[x][i + 1]
      BY <1>2, <1>a
    <3>2. CASE i + 1 < k
      <4>1. DayOne[x][i + 1] < DayOne[x][k]
        BY <1>3, <3>1, <3>2
      <4> QED
        BY <1>2, <3>1, <4>1
    <3>3. CASE i + 1 = k
      BY <1>2, <3>1, <3>3
    <3> QED
      BY <3>2, <3>3
  <2>3. nextMonth(x, i) <= DayOne[x + 1][1]
    <3>1. CASE i = Months
      BY <1>2, <3>1
    <3>2. CASE i < Months
      <4>1. nextMonth(x, i) <= DayOne[x][Months] /\ nextMonth(x, Months) = DayOne[x + 1][1]
        BY <1>2, <2>1, <2>2, <3>2
      <4>2. DayOne[x][Months] < nextMonth(x, Months) /\ DayOne[x][Months] \in Int
        BY <1>2, <2>1
      <4> QED
        BY <1>2, <4>1, <4>2
    <3> QED
      BY <1>a, <3>1, <3>2
  <2>4. DayOne[x][1] <= DayOne[x][i]
    <3>1. CASE i = 1
      BY <1>2, <3>1
    <3>2. CASE 1 < i
      <4>1. DayOne[x][1] < DayOne[x][i]
        BY <1>3, <1>a, <3>2
      <4> QED
        BY <1>2, <1>a, <4>1
    <3> QED
      BY <3>1, <3>2
  <2> QED
    BY <2>2, <2>3, <2>4
<1>5. ASSUME NEW i \in 0..(LastYear + 2), NEW j \in 0..(LastYear + 2), i < j
      PROVE  DayOne[i][1] < DayOne[j][1]
  <2> DEFINE f == [x \in 0..(LastYear + 2) |-> DayOne[x][1]]
  <2>1. f \in [0..(LastYear + 2) -> Int]
    BY <1>1, <1>a
  <2>2. ASSUME NEW k \in 0..(LastYear + 2), k < LastYear + 2 PROVE f[k] < f[k + 1]
    <3>1. k \in 0..(LastYear + 1) /\ k + 1 \in 0..(LastYear + 2)
      BY <1>a, <2>2
    <3>2. nextMonth(k, 1) <= DayOne[k + 1][1] /\ DayOne[k][1] < nextMonth(k, 1)
      BY <1>2, <1>4, <1>a, <3>1
    <3>3. DayOne[k][1] < DayOne[k + 1][1]
      BY <1>2, <1>a, <3>1, <3>2
    <3> QED
      BY <3>1, <3>3
  <2>3. f[i] = DayOne[i][1] /\ f[j] = DayOne[j][1]
    OBVIOUS
  <2>4. PICK b \in Int : b = LastYear + 2
    BY <1>a
  <2>5. f[i] < f[j]
    <3> HIDE DEF f
    <3>1. 0 \in Int /\ f \in [0..b -> Int] /\ i \in 0..b /\ j \in 0..b
      BY <2>1, <2>4
    <3>2. \A k \in 0..b : k < b => f[k] < f[k + 1]
      BY <2>2, <2>4
    <3> QED
      BY <1>5, <2>4, <3>1, <3>2, Rises
  <2> QED
    BY <2>3, <2>5
<1>6. y < z => DayOne[y + 1][1] <= DayOne[z][n] /\ nextMonth(y, m) <= DayOne[z][n]
  <2>1. y + 1 \in 0..(LastYear + 2) /\ z \in 0..(LastYear + 2)
    BY <1>a
  <2>2. y < z => DayOne[y + 1][1] <= DayOne[z][1]
    <3>1. y + 1 < z => DayOne[y + 1][1] < DayOne[z][1]
      BY <1>5, <2>1
    <3>2. DayOne[y + 1][1] \in Int /\ DayOne[z][1] \in Int
      BY <1>1, <1>a, <2>1
    <3> QED
      BY <3>1, <3>2
  <2>3. nextMonth(y, m) <= DayOne[y + 1][1] /\ DayOne[z][1] <= DayOne[z][n]
    BY <1>4
  <2>4. /\ nextMonth(y, m) \in Int /\ DayOne[y + 1][1] \in Int /\ DayOne[z][1] \in Int
        /\ DayOne[z][n] \in Int
    BY <1>1, <1>2, <1>a, <2>1
  <2> QED
    BY <2>2, <2>3, <2>4
<1> QED
  BY <1>2, <1>4, <1>6

-----------------------------------------------------------------------------
(* Minutes in order.                                                       *)

dayOf(c) == dayNumber(c.y, c.mo, c.d)

\* The minutes from day 0 to a minute.
pos(c) == (dayOf(c) * Day + c.h) * Hour + c.mi

\* The minutes of a calendar are numbered as they are ordered: by day, hour and minute.
LEMMA Ordered ==
  ASSUME Calendar, NEW c \in Civil, NEW e \in Civil
  PROVE  /\ dayOf(c) \in Int /\ pos(c) \in Int
         /\ pos(c) <= pos(e) <=> \/ dayOf(c) < dayOf(e)
                                 \/ dayOf(c) = dayOf(e) /\ c.h < e.h
                                 \/ dayOf(c) = dayOf(e) /\ c.h = e.h /\ c.mi <= e.mi
<1>1. /\ LastYear \in Nat /\ Day \in Nat \ {0} /\ Hour \in Nat \ {0}
      /\ \A y \in 0..(LastYear + 2), mo \in 1..Months : DayOne[y][mo] \in Int
  BY DEF Calendar
<1>2. ASSUME NEW x \in Civil
      PROVE  dayOf(x) \in Int /\ x.h \in 0..(Day - 1) /\ x.mi \in 0..(Hour - 1)
  <2>1. x.y \in 0..(LastYear + 2) /\ x.mo \in 1..Months /\ x.d \in Nat
    BY <1>1 DEF Civil
  <2>2. DayOne[x.y][x.mo] \in Int
    BY <1>1, <2>1
  <2> QED
    BY <2>1, <2>2 DEF Civil, dayOf, dayNumber
<1>3. PICK p, q : p = dayOf(c) /\ q = dayOf(e)
  OBVIOUS
<1>4. /\ p * Day + c.h \in Int /\ q * Day + e.h \in Int
      /\ p * Day + c.h <= q * Day + e.h <=> p < q \/ (p = q /\ c.h <= e.h)
      /\ q * Day + e.h <= p * Day + c.h <=> q < p \/ (p = q /\ e.h <= c.h)
  BY <1>1, <1>2, <1>3, Digits
<1>5. PICK i, j : i = p * Day + c.h /\ j = q * Day + e.h
  OBVIOUS
<1>6. /\ i * Hour + c.mi \in Int
      /\ i * Hour + c.mi <= j * Hour + e.mi <=> i < j \/ (i = j /\ c.mi <= e.mi)
  BY <1>1, <1>2, <1>4, <1>5, Digits
<1>7. /\ i < j <=> p < q \/ (p = q /\ c.h < e.h)
      /\ i = j <=> p = q /\ c.h = e.h
  <2> c.h \in Int /\ e.h \in Int /\ p \in Int /\ q \in Int
    BY <1>2, <1>3
  <2> QED
    BY <1>4, <1>5
<1>8. pos(c) = i * Hour + c.mi /\ pos(e) = j * Hour + e.mi
  BY <1>3, <1>5 DEF pos
<1> QED
  BY <1>2, <1>3, <1>6, <1>7, <1>8

\* Where a day lies: days in a month of a year, and what follows.
LEMMA Located ==
  ASSUME Calendar, NEW c \in Civil, c.d <= DaysIn(c.y, c.mo), NEW y \in 0..(LastYear + 1), NEW mo \in 1..Months
  PROVE  /\ DayOne[c.y][c.mo] <= dayOf(c) /\ dayOf(c) < nextMonth(c.y, c.mo)
         /\ DayOne[y][mo] <= dayOf(c) => y < c.y \/ (y = c.y /\ mo <= c.mo)
         /\ dayOf(c) < nextMonth(y, mo) => c.y < y \/ (c.y = y /\ c.mo <= mo)
         /\ dayOf(c) >= nextMonth(y, mo) => y < c.y \/ (y = c.y /\ mo < c.mo)
<1>1. c.y \in 0..(LastYear + 1) /\ c.mo \in 1..Months /\ c.d \in Nat \ {0} /\ y \in Int /\ c.y \in Int
  BY DEF Civil, Calendar
<1>2. /\ DayOne[c.y][c.mo] \in Int /\ DaysIn(c.y, c.mo) \in Nat \ {0}
      /\ DayOne[y][mo] \in Int /\ nextMonth(y, mo) \in Int /\ DayOne[y][mo] < nextMonth(y, mo)
      /\ c.y < y \/ (c.y = y /\ c.mo < mo) => nextMonth(c.y, c.mo) <= DayOne[y][mo]
      /\ y < c.y \/ (y = c.y /\ mo < c.mo) => nextMonth(y, mo) <= DayOne[c.y][c.mo]
  BY <1>1, MonthsFollow
<1>3. DayOne[c.y][c.mo] <= dayOf(c) /\ dayOf(c) < nextMonth(c.y, c.mo)
  BY <1>1, <1>2 DEF dayOf, dayNumber, nextMonth
<1>4. dayOf(c) \in Int /\ nextMonth(c.y, c.mo) \in Int
  BY <1>1, <1>2 DEF dayOf, dayNumber, nextMonth
<1>5. c.mo \in Int /\ mo \in Int
  BY <1>1
<1>6. DayOne[y][mo] <= dayOf(c) => y < c.y \/ (y = c.y /\ mo <= c.mo)
  BY <1>1, <1>2, <1>3, <1>4, <1>5
<1>7. dayOf(c) < nextMonth(y, mo) => c.y < y \/ (c.y = y /\ c.mo <= mo)
  BY <1>1, <1>2, <1>3, <1>4, <1>5
<1>8. dayOf(c) >= nextMonth(y, mo) => y < c.y \/ (y = c.y /\ mo < c.mo)
  BY <1>1, <1>2, <1>3, <1>4, <1>5
<1> QED
  BY <1>3, <1>6, <1>7, <1>8

\* One day is one date.
LEMMA SameDay ==
  ASSUME Calendar, NEW c \in Civil, NEW e \in Civil, c.d <= DaysIn(c.y, c.mo), e.d <= DaysIn(e.y, e.mo),
         dayOf(c) = dayOf(e)
  PROVE  c.y = e.y /\ c.mo = e.mo /\ c.d = e.d
<1>1. /\ c.y \in 0..(LastYear + 1) /\ c.mo \in 1..Months /\ c.d \in Nat
      /\ e.y \in 0..(LastYear + 1) /\ e.mo \in 1..Months /\ e.d \in Nat
      /\ LastYear \in Nat /\ Months \in Nat
  BY DEF Civil, Calendar
<1>2. /\ DayOne[e.y][e.mo] <= dayOf(e) /\ DayOne[c.y][c.mo] <= dayOf(c)
      /\ DayOne[e.y][e.mo] <= dayOf(c) => e.y < c.y \/ (e.y = c.y /\ e.mo <= c.mo)
      /\ DayOne[c.y][c.mo] <= dayOf(e) => c.y < e.y \/ (c.y = e.y /\ c.mo <= e.mo)
  BY <1>1, Located
<1>3. c.y = e.y /\ c.mo = e.mo
  BY <1>1, <1>2
<1>4. DayOne[c.y][c.mo] \in Int
  BY <1>1, MonthsFollow
<1> QED
  BY <1>1, <1>3, <1>4 DEF dayOf, dayNumber

\* One minute is one reading of the clock.
LEMMA SameMinute ==
  ASSUME Calendar, NEW c \in Dates, NEW e \in Dates, pos(c) = pos(e)
  PROVE  c = e
<1>1. c \in Civil /\ e \in Civil /\ c.d <= DaysIn(c.y, c.mo) /\ e.d <= DaysIn(e.y, e.mo)
  BY DEF Dates
<1>2. dayOf(c) \in Int /\ dayOf(e) \in Int /\ pos(c) \in Int
  BY <1>1, Ordered
<1>. c.h \in Int /\ e.h \in Int /\ c.mi \in Int /\ e.mi \in Int
  BY <1>1 DEF Civil
<1>3. dayOf(c) = dayOf(e) /\ c.h = e.h /\ c.mi = e.mi
  BY <1>1, <1>2, Ordered
<1>4. c.y = e.y /\ c.mo = e.mo /\ c.d = e.d
  BY <1>1, <1>3, SameDay
<1> QED
  BY <1>1, <1>3, <1>4 DEF Civil

-----------------------------------------------------------------------------
(* The search.                                                             *)

\* Where the search goes on from a reading: behind the month, if its day does not exist.
floor(c) == IF c.d > DaysIn(c.y, c.mo) THEN at(c.y, c.mo, DaysIn(c.y, c.mo) + 1, 0, 0) ELSE c

\* The matches that lie ahead, and the first of them.
Ahead(s, c, maxYear) == {m \in Matching(s, Dates) : m.y <= maxYear /\ pos(floor(c)) <= pos(m)}
First(S) == CHOOSE m \in S : \A n \in S : pos(m) <= pos(n)
Found(s, c, maxYear) == IF Ahead(s, c, maxYear) = {} THEN Never ELSE First(Ahead(s, c, maxYear))

\* One step of the search, which goes on with f.
Step(f, s, c, maxYear) ==
  LET months  == {mo \in s.month.on : mo > c.mo}
      hours   == {h \in s.hour.on : h >= c.h}
      h       == Min(hours)
      minutes == {mi \in s.minute.on : h > c.h \/ mi >= c.mi}
  IN IF c.y > maxYear THEN Never
     ELSE IF c.mo \notin s.month.on /\ months = {} THEN f[at(c.y + 1, 1, 1, 0, 0)]
     ELSE IF c.mo \notin s.month.on THEN f[at(c.y, Min(months), 1, 0, 0)]
     ELSE IF c.d > DaysIn(c.y, c.mo)
          THEN f[IF c.mo = Months THEN at(c.y + 1, 1, 1, 0, 0) ELSE at(c.y, c.mo + 1, 1, 0, 0)]
     ELSE IF ~dayMatches(s, c.y, c.mo, c.d) \/ hours = {} THEN f[at(c.y, c.mo, c.d + 1, 0, 0)]
     ELSE IF minutes = {} THEN f[addMinute(at(c.y, c.mo, c.d, h, Hour - 1))]
     ELSE at(c.y, c.mo, c.d, h, Min(minutes))

\* next is a solution of the equation of its steps, if there is one.
LEMMA SearchSteps ==
  ASSUME NEW s, NEW c, NEW maxYear
  PROVE  next(s, c, maxYear) = (CHOOSE f : f = [x \in Civil |-> Step(f, s, x, maxYear)])[c]
BY Zenon DEF next, Step

\* Where the search goes on is a reading of the same day, or of the first behind the month.
LEMMA Floor ==
  ASSUME Calendar, NEW c \in Civil
  PROVE  /\ floor(c) \in Civil /\ floor(c).y = c.y /\ floor(c).mo = c.mo
         /\ c.d <= DaysIn(c.y, c.mo) => floor(c) = c
         /\ c.d > DaysIn(c.y, c.mo) => /\ dayOf(floor(c)) = nextMonth(c.y, c.mo)
                                       /\ floor(c).h = 0 /\ floor(c).mi = 0
         /\ DayOne[c.y][c.mo] <= dayOf(floor(c)) /\ dayOf(floor(c)) <= nextMonth(c.y, c.mo)
<1>1. /\ c.y \in 0..(LastYear + 1) /\ c.mo \in 1..Months /\ c.d \in Nat \ {0}
      /\ Day \in Nat \ {0} /\ Hour \in Nat \ {0}
  BY DEF Civil, Calendar
<1>2. DaysIn(c.y, c.mo) \in Nat \ {0} /\ DayOne[c.y][c.mo] \in Int
  BY <1>1, MonthsFollow
<1>3. CASE c.d <= DaysIn(c.y, c.mo)
  BY <1>1, <1>2, <1>3 DEF floor, dayOf, dayNumber, nextMonth
<1>4. CASE c.d > DaysIn(c.y, c.mo)
  <2>1. floor(c) = at(c.y, c.mo, DaysIn(c.y, c.mo) + 1, 0, 0)
    BY <1>4 DEF floor
  <2>2. /\ floor(c) \in Civil /\ floor(c).y = c.y /\ floor(c).mo = c.mo
        /\ floor(c).d = DaysIn(c.y, c.mo) + 1 /\ floor(c).h = 0 /\ floor(c).mi = 0
    BY <1>1, <1>2, <2>1 DEF at, Civil
  <2>3. dayOf(floor(c)) = nextMonth(c.y, c.mo)
    BY <1>2, <2>2 DEF dayOf, dayNumber, nextMonth
  <2>4. DayOne[c.y][c.mo] <= nextMonth(c.y, c.mo)
    BY <1>2 DEF nextMonth
  <2>5. nextMonth(c.y, c.mo) \in Int
    BY <1>2 DEF nextMonth
  <2> QED
    BY <1>1, <1>2, <1>4, <2>2, <2>3, <2>4, <2>5
<1> QED
  BY <1>1, <1>2, <1>3, <1>4

\* How much the search has left: twice the minutes to the end, and one for a day that does
\* not exist.
End == at(LastYear + 1, Months, DaysIn(LastYear + 1, Months) + 1, 0, 0)
rank(c) == 2 * (pos(End) - pos(floor(c))) + (IF c.d > DaysIn(c.y, c.mo) THEN 1 ELSE 0)

\* Ranks are natural numbers.
LEMMA RankType ==
  ASSUME Calendar, NEW c \in Civil
  PROVE  rank(c) \in Nat
<1>1. /\ c.y \in 0..(LastYear + 1) /\ c.mo \in 1..Months /\ LastYear \in Nat /\ Months \in 1..Months
      /\ LastYear + 1 \in 0..(LastYear + 1) /\ Months \in Nat /\ Day \in Nat \ {0} /\ Hour \in Nat \ {0}
  BY DEF Civil, Calendar
<1>2. DaysIn(LastYear + 1, Months) \in Nat \ {0} /\ DayOne[LastYear + 1][Months] \in Int
  BY <1>1, MonthsFollow
<1>3. /\ End \in Civil /\ dayOf(End) = nextMonth(LastYear + 1, Months)
      /\ End.h = 0 /\ End.mi = 0
  BY <1>1, <1>2 DEF End, at, Civil, dayOf, dayNumber, nextMonth
<1>4. nextMonth(c.y, c.mo) <= nextMonth(LastYear + 1, Months)
  <2>1. CASE c.y = LastYear + 1 /\ c.mo = Months
    BY <1>1, <1>2, <2>1 DEF nextMonth
  <2>2. CASE c.y < LastYear + 1 \/ (c.y = LastYear + 1 /\ c.mo < Months)
    <3>1. nextMonth(c.y, c.mo) <= DayOne[LastYear + 1][Months] /\ nextMonth(c.y, c.mo) \in Int
      BY <1>1, <2>2, MonthsFollow
    <3> QED
      BY <1>2, <3>1 DEF nextMonth
  <2> QED
    BY <1>1, <2>1, <2>2
<1>5. /\ floor(c) \in Civil
      /\ c.d <= DaysIn(c.y, c.mo) => dayOf(floor(c)) < nextMonth(c.y, c.mo)
      /\ c.d > DaysIn(c.y, c.mo) => /\ dayOf(floor(c)) = nextMonth(c.y, c.mo)
                                    /\ floor(c).h = 0 /\ floor(c).mi = 0
  BY <1>1, Floor, Located
<1>6. /\ dayOf(floor(c)) \in Int /\ dayOf(End) \in Int /\ nextMonth(c.y, c.mo) \in Int
      /\ pos(floor(c)) \in Int /\ pos(End) \in Int
  BY <1>1, <1>3, <1>5, Ordered, MonthsFollow
<1>7. c.d \in Nat /\ DaysIn(c.y, c.mo) \in Nat
  BY <1>1, MonthsFollow DEF Civil
<1>8. pos(floor(c)) <= pos(End)
  BY <1>3, <1>4, <1>5, <1>6, <1>7, Ordered
<1> QED
  BY <1>6, <1>8 DEF rank

\* To go on later is to have less left.
LEMMA LaterIsLess ==
  ASSUME Calendar, NEW c \in Civil, NEW e \in Civil,
         \/ pos(floor(c)) < pos(floor(e))
         \/ pos(floor(c)) <= pos(floor(e)) /\ c.d > DaysIn(c.y, c.mo) /\ e.d <= DaysIn(e.y, e.mo)
  PROVE  rank(e) < rank(c)
<1>1. floor(c) \in Civil /\ floor(e) \in Civil /\ End \in Civil
  <2>1. /\ LastYear \in Nat /\ Months \in 1..Months /\ Day \in Nat \ {0} /\ Hour \in Nat \ {0}
        /\ LastYear + 1 \in 0..(LastYear + 1)
    BY DEF Calendar
  <2>2. DaysIn(LastYear + 1, Months) \in Nat
    BY <2>1, MonthsFollow
  <2>3. End \in Civil
    BY <2>1, <2>2 DEF End, at, Civil
  <2> QED
    BY <2>3, Floor
<1>2. pos(floor(c)) \in Int /\ pos(floor(e)) \in Int /\ pos(End) \in Int
  BY <1>1, Ordered
<1>3. c.d \in Nat /\ e.d \in Nat /\ DaysIn(c.y, c.mo) \in Nat /\ DaysIn(e.y, e.mo) \in Nat
  <2>1. /\ c.y \in 0..(LastYear + 1) /\ c.mo \in 1..Months /\ c.d \in Nat
        /\ e.y \in 0..(LastYear + 1) /\ e.mo \in 1..Months /\ e.d \in Nat
    BY DEF Civil
  <2> QED
    BY <2>1, MonthsFollow
<1> QED
  BY <1>2, <1>3 DEF rank

\* The first minute of a later month lies ahead, with all the dates of that month and after.
LEMMA MonthAhead ==
  ASSUME Calendar, NEW c \in Civil, NEW y \in 0..(LastYear + 1), NEW mo \in 1..Months,
         c.y < y \/ (c.y = y /\ c.mo < mo)
  PROVE  LET e == at(y, mo, 1, 0, 0)
         IN /\ e \in Civil /\ floor(e) = e /\ rank(e) < rank(c) /\ pos(floor(c)) <= pos(e)
            /\ \A m \in Dates : y < m.y \/ (y = m.y /\ mo <= m.mo) => pos(e) <= pos(m)
<1> DEFINE e == at(y, mo, 1, 0, 0)
<1>1. /\ c.y \in 0..(LastYear + 1) /\ c.mo \in 1..Months /\ c.d \in Nat
      /\ LastYear \in Nat /\ Months \in Nat /\ Day \in Nat \ {0} /\ Hour \in Nat \ {0}
  BY DEF Civil, Calendar
<1>2. /\ DaysIn(y, mo) \in Nat \ {0} /\ DayOne[y][mo] \in Int /\ DaysIn(c.y, c.mo) \in Nat
      /\ nextMonth(c.y, c.mo) <= DayOne[y][mo] /\ nextMonth(c.y, c.mo) \in Int
  BY <1>1, MonthsFollow
<1>3. /\ e \in Civil /\ dayOf(e) = DayOne[y][mo] /\ e.h = 0 /\ e.mi = 0 /\ e.d = 1
      /\ e.y = y /\ e.mo = mo
  BY <1>1, <1>2 DEF at, Civil, dayOf, dayNumber
<1> HIDE DEF e
<1>4. floor(e) = e
  BY <1>2, <1>3 DEF floor
<1>5. /\ floor(c) \in Civil /\ dayOf(floor(c)) \in Int /\ pos(floor(c)) \in Int /\ pos(e) \in Int
      /\ c.d <= DaysIn(c.y, c.mo) => dayOf(floor(c)) < nextMonth(c.y, c.mo)
      /\ c.d > DaysIn(c.y, c.mo) => /\ dayOf(floor(c)) = nextMonth(c.y, c.mo)
                                    /\ floor(c).h = 0 /\ floor(c).mi = 0
  BY <1>1, <1>3, Floor, Located, Ordered
<1>6. /\ c.d <= DaysIn(c.y, c.mo) => pos(floor(c)) < pos(e)
      /\ c.d > DaysIn(c.y, c.mo) => pos(floor(c)) <= pos(e)
  BY <1>2, <1>3, <1>5, Ordered
<1>7. pos(floor(c)) <= pos(e)
  BY <1>1, <1>2, <1>5, <1>6
<1>8. rank(e) < rank(c)
  BY <1>1, <1>2, <1>3, <1>4, <1>6, LaterIsLess
<1>9. ASSUME NEW m \in Dates, y < m.y \/ (y = m.y /\ mo <= m.mo) PROVE pos(e) <= pos(m)
  <2>1. /\ m \in Civil /\ m.d <= DaysIn(m.y, m.mo) /\ m.y \in 0..(LastYear + 1) /\ m.mo \in 1..Months
        /\ m.h \in Nat /\ m.mi \in Nat
    BY DEF Dates, Civil
  <2>2. DayOne[y][mo] <= DayOne[m.y][m.mo]
    <3>1. CASE y = m.y /\ mo = m.mo
      BY <1>2, <3>1
    <3>2. CASE y < m.y \/ (y = m.y /\ mo < m.mo)
      BY <1>2, <2>1, <3>2, MonthsFollow
    <3> QED
      BY <1>9, <2>1, <3>1, <3>2
  <2>3. DayOne[m.y][m.mo] <= dayOf(m) /\ DayOne[m.y][m.mo] \in Int
    BY <2>1, Located, MonthsFollow
  <2>4. dayOf(m) \in Int /\ dayOf(e) <= dayOf(m)
    BY <1>2, <1>3, <2>1, <2>2, <2>3, Ordered
  <2> QED
    BY <1>2, <1>3, <2>1, <2>4, Ordered
<1> QED
  BY <1>3, <1>4, <1>7, <1>8, <1>9 DEF e

\* So does the next day, with all the dates from there.
LEMMA DayAhead ==
  ASSUME Calendar, NEW c \in Civil, c.d <= DaysIn(c.y, c.mo)
  PROVE  LET e == at(c.y, c.mo, c.d + 1, 0, 0)
         IN /\ e \in Civil /\ floor(e) = e /\ rank(e) < rank(c) /\ pos(c) <= pos(e)
            /\ \A m \in Dates : dayOf(c) < dayOf(m) => pos(e) <= pos(m)
<1> DEFINE e == at(c.y, c.mo, c.d + 1, 0, 0)
<1>1. /\ c.y \in 0..(LastYear + 1) /\ c.mo \in 1..Months /\ c.d \in Nat /\ c.h \in Nat /\ c.mi \in Nat
      /\ LastYear \in Nat /\ Months \in Nat /\ Day \in Nat \ {0} /\ Hour \in Nat \ {0}
  BY DEF Civil, Calendar
<1>2. DayOne[c.y][c.mo] \in Int /\ DaysIn(c.y, c.mo) \in Nat
  BY <1>1, MonthsFollow
<1>3. /\ e \in Civil /\ dayOf(e) = dayOf(c) + 1 /\ e.h = 0 /\ e.mi = 0 /\ e.d = c.d + 1
      /\ e.y = c.y /\ e.mo = c.mo
  BY <1>1, <1>2 DEF at, Civil, dayOf, dayNumber
<1>4. floor(e) = e
  BY <1>1, <1>2 DEF floor, at
<1> HIDE DEF e
<1>5. floor(c) = c /\ dayOf(c) \in Int /\ pos(c) \in Int /\ pos(e) \in Int
  BY <1>3, Floor, Ordered
<1>6. pos(c) < pos(e)
  BY <1>3, <1>5, Ordered
<1>7. rank(e) < rank(c)
  BY <1>3, <1>4, <1>5, <1>6, LaterIsLess
<1>8. ASSUME NEW m \in Dates, dayOf(c) < dayOf(m) PROVE pos(e) <= pos(m)
  <2>1. m \in Civil /\ m.h \in Nat /\ m.mi \in Nat
    BY DEF Dates, Civil
  <2>2. dayOf(m) \in Int
    BY <2>1, Ordered
  <2> QED
    BY <1>3, <1>5, <1>8, <2>1, <2>2, Ordered
<1> QED
  BY <1>3, <1>4, <1>5, <1>6, <1>7, <1>8 DEF e

\* And the next hour.
LEMMA HourAhead ==
  ASSUME Calendar, NEW c \in Civil, c.d <= DaysIn(c.y, c.mo), NEW h \in Nat, c.h <= h, h + 1 < Day
  PROVE  LET e == at(c.y, c.mo, c.d, h + 1, 0)
         IN /\ e \in Civil /\ floor(e) = e /\ rank(e) < rank(c) /\ pos(c) <= pos(e)
            /\ \A m \in Dates : dayOf(c) < dayOf(m) \/ (dayOf(c) = dayOf(m) /\ h < m.h)
                                => pos(e) <= pos(m)
<1> DEFINE e == at(c.y, c.mo, c.d, h + 1, 0)
<1>1. /\ c.y \in 0..(LastYear + 1) /\ c.mo \in 1..Months /\ c.d \in Nat /\ c.h \in Nat /\ c.mi \in Nat
      /\ LastYear \in Nat /\ Months \in Nat /\ Day \in Nat \ {0} /\ Hour \in Nat \ {0}
  BY DEF Civil, Calendar
<1>2. DayOne[c.y][c.mo] \in Int /\ DaysIn(c.y, c.mo) \in Nat
  BY <1>1, MonthsFollow
<1>3. /\ e \in Civil /\ dayOf(e) = dayOf(c) /\ e.h = h + 1 /\ e.mi = 0 /\ e.d = c.d
      /\ e.y = c.y /\ e.mo = c.mo
  BY <1>1, <1>2 DEF at, Civil, dayOf, dayNumber
<1>4. floor(e) = e
  BY <1>3, Floor
<1> HIDE DEF e
<1>5. floor(c) = c /\ dayOf(c) \in Int /\ pos(c) \in Int /\ pos(e) \in Int
  BY <1>3, Floor, Ordered
<1>6. pos(c) < pos(e)
  BY <1>1, <1>3, <1>5, Ordered
<1>7. rank(e) < rank(c)
  BY <1>3, <1>4, <1>5, <1>6, LaterIsLess
<1>8. ASSUME NEW m \in Dates, dayOf(c) < dayOf(m) \/ (dayOf(c) = dayOf(m) /\ h < m.h)
      PROVE  pos(e) <= pos(m)
  <2>1. m \in Civil /\ m.h \in Nat /\ m.mi \in Nat
    BY DEF Dates, Civil
  <2>2. dayOf(m) \in Int
    BY <2>1, Ordered
  <2> QED
    BY <1>3, <1>5, <1>8, <2>1, <2>2, Ordered
<1> QED
  BY <1>3, <1>4, <1>5, <1>6, <1>7, <1>8 DEF e

\* What is skipped holds no match.
LEMMA Skips ==
  ASSUME Calendar, NEW s, NEW maxYear, NEW c \in Civil, NEW e \in Civil, pos(floor(c)) <= pos(floor(e)),
         \A m \in Matching(s, Dates) :
           m.y <= maxYear /\ pos(floor(c)) <= pos(m) => pos(floor(e)) <= pos(m)
  PROVE  Ahead(s, e, maxYear) = Ahead(s, c, maxYear)
<1>1. floor(c) \in Civil /\ floor(e) \in Civil /\ Matching(s, Dates) \subseteq Civil
  BY Floor DEF Matching, Dates
<1>2. /\ pos(floor(c)) \in Int /\ pos(floor(e)) \in Int
      /\ \A m \in Matching(s, Dates) : pos(m) \in Int
  BY <1>1, Ordered
<1> QED
  BY <1>2 DEF Ahead

\* A match that lies ahead lies in the month of the reading or in a later one, on its day or
\* a later one.
LEMMA AheadIs ==
  ASSUME Calendar, NEW c \in Civil, NEW m \in Dates, pos(floor(c)) <= pos(m)
  PROVE  /\ c.y < m.y \/ (c.y = m.y /\ c.mo <= m.mo)
         /\ c.d > DaysIn(c.y, c.mo) => c.y < m.y \/ (c.y = m.y /\ c.mo < m.mo)
         /\ c.d <= DaysIn(c.y, c.mo) =>
              \/ dayOf(c) < dayOf(m)
              \/ dayOf(c) = dayOf(m) /\ c.y = m.y /\ c.mo = m.mo /\ c.d = m.d /\ c.h < m.h
              \/ dayOf(c) = dayOf(m) /\ c.y = m.y /\ c.mo = m.mo /\ c.d = m.d /\ c.h = m.h /\ c.mi <= m.mi
<1>1. /\ m \in Civil /\ m.d <= DaysIn(m.y, m.mo)
      /\ c.y \in 0..(LastYear + 1) /\ c.mo \in 1..Months /\ c.d \in Nat
  BY DEF Dates, Civil
<1>2. /\ floor(c) \in Civil /\ DayOne[c.y][c.mo] <= dayOf(floor(c))
      /\ c.d <= DaysIn(c.y, c.mo) => floor(c) = c
      /\ c.d > DaysIn(c.y, c.mo) => dayOf(floor(c)) = nextMonth(c.y, c.mo)
  BY Floor
<1>3. /\ dayOf(floor(c)) \in Int /\ dayOf(m) \in Int /\ DayOne[c.y][c.mo] \in Int
  BY <1>1, <1>2, Ordered, MonthsFollow
<1>4. dayOf(floor(c)) <= dayOf(m)
  BY <1>1, <1>2, <1>3, Ordered
<1>5. c.y < m.y \/ (c.y = m.y /\ c.mo <= m.mo)
  BY <1>1, <1>2, <1>3, <1>4, Located
<1>6. c.d > DaysIn(c.y, c.mo) => c.y < m.y \/ (c.y = m.y /\ c.mo < m.mo)
  BY <1>1, <1>2, <1>3, <1>4, Located
<1>7. ASSUME c.d <= DaysIn(c.y, c.mo)
      PROVE  \/ dayOf(c) < dayOf(m)
             \/ dayOf(c) = dayOf(m) /\ c.y = m.y /\ c.mo = m.mo /\ c.d = m.d /\ c.h < m.h
             \/ dayOf(c) = dayOf(m) /\ c.y = m.y /\ c.mo = m.mo /\ c.d = m.d /\ c.h = m.h /\ c.mi <= m.mi
  <2>1. dayOf(c) = dayOf(m) => c.y = m.y /\ c.mo = m.mo /\ c.d = m.d
    BY <1>1, <1>7, SameDay
  <2> QED
    BY <1>1, <1>2, <1>7, <2>1, Ordered
<1> QED
  BY <1>5, <1>6, <1>7

\* Each step of the search has found the first match that lies ahead, or goes on where the
\* same ones do.
LEMMA SearchStep ==
  ASSUME Calendar, NEW s, Expression(s), NEW maxYear \in 0..LastYear, NEW c \in Civil, NEW f
  PROVE  \/ Step(f, s, c, maxYear) = Found(s, c, maxYear)
         \/ \E e \in Civil : /\ rank(e) < rank(c) /\ Ahead(s, e, maxYear) = Ahead(s, c, maxYear)
                             /\ Step(f, s, c, maxYear) = f[e]
<1> DEFINE months  == {mo \in s.month.on : mo > c.mo}
           hours   == {h \in s.hour.on : h >= c.h}
           h       == Min(hours)
           minutes == {mi \in s.minute.on : h > c.h \/ mi >= c.mi}
           Goal    == \/ Step(f, s, c, maxYear) = Found(s, c, maxYear)
                      \/ \E e \in Civil : /\ rank(e) < rank(c)
                                          /\ Ahead(s, e, maxYear) = Ahead(s, c, maxYear)
                                          /\ Step(f, s, c, maxYear) = f[e]
<1>1. /\ c.y \in 0..(LastYear + 1) /\ c.mo \in 1..Months /\ c.d \in Nat \ {0}
      /\ c.h \in 0..(Day - 1) /\ c.mi \in 0..(Hour - 1)
      /\ LastYear \in Nat /\ Months \in Nat \ {0} /\ Day \in Nat \ {0} /\ Hour \in Nat \ {0}
  BY DEF Civil, Calendar
<1>2. DaysIn(c.y, c.mo) \in Nat \ {0}
  BY <1>1, MonthsFollow
<1>3. \A m \in Matching(s, Dates) :
        /\ m \in Dates /\ m \in Civil /\ m.y \in 0..LastYear /\ m.mo \in 1..Months /\ m.d \in Nat
        /\ m.h \in 0..(Day - 1) /\ m.mi \in 0..(Hour - 1) /\ m.d <= DaysIn(m.y, m.mo)
        /\ m.mo \in s.month.on /\ dayMatches(s, m.y, m.mo, m.d) /\ m.h \in s.hour.on
        /\ m.mi \in s.minute.on
  <2> SUFFICES ASSUME NEW m \in Matching(s, Dates)
               PROVE  /\ m \in Dates /\ m \in Civil /\ m.y \in 0..LastYear /\ m.mo \in 1..Months
                      /\ m.d \in Nat /\ m.h \in 0..(Day - 1) /\ m.mi \in 0..(Hour - 1)
                      /\ m.d <= DaysIn(m.y, m.mo)
                      /\ m.mo \in s.month.on /\ dayMatches(s, m.y, m.mo, m.d) /\ m.h \in s.hour.on
                      /\ m.mi \in s.minute.on
    OBVIOUS
  <2>1. /\ m \in Dates /\ m.mo \in s.month.on /\ dayMatches(s, m.y, m.mo, m.d)
        /\ m.h \in s.hour.on /\ m.mi \in s.minute.on
    BY DEF Matching
  <2>2. m \in Civil /\ m.y <= LastYear /\ m.d <= DaysIn(m.y, m.mo)
    BY <2>1 DEF Dates
  <2>3. /\ m.y \in 0..(LastYear + 1) /\ m.mo \in 1..Months /\ m.d \in Nat
        /\ m.h \in 0..(Day - 1) /\ m.mi \in 0..(Hour - 1)
    BY <2>2 DEF Civil
  <2> QED
    BY <1>1, <2>1, <2>2, <2>3
<1>4. /\ months \subseteq Nat /\ hours \subseteq Nat /\ minutes \subseteq Nat
      /\ months \subseteq 1..Months /\ hours \subseteq 0..(Day - 1) /\ minutes \subseteq 0..(Hour - 1)
  BY DEF Expression
<1>5. /\ months # {} => Min(months) \in months /\ \A x \in months : Min(months) <= x
      /\ hours # {} => h \in hours /\ \A x \in hours : h <= x
      /\ minutes # {} => Min(minutes) \in minutes /\ \A x \in minutes : Min(minutes) <= x
  <2> HIDE DEF months, minutes, hours
  <2> QED
    BY <1>4, MinIs
<1>6. Step(f, s, c, maxYear) =
        IF c.y > maxYear THEN Never
        ELSE IF c.mo \notin s.month.on /\ months = {} THEN f[at(c.y + 1, 1, 1, 0, 0)]
        ELSE IF c.mo \notin s.month.on THEN f[at(c.y, Min(months), 1, 0, 0)]
        ELSE IF c.d > DaysIn(c.y, c.mo)
             THEN f[IF c.mo = Months THEN at(c.y + 1, 1, 1, 0, 0) ELSE at(c.y, c.mo + 1, 1, 0, 0)]
        ELSE IF ~dayMatches(s, c.y, c.mo, c.d) \/ hours = {} THEN f[at(c.y, c.mo, c.d + 1, 0, 0)]
        ELSE IF minutes = {} THEN f[addMinute(at(c.y, c.mo, c.d, h, Hour - 1))]
        ELSE at(c.y, c.mo, c.d, h, Min(minutes))
  BY Zenon DEF Step
<1>7. ASSUME NEW e \in Civil, floor(e) = e, rank(e) < rank(c), pos(floor(c)) <= pos(e),
             Step(f, s, c, maxYear) = f[e],
             \A m \in Matching(s, Dates) : m.y <= maxYear /\ pos(floor(c)) <= pos(m) => pos(e) <= pos(m)
      PROVE  Goal
  <2>1. Ahead(s, e, maxYear) = Ahead(s, c, maxYear)
    BY <1>7, Skips
  <2> QED
    BY <1>7, <2>1
<1>8. ASSUME NEW m \in Matching(s, Dates), pos(floor(c)) <= pos(m)
      PROVE  /\ c.y < m.y \/ (c.y = m.y /\ c.mo <= m.mo)
             /\ c.d > DaysIn(c.y, c.mo) => c.y < m.y \/ (c.y = m.y /\ c.mo < m.mo)
             /\ c.d <= DaysIn(c.y, c.mo) =>
                 \/ dayOf(c) < dayOf(m)
                 \/ dayOf(c) = dayOf(m) /\ c.y = m.y /\ c.mo = m.mo /\ c.d = m.d /\ c.h < m.h
                 \/ dayOf(c) = dayOf(m) /\ c.y = m.y /\ c.mo = m.mo /\ c.d = m.d /\ c.h = m.h /\ c.mi <= m.mi
  BY <1>3, <1>8, AheadIs
<1> HIDE DEF months, hours, h, minutes
<1>9. CASE c.y > maxYear
  <2>1. \A m \in Matching(s, Dates) : ~(m.y <= maxYear /\ pos(floor(c)) <= pos(m))
    BY <1>1, <1>3, <1>8, <1>9
  <2>2. Ahead(s, c, maxYear) = {}
    BY <2>1 DEF Ahead
  <2> QED
    BY <1>6, <1>9, <2>2 DEF Found
<1>10. CASE c.y <= maxYear /\ c.mo \notin s.month.on /\ months = {}
  <2> DEFINE e == at(c.y + 1, 1, 1, 0, 0)
  <2>1. c.y + 1 \in 0..(LastYear + 1) /\ 1 \in 1..Months /\ c.y < c.y + 1
    BY <1>1, <1>10
  <2>2. /\ e \in Civil /\ floor(e) = e /\ rank(e) < rank(c) /\ pos(floor(c)) <= pos(e)
        /\ \A m \in Dates : c.y + 1 < m.y \/ (c.y + 1 = m.y /\ 1 <= m.mo) => pos(e) <= pos(m)
    BY <2>1, MonthAhead
  <2>3. ASSUME NEW m \in Matching(s, Dates), pos(floor(c)) <= pos(m) PROVE pos(e) <= pos(m)
    <3>1. c.y < m.y
      BY <1>1, <1>3, <1>8, <1>10, <2>3 DEF months
    <3> QED
      BY <1>1, <1>3, <2>2, <3>1
  <2>4. Step(f, s, c, maxYear) = f[e]
    BY <1>1, <1>6, <1>10
  <2> HIDE DEF e
  <2> QED
    BY <1>7, <2>2, <2>3, <2>4
<1>11. CASE c.y <= maxYear /\ c.mo \notin s.month.on /\ months # {}
  <2> DEFINE e == at(c.y, Min(months), 1, 0, 0)
  <2>1. Min(months) \in 1..Months /\ c.mo < Min(months) /\ Min(months) \in months
    BY <1>1, <1>4, <1>5, <1>11 DEF months
  <2>2. /\ e \in Civil /\ floor(e) = e /\ rank(e) < rank(c) /\ pos(floor(c)) <= pos(e)
        /\ \A m \in Dates : c.y < m.y \/ (c.y = m.y /\ Min(months) <= m.mo) => pos(e) <= pos(m)
    BY <1>1, <2>1, MonthAhead
  <2>3. ASSUME NEW m \in Matching(s, Dates), pos(floor(c)) <= pos(m) PROVE pos(e) <= pos(m)
    <3>1. c.y = m.y => m.mo \in months
      BY <1>1, <1>3, <1>8, <1>11, <2>3 DEF months
    <3>2. c.y < m.y \/ (c.y = m.y /\ Min(months) <= m.mo)
      BY <1>5, <1>8, <1>11, <2>3, <3>1
    <3> QED
      BY <1>3, <2>2, <3>2
  <2>4. Step(f, s, c, maxYear) = f[e]
    BY <1>1, <1>6, <1>11
  <2> HIDE DEF e
  <2> QED
    BY <1>7, <2>2, <2>3, <2>4
<1>12. CASE c.y <= maxYear /\ c.mo \in s.month.on /\ c.d > DaysIn(c.y, c.mo)
  <2>1. PICK y \in 0..(LastYear + 1), mo \in 1..Months :
          /\ IF c.mo = Months THEN y = c.y + 1 /\ mo = 1 ELSE y = c.y /\ mo = c.mo + 1
    <3>1. CASE c.mo = Months
      <4>1. c.y + 1 \in 0..(LastYear + 1) /\ 1 \in 1..Months
        BY <1>1, <1>12
      <4> QED
        BY <3>1, <4>1
    <3>2. CASE c.mo # Months
      <4>1. c.mo + 1 \in 1..Months
        BY <1>1, <3>2
      <4> QED
        BY <1>1, <3>2, <4>1
    <3> QED
      BY <3>1, <3>2
  <2>2. PICK e : e = at(y, mo, 1, 0, 0)
    OBVIOUS
  <2>3. /\ e \in Civil /\ floor(e) = e /\ rank(e) < rank(c) /\ pos(floor(c)) <= pos(e)
        /\ \A m \in Dates : y < m.y \/ (y = m.y /\ mo <= m.mo) => pos(e) <= pos(m)
    <3>1. c.y < y \/ (c.y = y /\ c.mo < mo)
      BY <1>1, <2>1
    <3> QED
      BY <2>2, <3>1, MonthAhead
  <2>4. ASSUME NEW m \in Matching(s, Dates), pos(floor(c)) <= pos(m) PROVE pos(e) <= pos(m)
    <3>1. c.y < m.y \/ (c.y = m.y /\ c.mo < m.mo)
      BY <1>8, <1>12, <2>4
    <3>2. y < m.y \/ (y = m.y /\ mo <= m.mo)
      BY <1>1, <1>3, <2>1, <3>1
    <3> QED
      BY <1>3, <2>3, <3>2
  <2>5. Step(f, s, c, maxYear) = f[e]
    BY <1>1, <1>6, <1>12, <2>1, <2>2
  <2> QED
    BY <1>7, <2>3, <2>4, <2>5
<1>13. CASE /\ c.y <= maxYear /\ c.mo \in s.month.on /\ c.d <= DaysIn(c.y, c.mo)
            /\ ~dayMatches(s, c.y, c.mo, c.d) \/ hours = {}
  <2> DEFINE e == at(c.y, c.mo, c.d + 1, 0, 0)
  <2>1. /\ e \in Civil /\ floor(e) = e /\ rank(e) < rank(c) /\ pos(c) <= pos(e) /\ floor(c) = c
        /\ \A m \in Dates : dayOf(c) < dayOf(m) => pos(e) <= pos(m)
    BY <1>13, DayAhead, Floor
  <2>2. ASSUME NEW m \in Matching(s, Dates), pos(floor(c)) <= pos(m) PROVE pos(e) <= pos(m)
    <3>1. dayOf(c) < dayOf(m)
      <4>1. c.h <= m.h => m.h \in hours
        BY <1>1, <1>3 DEF hours
      <4> QED
        BY <1>1, <1>3, <1>8, <1>13, <2>2, <4>1
    <3> QED
      BY <1>3, <2>1, <3>1
  <2>3. Step(f, s, c, maxYear) = f[e]
    BY <1>1, <1>2, <1>6, <1>13
  <2> HIDE DEF e
  <2> QED
    BY <1>7, <2>1, <2>2, <2>3
<1>14. CASE /\ c.y <= maxYear /\ c.mo \in s.month.on /\ c.d <= DaysIn(c.y, c.mo)
            /\ dayMatches(s, c.y, c.mo, c.d) /\ hours # {} /\ minutes = {}
  <2>1. h \in Nat /\ h >= c.h /\ h \in 0..(Day - 1) /\ h \in s.hour.on
    BY <1>4, <1>5, <1>14 DEF hours
  <2>2. PICK e : e = addMinute(at(c.y, c.mo, c.d, h, Hour - 1))
    OBVIOUS
  <2>3. e = IF h + 1 < Day THEN at(c.y, c.mo, c.d, h + 1, 0) ELSE at(c.y, c.mo, c.d + 1, 0, 0)
    <3>1. PICK r : r = at(c.y, c.mo, c.d, h, Hour - 1)
      OBVIOUS
    <3>2. r = [y |-> c.y, mo |-> c.mo, d |-> c.d, h |-> h, mi |-> Hour - 1]
      BY <3>1 DEF at
    <3>3. ~(r.mi + 1 < Hour) /\ r.h = h /\ r.y = c.y /\ r.mo = c.mo /\ r.d = c.d
      BY <1>1, <3>2
    <3> QED
      BY <2>2, <3>1, <3>3 DEF addMinute
  <2>4. /\ e \in Civil /\ floor(e) = e /\ rank(e) < rank(c) /\ pos(c) <= pos(e) /\ floor(c) = c
        /\ \A m \in Dates : dayOf(c) < dayOf(m) \/ (dayOf(c) = dayOf(m) /\ h < m.h /\ m.h < Day)
                            => pos(e) <= pos(m)
    <3>1. CASE h + 1 < Day
      BY <1>14, <2>1, <2>3, <3>1, HourAhead, Floor
    <3>2. CASE ~(h + 1 < Day)
      <4>1. /\ e \in Civil /\ floor(e) = e /\ rank(e) < rank(c) /\ pos(c) <= pos(e) /\ floor(c) = c
            /\ \A m \in Dates : dayOf(c) < dayOf(m) => pos(e) <= pos(m)
        BY <1>14, <2>3, <3>2, DayAhead, Floor
      <4>2. \A m \in Dates : m.h \in Nat
        BY DEF Dates, Civil
      <4> QED
        BY <1>1, <2>1, <3>2, <4>1, <4>2
    <3> QED
      BY <3>1, <3>2
  <2>5. ASSUME NEW m \in Matching(s, Dates), pos(floor(c)) <= pos(m) PROVE pos(e) <= pos(m)
    <3>1. c.h <= m.h => h <= m.h
      BY <1>1, <1>3, <1>5 DEF hours
    <3>2. (h > c.h \/ m.mi >= c.mi) => m.mi \in minutes
      BY <1>1, <1>3 DEF minutes
    <3>3. h > c.h \/ m.mi >= c.mi => FALSE
      BY <1>14, <3>2
    <3>4. dayOf(c) < dayOf(m) \/ (dayOf(c) = dayOf(m) /\ h < m.h)
      BY <1>1, <1>3, <1>8, <1>14, <2>1, <2>5, <3>1, <3>3
    <3>5. m.h < Day
      BY <1>1, <1>3
    <3> QED
      BY <1>3, <2>4, <3>4, <3>5
  <2>6. Step(f, s, c, maxYear) = f[e]
    BY <1>1, <1>2, <1>6, <1>14, <2>2
  <2> QED
    BY <1>7, <2>4, <2>5, <2>6
<1>15. CASE /\ c.y <= maxYear /\ c.mo \in s.month.on /\ c.d <= DaysIn(c.y, c.mo)
            /\ dayMatches(s, c.y, c.mo, c.d) /\ hours # {} /\ minutes # {}
  <2>1. h \in Nat /\ h >= c.h /\ h \in 0..(Day - 1) /\ h \in s.hour.on
    BY <1>4, <1>5, <1>15 DEF hours
  <2>2. PICK e : e = at(c.y, c.mo, c.d, h, Min(minutes))
    OBVIOUS
  <2>3. /\ Min(minutes) \in s.minute.on /\ Min(minutes) \in 0..(Hour - 1)
        /\ h > c.h \/ Min(minutes) >= c.mi
    BY <1>4, <1>5, <1>15 DEF minutes
  <2>4. /\ e \in Civil /\ e.y = c.y /\ e.mo = c.mo /\ e.d = c.d /\ e.h = h /\ e.mi = Min(minutes)
        /\ dayOf(e) = dayOf(c)
    BY <1>1, <2>1, <2>2, <2>3 DEF at, Civil, dayOf
  <2>5. e \in Dates /\ e \in Matching(s, Dates)
    BY <1>1, <1>15, <2>1, <2>3, <2>4 DEF Dates, Matching
  <2>6. floor(c) = c /\ dayOf(c) \in Int /\ pos(c) \in Int /\ pos(e) \in Int
    BY <1>15, <2>4, Floor, Ordered
  <2>7. pos(c) <= pos(e)
    BY <1>1, <2>1, <2>3, <2>4, <2>6, Ordered
  <2>8. e \in Ahead(s, c, maxYear)
    BY <1>15, <2>4, <2>5, <2>6, <2>7 DEF Ahead
  <2>9. ASSUME NEW m \in Ahead(s, c, maxYear) PROVE pos(e) <= pos(m) /\ pos(m) \in Int
    <3>1. m \in Matching(s, Dates) /\ pos(floor(c)) <= pos(m)
      BY DEF Ahead
    <3>2. c.h <= m.h => h <= m.h
      BY <1>1, <1>3, <1>5, <3>1 DEF hours
    <3>3. (h > c.h \/ m.mi >= c.mi) => Min(minutes) <= m.mi
      BY <1>1, <1>3, <1>5, <3>1 DEF minutes
    <3>4. dayOf(m) \in Int /\ pos(m) \in Int
      BY <1>3, <3>1, Ordered
    <3>5. dayOf(c) < dayOf(m) \/ (dayOf(c) = dayOf(m) /\ c.h <= m.h)
      BY <1>1, <1>3, <1>8, <1>15, <3>1
    <3>6. dayOf(c) = dayOf(m) /\ h = m.h => h > c.h \/ m.mi >= c.mi
      BY <1>1, <1>3, <1>8, <1>15, <3>1, <2>1, <2>6, <3>4
    <3>7. \/ dayOf(e) < dayOf(m)
          \/ dayOf(e) = dayOf(m) /\ e.h < m.h
          \/ dayOf(e) = dayOf(m) /\ e.h = m.h /\ e.mi <= m.mi
      BY <1>3, <2>1, <2>4, <2>6, <3>1, <3>2, <3>3, <3>4, <3>5, <3>6
    <3> QED
      BY <1>3, <2>4, <3>1, <3>4, <3>7, Ordered
  <2>10. First(Ahead(s, c, maxYear)) = e
    <3>1. PICK x : x = First(Ahead(s, c, maxYear))
      OBVIOUS
    <3>2. x \in Ahead(s, c, maxYear) /\ \A n \in Ahead(s, c, maxYear) : pos(x) <= pos(n)
      BY <2>8, <2>9, <3>1 DEF First
    <3>3. pos(x) = pos(e) /\ x \in Dates
      BY <1>3, <2>6, <2>8, <2>9, <3>2 DEF Ahead
    <3> QED
      BY <2>5, <3>1, <3>3, SameMinute
  <2>11. Step(f, s, c, maxYear) = e
    BY <1>1, <1>2, <1>6, <1>15, <2>2
  <2> QED
    BY <2>8, <2>10, <2>11 DEF Found
<1> QED
  BY <1>1, <1>2, <1>9, <1>10, <1>11, <1>12, <1>13, <1>14, <1>15

\* The search finds the first match at or after a reading, in the years up to maxYear.
THEOREM SearchFindsFirst ==
  ASSUME Calendar, NEW s, Expression(s), NEW maxYear \in 0..LastYear, NEW c \in Civil
  PROVE  next(s, c, maxYear) = Found(s, c, maxYear)
<1> DEFINE F == [x \in Civil |-> Found(s, x, maxYear)]
           find == CHOOSE f : f = [x \in Civil |-> Step(f, s, x, maxYear)]
<1>1. F = [x \in Civil |-> Step(F, s, x, maxYear)]
  <2>1. ASSUME NEW x \in Civil PROVE F[x] = Step(F, s, x, maxYear)
    <3>1. CASE Step(F, s, x, maxYear) = Found(s, x, maxYear)
      BY <3>1
    <3>2. CASE \E e \in Civil : /\ rank(e) < rank(x) /\ Ahead(s, e, maxYear) = Ahead(s, x, maxYear)
                                /\ Step(F, s, x, maxYear) = F[e]
      <4>1. PICK e \in Civil : Ahead(s, e, maxYear) = Ahead(s, x, maxYear) /\ Step(F, s, x, maxYear) = F[e]
        BY <3>2
      <4>2. Found(s, e, maxYear) = Found(s, x, maxYear)
        BY <4>1 DEF Found
      <4> QED
        BY <4>1, <4>2
    <3> QED
      BY <3>1, <3>2, SearchStep
  <2> QED
    BY <2>1
<1>2. find = [x \in Civil |-> Step(find, s, x, maxYear)]
  <2> HIDE DEF F
  <2> QED
    BY <1>1
<1>3. next(s, c, maxYear) = find[c]
  BY Zenon, SearchSteps
<1> HIDE DEF find
<1> DEFINE Bad == {x \in Civil : find[x] # Found(s, x, maxYear)}
           ranks == [x \in Civil |-> rank(x)]
<1>4. Bad = {}
  <2> SUFFICES ASSUME Bad # {} PROVE FALSE
    OBVIOUS
  <2>1. ranks \in [Civil -> Nat]
    BY RankType
  <2>2. PICK x \in Bad : \A y \in Bad : ranks[x] <= ranks[y]
    <3> HIDE DEF ranks
    <3> QED
      BY <2>1, LeastRank
  <2>3. x \in Civil /\ find[x] # Found(s, x, maxYear) /\ find[x] = Step(find, s, x, maxYear)
    BY <1>2
  <2>4. PICK e \in Civil : /\ rank(e) < rank(x) /\ Ahead(s, e, maxYear) = Ahead(s, x, maxYear)
                           /\ find[x] = find[e]
    BY <2>3, SearchStep
  <2>5. Found(s, e, maxYear) = Found(s, x, maxYear)
    BY <2>4 DEF Found
  <2>6. e \in Bad /\ rank(e) \in Nat /\ rank(x) \in Nat
    BY <2>3, <2>4, <2>5, RankType
  <2> QED
    BY <2>2, <2>3, <2>4, <2>6
<1> QED
  BY <1>3, <1>4

-----------------------------------------------------------------------------
(* Wall clocks.                                                            *)

\* The greater of two.
LEMMA MaxOfTwo ==
  ASSUME NEW a \in Int, NEW b \in Int
  PROVE  Max({a, b}) = IF a >= b THEN a ELSE b
BY DEF Max

\* What a zone is made of.
LEMMA ZoneTypes ==
  ASSUME Calendar, NEW zone, Zone(zone)
  PROVE  /\ DaySeconds \in Nat \ {0} /\ Horizon \in Int
         /\ Len(zone) \in Nat \ {0} /\ DOMAIN zone = 1..Len(zone)
         /\ \A p \in 1..Len(zone) : /\ zone[p].until \in Int /\ zone[p].off \in Int
                                    /\ -DaySeconds <= zone[p].off /\ zone[p].off <= DaySeconds
         /\ zone[Len(zone)].until >= Horizon + DaySeconds
<1>1. DaySeconds \in Nat \ {0}
  <2>1. Day \in Nat \ {0} /\ Hour \in Nat \ {0} /\ Minute \in Nat \ {0}
    BY DEF Calendar
  <2>2. \A a, b \in Nat \ {0} : a * b \in Nat \ {0}
    OBVIOUS
  <2> QED
    BY <2>1, <2>2 DEF DaySeconds
<1>2. Horizon \in Int
  <2>1. LastYear + 1 \in 0..(LastYear + 2) /\ 1 \in 1..Months
    BY DEF Calendar
  <2>2. DayOne[LastYear + 1][1] \in Int
    BY <2>1 DEF Calendar
  <2> QED
    BY <1>1, <2>2 DEF Horizon
<1>3. zone \in Seq([until : Int, off : Int]) /\ zone # <<>>
  BY DEF Zone
<1>4. Len(zone) \in Nat \ {0} /\ DOMAIN zone = 1..Len(zone)
  BY <1>3
<1>5. \A p \in 1..Len(zone) : zone[p] \in [until : Int, off : Int]
  <2>1. PICK T : T = [until : Int, off : Int]
    OBVIOUS
  <2>2. zone \in Seq(T)
    BY <1>3, <2>1
  <2>3. \A p \in 1..Len(zone) : zone[p] \in T
    BY <1>4, <2>2
  <2> QED
    BY <2>1, <2>3
<1>6. \A p \in 1..Len(zone) : zone[p].until \in Int /\ zone[p].off \in Int
  BY <1>5
<1> QED
  BY <1>1, <1>2, <1>4, <1>6 DEF Zone

\* The period of an instant is the one it lies in.
LEMMA PeriodIs ==
  ASSUME Calendar, NEW zone, Zone(zone), NEW t \in Int, t < zone[Len(zone)].until
  PROVE  /\ period(t, zone) \in 1..Len(zone) /\ t < zone[period(t, zone)].until
         /\ \A q \in 1..Len(zone) : t < zone[q].until => period(t, zone) <= q
         /\ wall(t, zone) = t + zone[period(t, zone)].off
         /\ wall(t, zone) \in Int /\ t - DaySeconds <= wall(t, zone) /\ wall(t, zone) <= t + DaySeconds
<1>1. /\ DaySeconds \in Nat \ {0} /\ Len(zone) \in Nat \ {0} /\ DOMAIN zone = 1..Len(zone)
      /\ \A p \in 1..Len(zone) : /\ zone[p].until \in Int /\ zone[p].off \in Int
                                 /\ -DaySeconds <= zone[p].off /\ zone[p].off <= DaySeconds
  BY ZoneTypes
<1> DEFINE P == {p \in DOMAIN zone : t < zone[p].until}
<1>2. P \in SUBSET Nat /\ Len(zone) \in P
  BY <1>1
<1>3. Min(P) \in P /\ \A y \in P : Min(P) <= y
  <2> HIDE DEF P
  <2> QED
    BY <1>2, MinIs
<1>4. period(t, zone) = Min(P)
  BY DEF period
<1>5. /\ period(t, zone) \in 1..Len(zone) /\ t < zone[period(t, zone)].until
      /\ \A q \in 1..Len(zone) : t < zone[q].until => period(t, zone) <= q
  BY <1>1, <1>3, <1>4
<1> QED
  BY <1>1, <1>5 DEF wall

\* resolve is the earliest instant at which the wall clock has reached a minute.
THEOREM ResolvesToEarliest ==
  ASSUME Calendar, NEW zone, Zone(zone), NEW c, unix(c) \in Int, unix(c) < Horizon
  PROVE  /\ resolve(c, zone) \in Int /\ resolve(c, zone) < zone[Len(zone)].until
         /\ wall(resolve(c, zone), zone) >= unix(c)
         /\ \A t \in Int : t < resolve(c, zone) => wall(t, zone) < unix(c)
<1> DEFINE n == Len(zone)
           u == unix(c)
           i == u - 2 * DaySeconds
           P == {q \in DOMAIN zone : i < zone[q].until /\ u < zone[q].until + zone[q].off}
           p == Min(P)
           begins == IF p = 1 THEN i ELSE Max({i, zone[p - 1].until})
           r == Max({begins, u - zone[p].off})
<1>1. /\ DaySeconds \in Nat \ {0} /\ Horizon \in Int /\ n \in Nat \ {0} /\ DOMAIN zone = 1..n
      /\ \A q \in 1..n : /\ zone[q].until \in Int /\ zone[q].off \in Int
                         /\ -DaySeconds <= zone[q].off /\ zone[q].off <= DaySeconds
      /\ zone[n].until >= Horizon + DaySeconds
  BY ZoneTypes
<1>2. u \in Int /\ i \in Int /\ u < Horizon /\ i = u - 2 * DaySeconds
  BY <1>1
<1>3. resolve(c, zone) = r
  BY DEF resolve
<1> HIDE DEF u, i
<1>4. P \in SUBSET Nat /\ n \in P /\ n \in 1..n
  BY <1>1, <1>2
<1>5. p \in P /\ \A y \in P : p <= y
  <2> HIDE DEF P
  <2> QED
    BY <1>4, MinIs
<1>6. /\ p \in 1..n /\ i < zone[p].until /\ u < zone[p].until + zone[p].off
      /\ \A q \in 1..n : i < zone[q].until /\ u < zone[q].until + zone[q].off => p <= q
  BY <1>1, <1>5
<1> HIDE DEF P, p
<1>7. \A q \in 1..n : q < p => zone[q].until < zone[p].until
  BY <1>6 DEF Zone
<1>8. p # 1 => p - 1 \in 1..n
  BY <1>1, <1>6
<1>9. /\ begins \in Int /\ begins >= i /\ begins < zone[p].until
      /\ \A q \in 1..n : q < p => zone[q].until <= begins
      /\ \A t \in Int : t < begins => t < i \/ (p # 1 /\ t < zone[p - 1].until)
  <2>1. CASE p = 1
    BY <1>1, <1>2, <1>6, <2>1
  <2>2. CASE p # 1
    <3>1. zone[p - 1].until \in Int /\ zone[p - 1].until < zone[p].until
      BY <1>1, <1>6, <1>7, <1>8, <2>2
    <3>2. begins = IF i >= zone[p - 1].until THEN i ELSE zone[p - 1].until
      BY <1>2, <2>2, <3>1, MaxOfTwo
    <3>3. \A q \in 1..n : q < p => zone[q].until <= zone[p - 1].until
      <4> SUFFICES ASSUME NEW q \in 1..n, q < p PROVE zone[q].until <= zone[p - 1].until
        OBVIOUS
      <4>1. q = p - 1 \/ q < p - 1
        BY <1>6
      <4>2. q < p - 1 => zone[q].until < zone[p - 1].until
        BY <1>8, <2>2 DEF Zone
      <4> QED
        BY <1>1, <3>1, <4>1, <4>2
    <3> HIDE DEF begins, n
    <3> QED
      BY <1>1, <1>2, <1>6, <2>2, <3>1, <3>2, <3>3
  <2> QED
    BY <2>1, <2>2
<1> HIDE DEF begins
<1>10. zone[p].off \in Int /\ zone[p].until \in Int
  BY <1>1, <1>6
<1>11. r = IF begins >= u - zone[p].off THEN begins ELSE u - zone[p].off
  <2>1. u - zone[p].off \in Int /\ begins \in Int
    BY <1>2, <1>9, <1>10
  <2> QED
    BY <2>1, MaxOfTwo
<1> HIDE DEF r
<1>12. r \in Int /\ begins <= r /\ u - zone[p].off <= r /\ r < zone[p].until
  BY <1>2, <1>6, <1>9, <1>10, <1>11
<1>13. ASSUME NEW t \in Int, t < zone[p].until
       PROVE  /\ t < zone[n].until
              /\ begins <= t => wall(t, zone) = t + zone[p].off
  <2>1. t < zone[n].until
    <3>1. p = n \/ (p < n /\ zone[p].until < zone[n].until)
      BY <1>4, <1>6 DEF Zone
    <3> QED
      BY <1>1, <1>4, <1>10, <1>13, <3>1
  <2>2. /\ period(t, zone) \in 1..n /\ t < zone[period(t, zone)].until /\ period(t, zone) <= p
        /\ wall(t, zone) = t + zone[period(t, zone)].off
    BY <1>6, <1>13, <2>1, PeriodIs
  <2>3. begins <= t => ~(period(t, zone) < p)
    BY <1>1, <1>9, <2>2
  <2> QED
    BY <1>6, <2>1, <2>2, <2>3
<1>14. r < zone[n].until /\ wall(r, zone) >= u
  BY <1>2, <1>10, <1>12, <1>13
<1>15. ASSUME NEW t \in Int, t < r PROVE wall(t, zone) < u
  <2>1. t < zone[p].until /\ t < zone[n].until
    BY <1>10, <1>12, <1>13, <1>15
  <2>2. CASE begins <= t
    <3>1. wall(t, zone) = t + zone[p].off /\ t < u - zone[p].off
      BY <1>2, <1>9, <1>10, <1>11, <1>13, <1>15, <2>1, <2>2
    <3> QED
      BY <1>2, <1>10, <3>1
  <2>3. CASE t < i
    BY <1>1, <1>2, <2>1, <2>3, PeriodIs
  <2>4. CASE t < begins /\ i <= t
    <3>1. p # 1 /\ p - 1 \in 1..n /\ t < zone[p - 1].until
      BY <1>2, <1>8, <1>9, <2>4
    <3>2. PICK q : q = period(t, zone)
      OBVIOUS
    <3>3. q \in 1..n /\ t < zone[q].until /\ q <= p - 1 /\ wall(t, zone) = t + zone[q].off
      BY <2>1, <3>1, <3>2, PeriodIs
    <3>4. ~(u < zone[q].until + zone[q].off)
      <4>1. i < zone[q].until /\ ~(p <= q)
        BY <1>1, <1>2, <1>6, <2>4, <3>3
      <4> QED
        BY <1>6, <3>3, <4>1
    <3>5. zone[q].until \in Int /\ zone[q].off \in Int
      BY <1>1, <3>3
    <3> QED
      BY <1>2, <3>3, <3>4, <3>5
  <2> QED
    BY <1>2, <1>9, <2>2, <2>3, <2>4
<1> QED
  BY <1>3, <1>12, <1>14, <1>15 DEF u

-----------------------------------------------------------------------------
(* The reading of a wall clock.                                            *)

\* Division leaves a remainder smaller than the divisor.
LEMMA Division ==
  ASSUME NEW a \in Int, NEW b \in Nat \ {0}
  PROVE  a \div b \in Int /\ a % b \in 0..(b - 1) /\ a = (a \div b) * b + (a % b)
<1>1. a \div b \in Int /\ a % b \in Int /\ a = b * (a \div b) + (a % b) /\ 0 <= a % b /\ a % b < b
  BY SMT
<1>2. b * (a \div b) = (a \div b) * b
  BY <1>1
<1> QED
  BY <1>1, <1>2

\* Dividing twice is dividing by the product.
LEMMA Twice ==
  ASSUME NEW a \in Int, NEW b \in Nat \ {0}, NEW c \in Nat \ {0}
  PROVE  a \div (b * c) = (a \div b) \div c
<1>1. PICK q, r : q = a \div b /\ r = a % b
  OBVIOUS
<1>2. q \in Int /\ r \in 0..(b - 1) /\ a = q * b + r
  BY <1>1, Division
<1>3. PICK p, t : p = q \div c /\ t = q % c
  OBVIOUS
<1>4. p \in Int /\ t \in 0..(c - 1) /\ q = p * c + t
  BY <1>2, <1>3, Division
<1>5. PICK B : B = b * c
  OBVIOUS
<1>6. B \in Nat \ {0}
  BY <1>5
<1>7. PICK n, k : n = a \div B /\ k = a % B
  OBVIOUS
<1>8. n \in Int /\ k \in 0..(B - 1) /\ a = n * B + k
  BY <1>6, <1>7, Division
<1>9. t * b + r \in 0..(B - 1)
  <2>1. t * b \in Int /\ t * b >= 0 /\ (c - 1 - t) * b >= 0 /\ (c - 1 - t) * b = c * b - b - t * b
    BY <1>4
  <2>2. c * b = B
    BY <1>5
  <2> QED
    BY <1>2, <1>6, <2>1, <2>2
<1>10. a = p * B + (t * b + r)
  <2>1. (p * c + t) * b = (p * c) * b + t * b
    BY <1>4
  <2>2. (p * c) * b = p * (b * c)
    BY <1>4
  <2>3. p * B \in Int /\ t * b \in Int /\ (p * c) * b = p * B
    BY <1>4, <1>5, <1>6, <2>2
  <2> QED
    BY <1>2, <1>4, <2>1, <2>3
<1>11. p = n
  <2>1. PICK x : x = t * b + r
    OBVIOUS
  <2>2. /\ p * B + x <= n * B + k <=> p < n \/ (p = n /\ x <= k)
        /\ n * B + k <= p * B + x <=> n < p \/ (n = p /\ k <= x)
        /\ p * B + x \in Int
    BY <1>4, <1>6, <1>8, <1>9, <2>1, Digits
  <2> QED
    BY <1>4, <1>8, <1>10, <2>1, <2>2
<1> QED
  BY <1>1, <1>3, <1>5, <1>7, <1>11

\* What is low at one end and high at the other crosses in between.
LEMMA Crossing ==
  ASSUME NEW a \in Int, NEW b \in Int, a <= b, NEW f \in [a..b -> Int], NEW x \in Int, f[a] <= x, x < f[b]
  PROVE  \E n \in a..b : n < b /\ f[n] <= x /\ x < f[n + 1]
<1> SUFFICES ASSUME \A n \in a..b : n < b /\ f[n] <= x => ~(x < f[n + 1]) PROVE FALSE
  OBVIOUS
<1> DEFINE T == {n \in a..b : f[n] <= x}
<1>1. a \in T
  OBVIOUS
<1>2. \A n \in a..b : n < b /\ n \in T => n + 1 \in T
  OBVIOUS
<1>3. a..b \subseteq T
  <2> HIDE DEF T
  <2> QED
    BY <1>1, <1>2, Induction
<1> QED
  BY <1>3

\* Every day of the calendar lies in a month.
LEMMA MonthOfDay ==
  ASSUME Calendar, NEW day \in Int, DayOne[0][1] <= day, day < DayOne[LastYear + 1][1]
  PROVE  \E m \in (0..LastYear) \X (1..Months) :
           DayOne[m[1]][m[2]] <= day /\ day < DayOne[m[1]][m[2]] + DaysIn(m[1], m[2])
<1>1. LastYear \in Nat /\ Months \in Nat \ {0} /\ 1 \in 1..Months
  BY DEF Calendar
<1>2. \A y \in 0..(LastYear + 1), mo \in 1..Months : DayOne[y][mo] \in Int
  BY <1>1 DEF Calendar
<1>3. PICK y \in 0..LastYear : DayOne[y][1] <= day /\ day < DayOne[y + 1][1]
  <2> DEFINE f == [x \in 0..(LastYear + 1) |-> DayOne[x][1]]
  <2>1. PICK b \in Int : b = LastYear + 1
    BY <1>1
  <2>2. /\ f \in [0..b -> Int] /\ f[0] = DayOne[0][1] /\ f[b] = DayOne[LastYear + 1][1] /\ 0 <= b
        /\ 0 \in Int
    BY <1>1, <1>2, <2>1
  <2>3. PICK n \in 0..b : n < b /\ f[n] <= day /\ day < f[n + 1]
    <3> HIDE DEF f
    <3> QED
      BY <2>1, <2>2, Crossing
  <2>4. n \in 0..LastYear /\ f[n] = DayOne[n][1] /\ f[n + 1] = DayOne[n + 1][1]
    BY <1>1, <2>1, <2>3
  <2> QED
    BY <2>3, <2>4
<1>4. PICK mo \in 1..Months : DayOne[y][mo] <= day /\ day < nextMonth(y, mo)
  <2> DEFINE f == [k \in 1..(Months + 1) |-> IF k <= Months THEN DayOne[y][k] ELSE DayOne[y + 1][1]]
  <2>1. PICK b \in Int : b = Months + 1
    BY <1>1
  <2>2. y \in 0..(LastYear + 1) /\ y + 1 \in 0..(LastYear + 1)
    BY <1>1
  <2>3. f \in [1..b -> Int] /\ f[1] = DayOne[y][1] /\ f[b] = DayOne[y + 1][1] /\ 1 <= b /\ 1 \in Int
    BY <1>1, <1>2, <2>1, <2>2
  <2>4. PICK n \in 1..b : n < b /\ f[n] <= day /\ day < f[n + 1]
    <3> HIDE DEF f
    <3> QED
      BY <1>3, <2>1, <2>3, Crossing
  <2>5. n \in 1..Months /\ n + 1 \in 1..(Months + 1) /\ f[n] = DayOne[y][n]
    BY <1>1, <2>1, <2>4
  <2>6. f[n + 1] = nextMonth(y, n)
    <3>1. /\ n < Months => nextMonth(y, n) = DayOne[y][n + 1]
          /\ n = Months => nextMonth(y, n) = DayOne[y + 1][1]
      BY <2>2, <2>5, MonthsFollow
    <3> QED
      BY <1>1, <2>5, <3>1
  <2> QED
    BY <2>4, <2>5, <2>6
<1>5. PICK m \in (0..LastYear) \X (1..Months) : m[1] = y /\ m[2] = mo
  <2>1. <<y, mo>> \in (0..LastYear) \X (1..Months) /\ <<y, mo>>[1] = y /\ <<y, mo>>[2] = mo
    OBVIOUS
  <2> QED
    BY <2>1
<1> QED
  BY <1>4, <1>5 DEF nextMonth

\* unix multiplies the number of a minute by its length, so the minutes of a day lie within
\* that day.
LEMMA UnixIs ==
  ASSUME Calendar, NEW c \in Civil
  PROVE  /\ unix(c) = pos(c) * Minute /\ unix(c) \in Int
         /\ dayOf(c) * DaySeconds \in Int
         /\ dayOf(c) * DaySeconds <= unix(c) /\ unix(c) + Minute <= dayOf(c) * DaySeconds + DaySeconds
<1>1. /\ Day \in Nat \ {0} /\ Hour \in Nat \ {0} /\ Minute \in Nat \ {0}
      /\ c.h \in 0..(Day - 1) /\ c.mi \in 0..(Hour - 1)
  BY DEF Calendar, Civil
<1>2. dayOf(c) \in Int /\ pos(c) \in Int
  BY Ordered
<1>3. unix(c) = pos(c) * Minute
  BY DEF unix, pos, dayOf
<1>4. PICK d, p, H : d = dayOf(c) /\ p = pos(c) /\ H = Day * Hour
  OBVIOUS
<1>5. /\ H \in Nat \ {0} /\ d \in Int /\ p \in Int /\ d * Day \in Int /\ (d * Day) * Hour = d * H
      /\ d * H \in Int
  BY <1>1, <1>2, <1>4
<1>6. d * H <= p /\ p + 1 <= d * H + H
  <2>1. c.h * Hour \in Int /\ c.h * Hour >= 0
    BY <1>1
  <2>2. (Day - 1 - c.h) * Hour >= 0 /\ (Day - 1 - c.h) * Hour = Day * Hour - Hour - c.h * Hour
    BY <1>1
  <2>3. p = (d * Day + c.h) * Hour + c.mi
    BY <1>4 DEF pos
  <2>4. (d * Day + c.h) * Hour = (d * Day) * Hour + c.h * Hour
    BY <1>1, <1>5
  <2> QED
    BY <1>1, <1>4, <1>5, <2>1, <2>2, <2>3, <2>4
<1>7. PICK D : D = DaySeconds
  OBVIOUS
<1>8. D = H * Minute /\ D \in Nat \ {0}
  BY <1>1, <1>4, <1>5, <1>7 DEF DaySeconds
<1>9. d * D \in Int /\ (d * H) * Minute = d * D /\ p * Minute \in Int
  BY <1>1, <1>5, <1>8
<1>10. (p - d * H) * Minute >= 0 /\ (p - d * H) * Minute = p * Minute - (d * H) * Minute
  BY <1>1, <1>5, <1>6
<1>11. /\ (d * H + H - p - 1) * Minute >= 0
       /\ (d * H + H - p - 1) * Minute = (d * H) * Minute + H * Minute - p * Minute - Minute
  BY <1>1, <1>5, <1>6
<1>12. d * D <= p * Minute /\ p * Minute + Minute <= d * D + D
  BY <1>1, <1>8, <1>9, <1>10, <1>11
<1> QED
  BY <1>3, <1>4, <1>7, <1>9, <1>12

\* The reading of a clock is the minute it lies in.
LEMMA CivilIs ==
  ASSUME Calendar, NEW u \in Int, DayOne[0][1] * DaySeconds <= u, u < Horizon
  PROVE  /\ civil(u) \in Dates /\ unix(civil(u)) <= u /\ u < unix(civil(u)) + Minute
         /\ dayOf(civil(u)) = u \div DaySeconds
<1>1. /\ Day \in Nat \ {0} /\ Hour \in Nat \ {0} /\ Minute \in Nat \ {0} /\ LastYear \in Nat
      /\ Months \in Nat \ {0} /\ 1 \in 1..Months
  BY DEF Calendar
<1>2. DayOne[0][1] \in Int /\ DayOne[LastYear + 1][1] \in Int
  <2>1. 0 \in 0..(LastYear + 2) /\ LastYear + 1 \in 0..(LastYear + 2)
    BY <1>1
  <2> QED
    BY <1>1, <2>1 DEF Calendar
<1>3. PICK D, day : D = DaySeconds /\ day = u \div DaySeconds
  OBVIOUS
<1>4. D = Day * Hour * Minute /\ D \in Nat \ {0}
  <2>1. \A a, b \in Nat \ {0} : a * b \in Nat \ {0}
    OBVIOUS
  <2> QED
    BY <1>1, <1>3, <2>1 DEF DaySeconds
<1>5. day \in Int /\ u % D \in 0..(D - 1) /\ u = day * D + (u % D)
  BY <1>3, <1>4, Division
<1>6. DayOne[0][1] <= day /\ day < DayOne[LastYear + 1][1]
  <2>1. PICK a, b \in Int : a = DayOne[0][1] /\ b = DayOne[LastYear + 1][1]
    BY <1>2
  <2>2. a * D <= u /\ u < b * D
    BY <1>3, <2>1 DEF Horizon
  <2>3. /\ a * D + 0 <= day * D + (u % D) <=> a < day \/ (a = day /\ 0 <= u % D)
        /\ b * D + 0 <= day * D + (u % D) <=> b < day \/ (b = day /\ 0 <= u % D)
        /\ a * D + 0 \in Int /\ b * D + 0 \in Int
    <3>1. 0 \in 0..(D - 1)
      BY <1>4
    <3> QED
      BY <1>4, <1>5, <2>1, <3>1, Digits
  <2>4. a * D + 0 = a * D /\ b * D + 0 = b * D
    BY <1>4, <2>1
  <2> QED
    BY <1>5, <2>1, <2>2, <2>3, <2>4
<1>7. PICK m \in (0..LastYear) \X (1..Months) :
        /\ DayOne[m[1]][m[2]] <= day /\ day < DayOne[m[1]][m[2]] + DaysIn(m[1], m[2])
        /\ civil(u) = at(m[1], m[2], day - DayOne[m[1]][m[2]] + 1,
                         (u \div (Hour * Minute)) % Day, (u \div Minute) % Hour)
  <2> DEFINE m == CHOOSE x \in (0..LastYear) \X (1..Months) :
                    DayOne[x[1]][x[2]] <= day /\ day < DayOne[x[1]][x[2]] + DaysIn(x[1], x[2])
  <2>1. /\ m \in (0..LastYear) \X (1..Months)
        /\ DayOne[m[1]][m[2]] <= day /\ day < DayOne[m[1]][m[2]] + DaysIn(m[1], m[2])
    <3>1. \E x \in (0..LastYear) \X (1..Months) :
            DayOne[x[1]][x[2]] <= day /\ day < DayOne[x[1]][x[2]] + DaysIn(x[1], x[2])
      BY <1>5, <1>6, MonthOfDay
    <3> QED
      BY Zenon, <3>1
  <2>2. civil(u) = at(m[1], m[2], day - DayOne[m[1]][m[2]] + 1,
                      (u \div (Hour * Minute)) % Day, (u \div Minute) % Hour)
    BY Zenon, <1>3 DEF civil
  <2> QED
    BY Zenon, <2>1, <2>2
<1>8. PICK y \in 0..LastYear, mo \in 1..Months : y = m[1] /\ mo = m[2]
  BY <1>7
<1>9. PICK q1, mi : q1 = u \div Minute /\ mi = q1 % Hour
  OBVIOUS
<1>10. PICK q2, h : q2 = q1 \div Hour /\ h = q2 % Day
  OBVIOUS
<1>11. q1 \in Int /\ u % Minute \in 0..(Minute - 1) /\ u = q1 * Minute + (u % Minute)
  BY <1>1, <1>9, Division
<1>12. q2 \in Int /\ mi \in 0..(Hour - 1) /\ q1 = q2 * Hour + mi
  BY <1>1, <1>9, <1>10, <1>11, Division
<1>13. h \in 0..(Day - 1) /\ q2 = (q2 \div Day) * Day + h
  BY <1>1, <1>10, <1>12, Division
<1>14. q2 = u \div (Hour * Minute) /\ q2 \div Day = day
  <2>1. Minute * Hour = Hour * Minute /\ Hour * Minute \in Nat \ {0} /\ (Hour * Minute) * Day = D
    <3>1. Minute * Hour = Hour * Minute
      BY <1>1
    <3>2. (Hour * Minute) * Day = (Day * Hour) * Minute
      BY <1>1
    <3>3. \A a, b \in Nat \ {0} : a * b \in Nat \ {0}
      OBVIOUS
    <3> QED
      BY <1>1, <1>4, <3>1, <3>2, <3>3
  <2>2. u \div (Minute * Hour) = (u \div Minute) \div Hour
    BY <1>1, Twice
  <2>3. q2 = u \div (Hour * Minute)
    BY <1>9, <1>10, <2>1, <2>2
  <2>4. u \div ((Hour * Minute) * Day) = (u \div (Hour * Minute)) \div Day
    BY <1>1, <2>1, Twice
  <2> QED
    BY <1>3, <2>1, <2>3, <2>4
<1>15. PICK c : c = civil(u)
  OBVIOUS
<1>16. c = at(y, mo, day - DayOne[y][mo] + 1, h, mi)
  BY <1>7, <1>8, <1>9, <1>10, <1>14, <1>15
<1>17. DayOne[y][mo] \in Int /\ DayOne[y][mo] <= day /\ day < DayOne[y][mo] + DaysIn(y, mo)
       /\ DaysIn(y, mo) \in Nat
  <2>1. y \in 0..(LastYear + 1)
    BY <1>1
  <2> QED
    BY <1>7, <1>8, <2>1, MonthsFollow
<1>18. /\ c \in Civil /\ c.y = y /\ c.mo = mo /\ c.d = day - DayOne[y][mo] + 1 /\ c.h = h /\ c.mi = mi
  BY <1>1, <1>5, <1>12, <1>13, <1>16, <1>17 DEF at, Civil
<1>19. c \in Dates /\ dayOf(c) = day
  BY <1>1, <1>5, <1>17, <1>18 DEF Dates, dayOf, dayNumber
<1>20. pos(c) = q1
  BY <1>12, <1>13, <1>14, <1>18, <1>19 DEF pos
<1>21. unix(c) = q1 * Minute
  BY <1>18, <1>20, UnixIs
<1>22. q1 * Minute \in Int
  BY <1>1, <1>11
<1>23. unix(c) <= u /\ u < unix(c) + Minute
  BY <1>1, <1>11, <1>21, <1>22
<1> QED
  BY <1>3, <1>15, <1>19, <1>23

-----------------------------------------------------------------------------
(* The next occurrence.                                                    *)

\* The occurrences of the matches that lie ahead.
TimesAhead(s, zone, c, maxYear) == {resolve(m, zone) : m \in Ahead(s, c, maxYear)}

\* One step of Next, which goes on with g.
TryStep(g, s, zone, after, c, maxYear) ==
  LET found == next(s, c, maxYear)
      t == resolve(found, zone)
  IN IF found = Never THEN Never
     ELSE IF t > searchLimit(after) THEN Never
     ELSE IF t > after THEN t
     ELSE g[addMinute(found)]

\* So is Next.
LEMMA NextSteps ==
  ASSUME NEW s, NEW zone, NEW after
  PROVE  LET w == civil(wall(after, zone))
         IN Next(s, zone, after) =
              (CHOOSE g : g = [x \in Civil |-> TryStep(g, s, zone, after, x, w.y + SearchYears + 1)])[w]
BY Zenon DEF Next, TryStep

\* The least of a set is what Min returns.
LEMMA LeastIsMin ==
  ASSUME NEW T \in SUBSET Int, NEW x \in T, \A y \in T : x <= y
  PROVE  Min(T) = x
<1>1. \A z \in T : (\A y \in T : z <= y) => z = x
  OBVIOUS
<1> QED
  BY <1>1 DEF Min

\* Of the matches ahead one is the first.
LEMMA FirstIs ==
  ASSUME Calendar, NEW s, NEW maxYear, NEW c \in Civil, Ahead(s, c, maxYear) # {}
  PROVE  LET x == First(Ahead(s, c, maxYear))
         IN x \in Ahead(s, c, maxYear) /\ x \in Dates /\ \A m \in Ahead(s, c, maxYear) : pos(x) <= pos(m)
<1> DEFINE A == Ahead(s, c, maxYear)
           low == pos(floor(c))
           rk == [m \in A |-> pos(m) - low]
<1>1. A \subseteq Dates /\ A \subseteq Civil /\ \A m \in A : low <= pos(m)
  BY DEF Ahead, Matching, Dates
<1>2. low \in Int /\ \A m \in A : pos(m) \in Int
  <2>1. floor(c) \in Civil
    BY Floor
  <2> QED
    BY <1>1, <2>1, Ordered
<1> HIDE DEF A, low
<1>3. rk \in [A -> Nat]
  BY <1>1, <1>2
<1>4. PICK x \in A : \A m \in A : rk[x] <= rk[m]
  <2>1. A # {}
    BY DEF A
  <2> HIDE DEF rk
  <2> QED
    BY <1>3, <2>1, LeastRank
<1>5. \A m \in A : pos(x) <= pos(m)
  BY <1>2, <1>4
<1>6. First(A) \in A /\ \A m \in A : pos(First(A)) <= pos(m)
  BY <1>4, <1>5 DEF First
<1> QED
  BY <1>1, <1>6 DEF A

\* Dates lie before the horizon, so their occurrences are resolved.
LEMMA DatesResolve ==
  ASSUME Calendar, NEW zone, Zone(zone), NEW m \in Dates
  PROVE  /\ m \in Civil /\ unix(m) \in Int /\ unix(m) < Horizon /\ resolve(m, zone) \in Int
         /\ resolve(m, zone) < zone[Len(zone)].until
         /\ wall(resolve(m, zone), zone) >= unix(m) /\ wall(resolve(m, zone), zone) \in Int
         /\ unix(m) - DaySeconds <= resolve(m, zone)
         /\ \A t \in Int : t < resolve(m, zone) => wall(t, zone) < unix(m)
<1>1. /\ m \in Civil /\ m.d <= DaysIn(m.y, m.mo) /\ m.y \in 0..(LastYear + 1) /\ m.y <= LastYear
      /\ m.mo \in 1..Months /\ LastYear \in Nat /\ LastYear + 1 \in 0..(LastYear + 1) /\ 1 \in 1..Months
      /\ Minute \in Nat \ {0}
  <2>1. m \in Civil /\ m.y <= LastYear /\ m.d <= DaysIn(m.y, m.mo)
    BY DEF Dates
  <2>2. /\ LastYear \in Nat /\ LastYear + 1 \in 0..(LastYear + 1) /\ 1 \in 1..Months
        /\ Minute \in Nat \ {0}
    BY DEF Calendar
  <2>3. m.y \in 0..(LastYear + 1) /\ m.mo \in 1..Months
    BY <2>1 DEF Civil
  <2> QED
    BY <2>1, <2>2, <2>3
<1>2. unix(m) \in Int /\ dayOf(m) \in Int
  BY <1>1, UnixIs, Ordered
<1>3. PICK a, b, D : a = dayOf(m) /\ b = DayOne[LastYear + 1][1] /\ D = DaySeconds
  OBVIOUS
<1>4. D \in Nat \ {0} /\ b \in Int /\ a \in Int
  BY <1>1, <1>2, <1>3, ZoneTypes, MonthsFollow
<1>5. a < b
  <2>1. dayOf(m) < nextMonth(m.y, m.mo)
    BY <1>1, Located
  <2>2. nextMonth(m.y, m.mo) <= DayOne[LastYear + 1][1] /\ nextMonth(m.y, m.mo) \in Int
    BY <1>1, MonthsFollow
  <2> QED
    BY <1>3, <1>4, <2>1, <2>2
<1>6. a * D + D <= b * D
  <2>1. (b - a - 1) * D >= 0 /\ (b - a - 1) * D = b * D - a * D - D
    BY <1>4, <1>5
  <2>2. a * D \in Int /\ b * D \in Int
    BY <1>4
  <2> QED
    BY <1>4, <2>1, <2>2
<1>7. unix(m) < Horizon
  <2>1. unix(m) + Minute <= a * D + D
    BY <1>1, <1>3, UnixIs
  <2>2. Horizon = b * D /\ a * D \in Int /\ b * D \in Int
    BY <1>3, <1>4 DEF Horizon
  <2> QED
    BY <1>1, <1>2, <1>4, <1>6, <2>1, <2>2
<1>8. /\ resolve(m, zone) \in Int /\ resolve(m, zone) < zone[Len(zone)].until
      /\ wall(resolve(m, zone), zone) >= unix(m)
      /\ \A t \in Int : t < resolve(m, zone) => wall(t, zone) < unix(m)
  BY <1>2, <1>7, ResolvesToEarliest
<1>9. /\ wall(resolve(m, zone), zone) \in Int
      /\ wall(resolve(m, zone), zone) <= resolve(m, zone) + DaySeconds
  BY <1>8, PeriodIs
<1>10. unix(m) - DaySeconds <= resolve(m, zone)
  BY <1>2, <1>3, <1>4, <1>8, <1>9
<1> QED
  BY <1>1, <1>2, <1>7, <1>8, <1>9, <1>10

\* Occurrences come in the order of the minutes they are for.
LEMMA ResolveKeepsOrder ==
  ASSUME Calendar, NEW zone, Zone(zone), NEW m \in Dates, NEW n \in Dates, pos(m) <= pos(n)
  PROVE  resolve(m, zone) <= resolve(n, zone)
<1>1. /\ unix(m) \in Int /\ unix(n) \in Int /\ resolve(m, zone) \in Int /\ resolve(n, zone) \in Int
      /\ wall(resolve(n, zone), zone) >= unix(n) /\ wall(resolve(n, zone), zone) \in Int
      /\ \A t \in Int : t < resolve(m, zone) => wall(t, zone) < unix(m)
  BY DatesResolve
<1>2. unix(m) <= unix(n)
  <2>1. /\ m \in Civil /\ n \in Civil /\ Minute \in Nat \ {0}
    BY DEF Dates, Calendar
  <2>2. pos(m) \in Int /\ pos(n) \in Int /\ unix(m) = pos(m) * Minute /\ unix(n) = pos(n) * Minute
    BY <2>1, Ordered, UnixIs
  <2>3. (pos(n) - pos(m)) * Minute >= 0 /\ (pos(n) - pos(m)) * Minute = pos(n) * Minute - pos(m) * Minute
    BY <2>1, <2>2
  <2> QED
    BY <1>1, <2>2, <2>3
<1> QED
  BY <1>1, <1>2

\* addMinute goes on behind a minute, before all later ones.
LEMMA MinuteAhead ==
  ASSUME Calendar, NEW c \in Dates
  PROVE  LET e == addMinute(c)
         IN /\ e \in Civil /\ floor(e) = e /\ pos(c) < pos(e)
            /\ \A m \in Dates : pos(c) < pos(m) => pos(e) <= pos(m)
<1>1. c \in Civil /\ c.d <= DaysIn(c.y, c.mo) /\ c.y <= LastYear
  BY DEF Dates
<1>2. /\ c.y \in 0..(LastYear + 1) /\ c.mo \in 1..Months /\ c.d \in Nat \ {0}
      /\ c.h \in 0..(Day - 1) /\ c.mi \in 0..(Hour - 1)
  BY <1>1 DEF Civil
<1>3. Day \in Nat \ {0} /\ Hour \in Nat \ {0} /\ LastYear \in Nat
  BY DEF Calendar
<1>4. PICK e : e = addMinute(c)
  OBVIOUS
<1>5. dayOf(c) \in Int /\ pos(c) \in Int
  BY <1>1, Ordered
<1>6. \A m \in Dates : /\ m \in Civil /\ m.h \in 0..(Day - 1) /\ m.mi \in 0..(Hour - 1)
                       /\ dayOf(m) \in Int /\ pos(m) \in Int
                       /\ pos(c) < pos(m) => \/ dayOf(c) < dayOf(m)
                                             \/ dayOf(c) = dayOf(m) /\ c.h < m.h
                                             \/ dayOf(c) = dayOf(m) /\ c.h = m.h /\ c.mi < m.mi
  <2> SUFFICES ASSUME NEW m \in Dates
               PROVE  /\ m \in Civil /\ m.h \in 0..(Day - 1) /\ m.mi \in 0..(Hour - 1)
                      /\ dayOf(m) \in Int /\ pos(m) \in Int
                      /\ pos(c) < pos(m) => \/ dayOf(c) < dayOf(m)
                                            \/ dayOf(c) = dayOf(m) /\ c.h < m.h
                                            \/ dayOf(c) = dayOf(m) /\ c.h = m.h /\ c.mi < m.mi
    OBVIOUS
  <2>1. m \in Civil /\ m.h \in 0..(Day - 1) /\ m.mi \in 0..(Hour - 1)
    BY DEF Dates, Civil
  <2>2. dayOf(m) \in Int /\ pos(m) \in Int
    BY <2>1, Ordered
  <2>3. /\ pos(c) <= pos(m) <=> \/ dayOf(c) < dayOf(m)
                                \/ dayOf(c) = dayOf(m) /\ c.h < m.h
                                \/ dayOf(c) = dayOf(m) /\ c.h = m.h /\ c.mi <= m.mi
        /\ pos(m) <= pos(c) <=> \/ dayOf(m) < dayOf(c)
                                \/ dayOf(m) = dayOf(c) /\ m.h < c.h
                                \/ dayOf(m) = dayOf(c) /\ m.h = c.h /\ m.mi <= c.mi
    BY <1>1, <2>1, Ordered
  <2> QED
    BY <1>2, <1>5, <2>1, <2>2, <2>3
<1>7. CASE c.mi + 1 < Hour
  <2>1. e = at(c.y, c.mo, c.d, c.h, c.mi + 1)
    BY <1>4, <1>7 DEF addMinute
  <2>2. /\ e \in Civil /\ e.y = c.y /\ e.mo = c.mo /\ e.d = c.d /\ e.h = c.h /\ e.mi = c.mi + 1
        /\ dayOf(e) = dayOf(c)
    BY <1>2, <1>3, <1>7, <2>1 DEF at, Civil, dayOf
  <2>3. floor(e) = e /\ pos(e) \in Int
    BY <1>1, <2>2, Floor, Ordered
  <2>4. pos(c) < pos(e)
    BY <1>1, <1>2, <1>5, <2>2, <2>3, Ordered
  <2>5. ASSUME NEW m \in Dates, pos(c) < pos(m) PROVE pos(e) <= pos(m)
    BY <1>2, <1>5, <1>6, <2>2, <2>5, Ordered
  <2> QED
    BY <1>4, <2>2, <2>3, <2>4, <2>5
<1>8. CASE ~(c.mi + 1 < Hour) /\ c.h + 1 < Day
  <2>1. e = at(c.y, c.mo, c.d, c.h + 1, 0)
    BY <1>4, <1>8 DEF addMinute
  <2>2. c.h \in Nat /\ c.h <= c.h
    BY <1>2
  <2>3. /\ e \in Civil /\ floor(e) = e /\ rank(e) < rank(c) /\ pos(c) <= pos(e)
        /\ \A m \in Dates : dayOf(c) < dayOf(m) \/ (dayOf(c) = dayOf(m) /\ c.h < m.h)
                            => pos(e) <= pos(m)
    BY <1>1, <1>8, <2>1, <2>2, HourAhead
  <2>4. /\ e.h = c.h + 1 /\ e.mi = 0 /\ dayOf(e) = dayOf(c)
    BY <2>1 DEF at, dayOf
  <2>5. pos(c) < pos(e)
    BY <1>1, <1>2, <1>5, <2>3, <2>4, Ordered
  <2>6. ASSUME NEW m \in Dates, pos(c) < pos(m) PROVE pos(e) <= pos(m)
    BY <1>2, <1>3, <1>6, <1>8, <2>3, <2>6
  <2> QED
    BY <1>4, <2>3, <2>5, <2>6
<1>9. CASE ~(c.mi + 1 < Hour) /\ ~(c.h + 1 < Day)
  <2>1. e = at(c.y, c.mo, c.d + 1, 0, 0)
    BY <1>4, <1>9 DEF addMinute
  <2>2. /\ e \in Civil /\ floor(e) = e /\ rank(e) < rank(c) /\ pos(c) <= pos(e)
        /\ \A m \in Dates : dayOf(c) < dayOf(m) => pos(e) <= pos(m)
    BY <1>1, <2>1, DayAhead
  <2>3. /\ e.h = 0 /\ e.mi = 0 /\ dayOf(e) = dayOf(c) + 1
    <3>1. DayOne[c.y][c.mo] \in Int
      BY <1>2, MonthsFollow
    <3> QED
      BY <1>2, <2>1, <3>1 DEF at, dayOf, dayNumber
  <2>4. pos(c) < pos(e)
    BY <1>1, <1>2, <1>5, <2>2, <2>3, Ordered
  <2>5. ASSUME NEW m \in Dates, pos(c) < pos(m) PROVE pos(e) <= pos(m)
    BY <1>2, <1>3, <1>6, <1>9, <2>2, <2>5
  <2> QED
    BY <1>4, <2>2, <2>4, <2>5
<1> QED
  BY <1>7, <1>8, <1>9

\* Each step of Next has found the first occurrence after the instant, or that there is none
\* in time, or goes on where the same ones lie ahead.
LEMMA TrySteps ==
  ASSUME Calendar, NEW s, Expression(s), NEW zone, Zone(zone), NEW maxYear \in 0..LastYear,
         NEW after \in Int, searchLimit(after) \in Int, NEW c \in Civil, NEW g
  PROVE  \/ TryStep(g, s, zone, after, c, maxYear) = FirstAfter(TimesAhead(s, zone, c, maxYear), after)
         \/ \E e \in Civil :
              /\ rank(e) < rank(c) /\ TryStep(g, s, zone, after, c, maxYear) = g[e]
              /\ FirstAfter(TimesAhead(s, zone, e, maxYear), after)
                   = FirstAfter(TimesAhead(s, zone, c, maxYear), after)
<1> DEFINE A == Ahead(s, c, maxYear)
           T == TimesAhead(s, zone, c, maxYear)
           limit == searchLimit(after)
           later(X) == {t \in X : after < t /\ t <= limit}
<1>1. /\ A \subseteq Dates /\ T \subseteq Int /\ \A m \in A : resolve(m, zone) \in T
      /\ \A t \in T : \E m \in A : t = resolve(m, zone)
  <2>1. A \subseteq Dates
    BY DEF Ahead, Matching
  <2>2. \A m \in A : resolve(m, zone) \in Int
    BY <2>1, DatesResolve
  <2> QED
    BY <2>1, <2>2 DEF TimesAhead
<1>2. \A X : FirstAfter(X, after) = IF later(X) = {} THEN Never ELSE Min(later(X))
  BY DEF FirstAfter
<1>3. limit \in Int
  OBVIOUS
<1> HIDE DEF limit
<1>4. CASE A = {}
  <2>1. next(s, c, maxYear) = Never
    BY <1>4, SearchFindsFirst DEF Found
  <2>2. TryStep(g, s, zone, after, c, maxYear) = Never
    BY <2>1 DEF TryStep
  <2>3. later(T) = {}
    BY <1>1, <1>4
  <2> QED
    BY <1>2, <2>2, <2>3
<1>5. CASE A # {}
  <2>1. PICK x : x = First(A)
    OBVIOUS
  <2>2. /\ x \in A /\ x \in Dates /\ \A m \in A : pos(x) <= pos(m)
    BY <1>5, <2>1, FirstIs
  <2>3. next(s, c, maxYear) = x /\ x # Never
    <3>1. next(s, c, maxYear) = x
      BY <1>5, <2>1, SearchFindsFirst DEF Found
    <3>2. x \in Civil
      BY <2>2 DEF Dates
    <3> QED
      BY <3>1, <3>2 DEF Calendar
  <2>4. PICK t : t = resolve(x, zone)
    OBVIOUS
  <2>5. t \in T /\ t \in Int /\ \A r \in T : t <= r
    <3>1. t \in T /\ t \in Int
      BY <1>1, <2>2, <2>4
    <3>2. \A m \in A : t <= resolve(m, zone)
      BY <1>1, <2>2, <2>4, ResolveKeepsOrder
    <3> QED
      BY <1>1, <3>1, <3>2
  <2>6. TryStep(g, s, zone, after, c, maxYear) =
          IF t > limit THEN Never ELSE IF t > after THEN t ELSE g[addMinute(x)]
    BY <2>3, <2>4 DEF TryStep, limit
  <2> HIDE DEF T, A
  <2>7. CASE t > limit
    <3>1. \A r \in T : r \in Int /\ t <= r
      BY <1>1, <2>5
    <3>2. \A r \in T : ~(r <= limit)
      BY <1>3, <2>5, <2>7, <3>1
    <3>3. later(T) = {}
      BY <3>2
    <3> QED
      BY <1>2, <2>6, <2>7, <3>3 DEF T
  <2>8. CASE ~(t > limit) /\ t > after
    <3>1. later(T) \subseteq Int /\ t \in later(T) /\ \A r \in later(T) : t <= r
      <4>1. T \subseteq Int /\ \A r \in T : t <= r
        BY <1>1, <2>5
      <4>2. after < t /\ t <= limit
        BY <1>3, <2>5, <2>8
      <4> QED
        BY <2>5, <4>1, <4>2
    <3>2. Min(later(T)) = t
      <4> HIDE DEF later
      <4> QED
        BY <3>1, LeastIsMin
    <3>3. later(T) # {}
      BY <3>1
    <3> QED
      BY <1>2, <2>6, <2>8, <3>2, <3>3 DEF T
  <2>9. CASE ~(t > limit) /\ ~(t > after)
    <3>1. PICK e : e = addMinute(x)
      OBVIOUS
    <3>2. /\ e \in Civil /\ floor(e) = e /\ pos(x) < pos(e)
          /\ \A m \in Dates : pos(x) < pos(m) => pos(e) <= pos(m)
      BY <2>2, <3>1, MinuteAhead
    <3>3. x \in Civil /\ pos(floor(c)) <= pos(x) /\ floor(c) \in Civil
      BY <2>2, Floor DEF A, Ahead, Dates
    <3>4. pos(x) \in Int /\ pos(e) \in Int /\ pos(floor(c)) \in Int
      BY <3>2, <3>3, Ordered
    <3>5. rank(e) < rank(c)
      BY <3>2, <3>3, <3>4, LaterIsLess
    <3>6. PICK E, U : E = Ahead(s, e, maxYear) /\ U = TimesAhead(s, zone, e, maxYear)
      OBVIOUS
    <3>7. \A m \in A : m \in E \/ pos(m) = pos(x)
      <4>1. \A m \in A : m \in Dates /\ m \in Civil /\ m \in Matching(s, Dates) /\ m.y <= maxYear
        BY DEF A, Ahead, Matching, Dates
      <4>2. \A m \in A : pos(m) \in Int
        BY <4>1, Ordered
      <4>3. \A m \in A : pos(x) = pos(m) \/ pos(e) <= pos(m)
        BY <2>2, <3>2, <3>4, <4>1, <4>2
      <4> QED
        BY <3>2, <3>6, <4>1, <4>3 DEF Ahead
    <3>8. E \subseteq A
      <4>1. \A m \in E : /\ m \in Civil /\ m \in Matching(s, Dates) /\ m.y <= maxYear /\ pos(e) <= pos(m)
        BY <3>2, <3>6 DEF Ahead, Matching, Dates
      <4>2. \A m \in E : pos(m) \in Int
        BY <4>1, Ordered
      <4>3. \A m \in E : pos(floor(c)) <= pos(m)
        BY <3>2, <3>3, <3>4, <4>1, <4>2
      <4> QED
        BY <4>1, <4>3 DEF A, Ahead
    <3>9. U \subseteq T /\ \A r \in T : r \in U \/ r = t
      <4>1. U = {resolve(m, zone) : m \in E} /\ T = {resolve(m, zone) : m \in A}
        BY <3>6 DEF TimesAhead, T, A
      <4>2. \A m \in A : pos(m) = pos(x) => resolve(m, zone) = t
        BY <1>1, <2>2, <2>4, SameMinute
      <4> QED
        BY <3>7, <3>8, <4>1, <4>2
    <3>10. later(U) = later(T)
      BY <1>1, <2>5, <2>9, <3>9
    <3>11. FirstAfter(U, after) = FirstAfter(T, after)
      <4> HIDE DEF later
      <4> QED
        BY <1>2, <3>10
    <3> QED
      BY <2>6, <2>9, <3>1, <3>2, <3>5, <3>6, <3>11 DEF T
  <2> QED
    BY <1>1, <1>3, <2>5, <2>7, <2>8, <2>9
<1> QED
  BY <1>4, <1>5

\* Next returns the first occurrence after the instant among the matches ahead of its reading.
LEMMA NextOfAhead ==
  ASSUME Calendar, NEW s, Expression(s), NEW zone, Zone(zone), NEW after \in Int,
         searchLimit(after) \in Int, civil(wall(after, zone)) \in Civil,
         civil(wall(after, zone)).y + SearchYears + 1 <= LastYear
  PROVE  LET w == civil(wall(after, zone))
         IN Next(s, zone, after) = FirstAfter(TimesAhead(s, zone, w, w.y + SearchYears + 1), after)
<1>1. PICK w, maxYear : w = civil(wall(after, zone)) /\ maxYear = w.y + SearchYears + 1
  OBVIOUS
<1>2. w \in Civil /\ maxYear \in 0..LastYear
  <2>1. w.y \in 0..(LastYear + 1) /\ LastYear \in Nat /\ SearchYears \in Nat
    BY <1>1 DEF Civil, Calendar
  <2> QED
    BY <1>1, <2>1
<1> DEFINE Answer(x) == FirstAfter(TimesAhead(s, zone, x, maxYear), after)
           G == [x \in Civil |-> Answer(x)]
           try == CHOOSE g : g = [x \in Civil |-> TryStep(g, s, zone, after, x, maxYear)]
<1>3. \A g : \A x \in Civil :
         \/ TryStep(g, s, zone, after, x, maxYear) = Answer(x)
         \/ \E e \in Civil : /\ rank(e) < rank(x) /\ TryStep(g, s, zone, after, x, maxYear) = g[e]
                             /\ Answer(e) = Answer(x)
  BY <1>2, TrySteps
<1> HIDE DEF Answer
<1>4. G = [x \in Civil |-> TryStep(G, s, zone, after, x, maxYear)]
  <2>1. ASSUME NEW x \in Civil PROVE G[x] = TryStep(G, s, zone, after, x, maxYear)
    <3>1. G[x] = Answer(x) /\ \A e \in Civil : G[e] = Answer(e)
      OBVIOUS
    <3> HIDE DEF G
    <3> QED
      BY <1>3, <3>1
  <2> QED
    BY <2>1
<1>5. try = [x \in Civil |-> TryStep(try, s, zone, after, x, maxYear)]
  <2> HIDE DEF G
  <2> QED
    BY <1>4
<1>6. Next(s, zone, after) = try[w]
  BY Zenon, <1>1, NextSteps
<1> HIDE DEF try
<1> DEFINE Bad == {x \in Civil : try[x] # Answer(x)}
           ranks == [x \in Civil |-> rank(x)]
<1>7. Bad = {}
  <2> SUFFICES ASSUME Bad # {} PROVE FALSE
    OBVIOUS
  <2>1. ranks \in [Civil -> Nat]
    BY RankType
  <2>2. PICK x \in Bad : \A y \in Bad : ranks[x] <= ranks[y]
    <3> HIDE DEF ranks
    <3> QED
      BY <2>1, LeastRank
  <2>3. x \in Civil /\ try[x] # Answer(x) /\ try[x] = TryStep(try, s, zone, after, x, maxYear)
    BY <1>5
  <2>4. PICK e \in Civil : rank(e) < rank(x) /\ try[x] = try[e] /\ Answer(e) = Answer(x)
    BY <1>3, <2>3
  <2>5. e \in Bad /\ rank(e) \in Nat /\ rank(x) \in Nat
    BY <2>3, <2>4, RankType
  <2> QED
    BY <2>2, <2>3, <2>4, <2>5
<1>8. Next(s, zone, after) = Answer(w)
  BY <1>2, <1>6, <1>7
<1> QED
  BY <1>1, <1>8 DEF Answer

\* A year before another has a year after it.
LEMMA YearBelow ==
  ASSUME NEW L \in Nat, NEW x \in 0..(L + 1), NEW y \in 0..(L + 1), x < y
  PROVE  x \in 0..L /\ x + 1 \in 0..(L + 1)
OBVIOUS

\* Days that are two days apart begin two lengths of a day apart.
LEMMA DaysApart ==
  ASSUME NEW D \in Nat \ {0}, NEW a \in Int, NEW b \in Int, a + 2 <= b
  PROVE  a * D \in Int /\ b * D \in Int /\ a * D + D + D <= b * D
<1>1. PICK k \in Nat : k = b - a - 2
  OBVIOUS
<1>2. k * D \in Nat
  OBVIOUS
<1>3. b * D = a * D + 2 * D + k * D
  <2>1. b = a + 2 + k
    BY <1>1
  <2> QED
    BY <2>1
<1> QED
  BY <1>2, <1>3

\* The same date some years later lies two days or more before the years that are not searched,
\* though wall clocks differ from the calendar by up to a day.
LEMMA YearsLater ==
  ASSUME Calendar, NEW c \in Dates, NEW w \in Dates, dayOf(c) <= dayOf(w) + 1,
         w.y + SearchYears + 1 <= LastYear, NEW y \in 0..LastYear, y > w.y + SearchYears + 1
  PROVE  LET e == [c EXCEPT !.y = @ + SearchYears]
         IN e \in Civil /\ dayOf(e) + 2 <= DayOne[y][1]
<1>1. /\ c \in Civil /\ w \in Civil /\ c.d <= DaysIn(c.y, c.mo) /\ w.d <= DaysIn(w.y, w.mo)
  BY DEF Dates
<1>2. /\ c.y \in 0..(LastYear + 1) /\ c.mo \in 1..Months /\ c.d \in Nat \ {0}
      /\ c.h \in 0..(Day - 1) /\ c.mi \in 0..(Hour - 1)
      /\ w.y \in 0..(LastYear + 1) /\ w.mo \in 1..Months
  BY <1>1 DEF Civil
<1>3. /\ LastYear \in Nat /\ SearchYears \in Nat /\ 1 \in 1..Months /\ Months \in Nat
      /\ Day \in Nat \ {0} /\ Hour \in Nat \ {0}
  BY DEF Calendar
<1>4. \A x \in 0..(LastYear + 1) : DayOne[x][1] \in Int /\ DayOne[x + 1][1] \in Int
                                   /\ DayOne[x][1] + 2 <= DayOne[x + 1][1]
  <2>1. \A x \in 0..(LastYear + 1) : DayOne[x][1] \in Int /\ DayOne[x + 1][1] \in Int
    BY <1>3, MonthsFollow
  <2> QED
    BY <2>1 DEF Calendar
<1>5. /\ dayOf(c) \in Int /\ dayOf(w) \in Int
      /\ DayOne[c.y][c.mo] <= dayOf(c) /\ dayOf(c) < nextMonth(c.y, c.mo)
      /\ dayOf(w) < nextMonth(w.y, w.mo)
  BY <1>1, <1>2, Ordered, Located
<1>6. /\ nextMonth(w.y, w.mo) <= DayOne[w.y + 1][1] /\ nextMonth(w.y, w.mo) \in Int
      /\ DayOne[w.y + 1][1] \in Int
  BY <1>2, MonthsFollow
<1>7. dayOf(w) + 1 <= DayOne[w.y + 1][1]
  BY <1>5, <1>6
<1>8. c.y <= w.y \/ (c.y = w.y + 1 /\ c.mo = 1 /\ c.d = 1)
  <2> SUFFICES ASSUME w.y < c.y PROVE c.y = w.y + 1 /\ c.mo = 1 /\ c.d = 1
    BY <1>2
  <2>1. w.y + 1 \in 0..(LastYear + 1)
    BY <1>2, <1>3, YearBelow
  <2>2. DayOne[w.y + 1][1] \in Int /\ DaysIn(w.y + 1, 1) \in Nat \ {0}
    BY <1>3, <2>1, MonthsFollow
  <2>3. PICK r : r = at(w.y + 1, 1, 1, 0, 0)
    OBVIOUS
  <2>4. /\ r \in Civil /\ r.d <= DaysIn(r.y, r.mo) /\ r.y = w.y + 1 /\ r.mo = 1 /\ r.d = 1
        /\ dayOf(r) = DayOne[w.y + 1][1]
    BY <1>3, <2>1, <2>2, <2>3 DEF at, Civil, dayOf, dayNumber
  <2>5. DayOne[w.y + 1][1] <= DayOne[c.y][c.mo]
    BY <1>2, <1>3, MonthsFollow
  <2>6. DayOne[c.y][c.mo] \in Int
    BY <1>2, MonthsFollow
  <2>7. dayOf(c) = dayOf(r)
    BY <1>5, <1>7, <2>2, <2>4, <2>5, <2>6
  <2> QED
    BY <1>1, <2>4, <2>7, SameDay
<1>9. PICK z \in 0..(LastYear + 1) : z = c.y + SearchYears
  BY <1>2, <1>3, <1>8
<1>10. PICK e : e = [c EXCEPT !.y = @ + SearchYears]
  OBVIOUS
<1>11. e \in Civil /\ e.y = z /\ e.mo = c.mo /\ e.d = c.d
  <2>1. c \in [y : 0..(LastYear + 1), mo : 1..Months, d : Nat \ {0}, h : 0..(Day - 1), mi : 0..(Hour - 1)]
    BY <1>1 DEF Civil
  <2>2. e = [c EXCEPT !.y = z]
    BY <1>9, <1>10
  <2> QED
    BY <1>9, <2>1, <2>2 DEF Civil
<1>12. dayOf(e) = DayOne[z][c.mo] + c.d - 1
  BY <1>11 DEF dayOf, dayNumber
<1>13. DayOne[z][c.mo] \in Int /\ DaysIn(z, c.mo) \in Nat /\ DaysIn(c.y, c.mo) \in Nat
  BY <1>2, <1>9, MonthsFollow
<1>14. z < y /\ z + 1 \in 0..(LastYear + 1)
  BY <1>2, <1>3, <1>8, <1>9
<1>15. DayOne[z + 1][1] <= DayOne[y][1] /\ DayOne[y][1] \in Int /\ y \in 0..(LastYear + 1)
  <2>1. y \in 0..(LastYear + 1)
    BY <1>3
  <2> QED
    BY <1>3, <1>14, <2>1, MonthsFollow
<1>16. CASE c.y <= w.y
  <2>1. z + 1 < y
    BY <1>2, <1>3, <1>9, <1>16
  <2>2. DayOne[z + 2][1] <= DayOne[y][1]
    <3>1. DayOne[(z + 1) + 1][1] <= DayOne[y][1]
      BY <1>3, <1>14, <1>15, <2>1, MonthsFollow
    <3>2. (z + 1) + 1 = z + 2
      BY <1>9
    <3> QED
      BY <3>1, <3>2
  <2>3. DayOne[z + 1][1] \in Int /\ DayOne[z + 1][1] + 2 <= DayOne[z + 2][1] /\ DayOne[z + 2][1] \in Int
    <3>1. (z + 1) + 1 = z + 2
      BY <1>9
    <3> QED
      BY <1>4, <1>14, <3>1
  <2>4. c.d <= DaysIn(z, c.mo) + 1
    <3>1. DaysIn(c.y, c.mo) <= DaysIn(z, c.mo) + 1
      BY <1>2, <1>9 DEF Calendar
    <3> QED
      BY <1>1, <1>2, <1>13, <3>1
  <2>5. DayOne[z][c.mo] + DaysIn(z, c.mo) <= DayOne[z + 1][1]
    BY <1>2, <1>9, MonthsFollow DEF nextMonth
  <2>6. dayOf(e) + 2 <= DayOne[y][1]
    BY <1>2, <1>12, <1>13, <1>15, <2>2, <2>3, <2>4, <2>5
  <2> QED
    BY <1>10, <1>11, <2>6
<1>17. CASE c.y = w.y + 1 /\ c.mo = 1 /\ c.d = 1
  <2>1. DayOne[z][1] + 2 <= DayOne[z + 1][1] /\ DayOne[z][1] \in Int /\ DayOne[z + 1][1] \in Int
    BY <1>4, <1>9
  <2>2. dayOf(e) + 2 <= DayOne[y][1]
    BY <1>12, <1>15, <1>17, <2>1
  <2> QED
    BY <1>10, <1>11, <2>2
<1> QED
  BY <1>8, <1>16, <1>17

\* Next is the first occurrence after an instant, up to the same date and time some years
\* later, in every calendar and zone, whose clocks may go forward and back.
THEOREM NextIsFirstAfter ==
  ASSUME Calendar, NEW s, Expression(s), NEW zone, Zone(zone), NEW after \in Int,
         Within(after), Within(wall(after, zone)),
         civil(wall(after, zone)).y + SearchYears + 1 <= LastYear
  PROVE  /\ Next(s, zone, after) = FirstAfter(Occurrences(s, zone), after)
         /\ searchLimit(after) \in Int
<1> DEFINE limit == searchLimit(after)
<1>1. PICK w, maxYear, c : /\ w = civil(wall(after, zone)) /\ maxYear = w.y + SearchYears + 1
                           /\ c = civil(after)
  OBVIOUS
<1>2. PICK u : u = wall(after, zone)
  OBVIOUS
<1>3. /\ DaySeconds \in Nat \ {0} /\ Horizon \in Int /\ Minute \in Nat \ {0}
      /\ after < zone[Len(zone)].until
  <2>1. /\ DaySeconds \in Nat \ {0} /\ Horizon \in Int /\ zone[Len(zone)].until >= Horizon + DaySeconds
        /\ zone[Len(zone)].until \in Int
    BY ZoneTypes
  <2>2. Minute \in Nat \ {0}
    BY DEF Calendar
  <2> QED
    BY <2>1, <2>2 DEF Within
<1>4. u \in Int /\ after - DaySeconds <= u
  BY <1>2, <1>3, PeriodIs
<1>5. /\ w \in Dates /\ unix(w) <= u /\ u < unix(w) + Minute
      /\ c \in Dates /\ unix(c) <= after
  BY <1>1, <1>2, <1>4, CivilIs DEF Within
<1>6. w \in Civil /\ c \in Civil /\ w.d <= DaysIn(w.y, w.mo) /\ maxYear \in Int
  <2>1. w \in Civil /\ c \in Civil /\ w.d <= DaysIn(w.y, w.mo)
    BY <1>5 DEF Dates
  <2>2. w.y \in Int /\ SearchYears \in Int
    BY <2>1 DEF Civil, Calendar
  <2> QED
    BY <1>1, <2>1, <2>2
<1>7. PICK D, p, q : D = DaySeconds /\ p = dayOf(c) /\ q = dayOf(w)
  OBVIOUS
<1>8. /\ p \in Int /\ q \in Int /\ unix(w) \in Int /\ unix(c) \in Int
      /\ p * D \in Int /\ q * D \in Int /\ p * D <= unix(c) /\ unix(w) + Minute <= q * D + D
  BY <1>6, <1>7, Ordered, UnixIs
<1>9. p <= q + 1
  <2> SUFFICES ASSUME q + 2 <= p PROVE FALSE
    BY <1>8
  <2>1. D \in Nat \ {0}
    BY <1>3, <1>7
  <2>2. q * D + D + D <= p * D
    BY <1>8, <2>1, DaysApart
  <2>3. p * D <= after
    BY <1>5, <1>8
  <2>4. after - D <= u
    BY <1>4, <1>7
  <2>5. u < q * D + D
    <3>1. Minute \in Int
      BY <1>3
    <3> QED
      BY <1>4, <1>5, <1>8, <2>1, <3>1
  <2> QED
    BY <1>4, <1>8, <2>1, <2>2, <2>3, <2>4, <2>5
<1>10. PICK e : e = [c EXCEPT !.y = @ + SearchYears]
  OBVIOUS
<1>11. limit = unix(e) + (after % Minute)
  BY <1>1, <1>10 DEF searchLimit
<1>12. e \in Civil
  <2>1. c.y + SearchYears \in 0..(LastYear + 1)
    <3>1. /\ w.y \in 0..(LastYear + 1) /\ w.mo \in 1..Months /\ c.y \in 0..(LastYear + 1)
          /\ c.mo \in 1..Months
      BY <1>6 DEF Civil
    <3>2. LastYear \in Nat /\ SearchYears \in Nat /\ 1 \in 1..Months
      BY DEF Calendar
    <3>3. c.y <= w.y + 1
      <4> SUFFICES ASSUME w.y + 1 < c.y PROVE FALSE
        BY <3>1
      <4>1. w.y + 1 \in 0..(LastYear + 1)
        BY <3>1, <3>2, YearBelow
      <4>2. DayOne[(w.y + 1) + 1][1] <= DayOne[c.y][c.mo] /\ DayOne[(w.y + 1) + 1][1] \in Int
        BY <3>1, <3>2, <4>1, MonthsFollow
      <4>3. DayOne[w.y + 1][1] + 2 <= DayOne[(w.y + 1) + 1][1]
        BY <4>1 DEF Calendar
      <4>4. DayOne[c.y][c.mo] <= dayOf(c) /\ DayOne[c.y][c.mo] \in Int
        <5>1. c.d <= DaysIn(c.y, c.mo)
          BY <1>5 DEF Dates
        <5> QED
          BY <1>6, <3>1, <5>1, Located, MonthsFollow
      <4>5. /\ dayOf(w) < nextMonth(w.y, w.mo) /\ nextMonth(w.y, w.mo) <= DayOne[w.y + 1][1]
            /\ DayOne[w.y + 1][1] \in Int /\ nextMonth(w.y, w.mo) \in Int
        BY <1>6, <3>1, Located, MonthsFollow
      <4> QED
        BY <1>7, <1>8, <1>9, <4>2, <4>3, <4>4, <4>5
    <3> QED
      BY <1>1, <3>1, <3>2, <3>3
  <2>2. c \in [y : 0..(LastYear + 1), mo : 1..Months, d : Nat \ {0}, h : 0..(Day - 1), mi : 0..(Hour - 1)]
    BY <1>6 DEF Civil
  <2>3. PICK z \in 0..(LastYear + 1) : z = c.y + SearchYears
    BY <2>1
  <2>4. e = [c EXCEPT !.y = z]
    BY <1>10, <2>3
  <2> QED
    BY <2>2, <2>3, <2>4 DEF Civil
<1>13. PICK a : a = dayOf(e)
  OBVIOUS
<1>14. after % Minute \in 0..(Minute - 1)
  BY <1>3, Division
<1>15. /\ a \in Int /\ a * D \in Int /\ unix(e) \in Int /\ limit \in Int /\ limit < a * D + D
  <2>1. /\ a \in Int /\ a * D \in Int /\ unix(e) \in Int /\ unix(e) + Minute <= a * D + D
    BY <1>7, <1>12, <1>13, Ordered, UnixIs
  <2>2. D \in Nat \ {0} /\ Minute \in Nat \ {0}
    BY <1>3, <1>7
  <2> HIDE DEF limit
  <2> QED
    BY <1>11, <1>14, <2>1, <2>2
<1>16. Next(s, zone, after) = FirstAfter(TimesAhead(s, zone, w, maxYear), after)
  BY <1>1, <1>6, <1>15, NextOfAhead
<1>17. ASSUME NEW m \in Matching(s, Dates), m \notin Ahead(s, w, maxYear)
       PROVE  ~(after < resolve(m, zone) /\ resolve(m, zone) <= limit)
  <2>1. m \in Dates /\ m \in Civil /\ m.y \in 0..LastYear /\ m.mo \in 1..Months /\ m.d <= DaysIn(m.y, m.mo)
    <3>1. m \in Dates /\ m \in Civil /\ m.d <= DaysIn(m.y, m.mo) /\ m.y <= LastYear
      BY DEF Matching, Dates
    <3>2. m.y \in 0..(LastYear + 1) /\ m.mo \in 1..Months
      BY <3>1 DEF Civil
    <3>3. LastYear \in Nat
      BY DEF Calendar
    <3> QED
      BY <3>1, <3>2, <3>3
  <2>2. /\ resolve(m, zone) \in Int /\ unix(m) \in Int /\ unix(m) - D <= resolve(m, zone)
        /\ \A t \in Int : t < resolve(m, zone) => wall(t, zone) < unix(m)
    BY <1>7, <2>1, DatesResolve
  <2>3. floor(w) = w /\ pos(w) \in Int /\ pos(m) \in Int /\ unix(w) = pos(w) * Minute /\ unix(m) = pos(m) * Minute
    BY <1>6, <2>1, Floor, Ordered, UnixIs
  <2>4. CASE pos(m) < pos(w)
    <3>1. (pos(w) - pos(m)) * Minute >= 0 /\ (pos(w) - pos(m)) * Minute = pos(w) * Minute - pos(m) * Minute
      BY <1>3, <2>3, <2>4
    <3>2. unix(m) <= unix(w)
      BY <1>8, <2>2, <2>3, <3>1
    <3>3. ~(after < resolve(m, zone))
      BY <1>2, <1>4, <1>5, <1>8, <2>2, <3>2
    <3> QED
      BY <3>3
  <2>5. CASE m.y > maxYear
    <3>1. a + 2 <= DayOne[m.y][1]
      BY <1>1, <1>5, <1>7, <1>9, <1>10, <1>13, <2>1, <2>5, YearsLater
    <3>2. DayOne[m.y][1] <= dayOf(m) /\ dayOf(m) \in Int /\ DayOne[m.y][1] \in Int
      <4>1. /\ m.y \in 0..(LastYear + 1) /\ 1 \in 1..Months
        <5>1. LastYear \in Nat /\ Months \in Nat \ {0}
          BY DEF Calendar
        <5> QED
          BY <2>1, <5>1
      <4>2. DayOne[m.y][m.mo] <= dayOf(m) /\ dayOf(m) \in Int
        BY <2>1, <4>1, Located, Ordered
      <4>3. DayOne[m.y][1] \in Int /\ DayOne[m.y][m.mo] \in Int
        BY <2>1, <4>1, MonthsFollow
      <4>4. DayOne[m.y][1] <= DayOne[m.y][m.mo]
        <5>1. CASE m.mo = 1
          BY <4>3, <5>1
        <5>2. CASE 1 < m.mo
          <6>1. nextMonth(m.y, 1) <= DayOne[m.y][m.mo] /\ DayOne[m.y][1] < nextMonth(m.y, 1)
                /\ nextMonth(m.y, 1) \in Int
            BY <2>1, <4>1, <5>2, MonthsFollow
          <6> QED
            BY <4>3, <6>1
        <5> QED
          BY <2>1, <5>1, <5>2
      <4> QED
        BY <4>2, <4>3, <4>4
    <3>3. PICK b \in Int : b = dayOf(m)
      BY <3>2
    <3>4. a + 2 <= b
      BY <1>15, <3>1, <3>2, <3>3
    <3>5. b * D <= unix(m) /\ b * D \in Int
      BY <1>7, <2>1, <3>3, UnixIs
    <3>6. (b - a - 2) * D >= 0 /\ (b - a - 2) * D = b * D - a * D - 2 * D
      BY <1>3, <1>7, <1>15, <3>4
    <3>7. limit < resolve(m, zone)
      BY <1>3, <1>7, <1>15, <2>2, <3>5, <3>6
    <3> QED
      BY <1>15, <2>2, <3>7
  <2>6. m.y > maxYear \/ pos(m) < pos(w)
    BY <1>6, <1>17, <2>1, <2>3 DEF Ahead
  <2> QED
    BY <2>4, <2>5, <2>6
<1>18. PICK T, U : T = TimesAhead(s, zone, w, maxYear) /\ U = Occurrences(s, zone)
  OBVIOUS
<1>19. T \subseteq U /\ \A t \in U : t \in T \/ ~(after < t /\ t <= limit)
  <2>1. T = {resolve(m, zone) : m \in Ahead(s, w, maxYear)} /\ U = {resolve(m, zone) : m \in Matching(s, Dates)}
    BY <1>18 DEF TimesAhead, Occurrences
  <2>2. Ahead(s, w, maxYear) \subseteq Matching(s, Dates)
    BY DEF Ahead
  <2> HIDE DEF limit
  <2> QED
    BY <1>17, <2>1, <2>2
<1>20. {t \in T : after < t /\ t <= limit} = {t \in U : after < t /\ t <= limit}
  <2> HIDE DEF limit
  <2> QED
    BY <1>19
<1>21. FirstAfter(T, after) = FirstAfter(U, after)
  BY Zenon, <1>20 DEF FirstAfter
<1> QED
  BY <1>15, <1>16, <1>18, <1>21

-----------------------------------------------------------------------------
(* What is due.                                                            *)

\* The occurrences that are due in a span.
DueTimes(s, zone, from, now) == {t \in Occurrences(s, zone) : from <= t /\ t <= now}

\* Integers with a lower bound have a least.
LEMMA IntMin ==
  ASSUME NEW T \in SUBSET Int, T # {}, NEW b \in Int, \A t \in T : b <= t
  PROVE  Min(T) \in T /\ \A t \in T : Min(T) <= t
<1> DEFINE N == {t - b : t \in T}
<1>1. PICK n \in N : \A m \in N : n <= m
  <2>1. \A t \in T : t - b \in Nat
    OBVIOUS
  <2>2. N \in SUBSET Nat /\ N # {}
    BY <2>1
  <2> HIDE DEF N
  <2> QED
    BY <2>2, LeastNumber
<1>2. PICK x \in T : n = x - b
  OBVIOUS
<1>3. \A t \in T : x <= t
  <2> TAKE t \in T
  <2>1. n <= t - b
    BY <1>1
  <2> QED
    BY <1>2, <2>1
<1> QED
  BY <1>3 DEF Min

\* And those with an upper bound a greatest.
LEMMA IntMax ==
  ASSUME NEW T \in SUBSET Int, T # {}, NEW b \in Int, \A t \in T : t <= b
  PROVE  Max(T) \in T /\ \A t \in T : t <= Max(T)
<1> DEFINE N == {b - t : t \in T}
<1>1. PICK n \in N : \A m \in N : n <= m
  <2>1. \A t \in T : b - t \in Nat
    OBVIOUS
  <2>2. N \in SUBSET Nat /\ N # {}
    BY <2>1
  <2> HIDE DEF N
  <2> QED
    BY <2>2, LeastNumber
<1>2. PICK x \in T : n = b - x
  OBVIOUS
<1>3. \A t \in T : t <= x
  <2> TAKE t \in T
  <2>1. n <= b - t
    BY <1>1
  <2> QED
    BY <1>2, <2>1
<1> QED
  BY <1>3 DEF Max

\* The greatest of a set is what Max returns.
LEMMA GreatestIsMax ==
  ASSUME NEW T \in SUBSET Int, NEW x \in T, \A y \in T : y <= x
  PROVE  Max(T) = x
<1>1. \A z \in T : (\A y \in T : y <= z) => z = x
  OBVIOUS
<1> QED
  BY <1>1 DEF Max

\* Within a span, Next returns the first occurrence after an instant, or none that is due.
LEMMA NextDue ==
  ASSUME Calendar, NEW s, Expression(s), NEW zone, Zone(zone), NEW from \in Int, NEW now \in Int,
         Searched(zone, from, now), NoGap(Occurrences(s, zone), from, now), NEW a \in (from - 1)..now
  PROVE  LET n == Next(s, zone, a)
             U == Occurrences(s, zone)
         IN /\ U \subseteq Int
            /\ \/ n \in U /\ a < n /\ n <= now /\ n # Never /\ \A t \in U : a < t => n <= t
               \/ (n = Never \/ (n \in Int /\ now < n)) /\ \A t \in U : a < t => now < t
<1>1. PICK n, U, L : n = Next(s, zone, a) /\ U = Occurrences(s, zone) /\ L = searchLimit(a)
  OBVIOUS
<1>2. a \in Int /\ a <= now
  OBVIOUS
<1>3. n = FirstAfter(U, a) /\ L \in Int
  BY <1>1, <1>2, NextIsFirstAfter DEF Searched
<1>4. U \subseteq Int
  <2>1. Matching(s, Dates) \subseteq Dates
    BY DEF Matching
  <2> QED
    BY <1>1, <2>1, DatesResolve DEF Occurrences
<1>5. \A t \in U : a < t /\ t <= now => t <= L
  BY <1>1 DEF NoGap
<1>6. PICK later : later = {t \in U : a < t /\ t <= L}
  OBVIOUS
<1>7. n = IF later = {} THEN Never ELSE Min(later)
  BY <1>1, <1>3, <1>6 DEF FirstAfter
<1>8. CASE later = {}
  <2>1. \A t \in U : a < t => now < t
    BY <1>2, <1>3, <1>4, <1>5, <1>6, <1>8
  <2> QED
    BY <1>1, <1>4, <1>7, <1>8, <2>1
<1>9. CASE later # {}
  <2>1. n \in later /\ \A t \in later : n <= t
    <3>1. later \subseteq Int
      BY <1>4, <1>6
    <3>2. \A t \in later : a <= t
      BY <1>2, <1>4, <1>6
    <3> QED
      BY <1>2, <1>7, <1>9, <3>1, <3>2, IntMin
  <2>2. n \in Int /\ n # Never
    BY <1>4, <1>6, <2>1 DEF Calendar
  <2>3. \A t \in U : a < t => n <= t
    BY <1>2, <1>3, <1>4, <1>6, <2>1, <2>2
  <2> QED
    BY <1>1, <1>2, <1>4, <1>6, <2>1, <2>2, <2>3
<1> QED
  BY <1>8, <1>9

\* One step of the bisection, which goes on with b.
BisectStep(b, s, zone, now, p) ==
  LET lo  == p[1]
      hi  == p[2]
      mid == lo + ((hi - lo) \div 2)
      n   == Next(s, zone, mid)
  IN IF hi - lo <= 1 THEN lo
     ELSE IF n # Never /\ n <= now THEN b[<<mid, hi>>] ELSE b[<<lo, mid>>]

\* So is the bisection of latest.
LEMMA BisectSteps ==
  ASSUME NEW s, NEW zone, NEW occurrence, NEW now
  PROVE  latest(s, zone, occurrence, now) =
           Next(s, zone, (CHOOSE b : b = [p \in (occurrence..now) \X (occurrence..now) |->
                                            BisectStep(b, s, zone, now, p)])[<<occurrence, now>>])
BY Zenon DEF latest, BisectStep

\* Given an occurrence that is due but not the greatest, the bisection finds the greatest:
\* the successors of the instants before it, and of no others, are due.
LEMMA LatestIs ==
  ASSUME Calendar, NEW s, Expression(s), NEW zone, Zone(zone), NEW from \in Int, NEW now \in Int,
         Searched(zone, from, now), NoGap(Occurrences(s, zone), from, now),
         NEW o \in DueTimes(s, zone, from, now), NEW M \in DueTimes(s, zone, from, now), o < M,
         \A t \in DueTimes(s, zone, from, now) : t <= M
  PROVE  latest(s, zone, o, now) = M
<1> DEFINE I == o..now
           S == I \X I
           first(lo, hi) == IF hi - lo <= 1 \/ M - 1 <= lo THEN lo ELSE IF M >= hi THEN hi - 1 ELSE M - 1
           F == [p \in S |-> first(p[1], p[2])]
           find == CHOOSE b : b = [p \in S |-> BisectStep(b, s, zone, now, p)]
           rk == [p \in S |-> IF p[1] <= p[2] THEN p[2] - p[1] ELSE 0]
<1>1. PICK U : U = Occurrences(s, zone)
  OBVIOUS
<1>2. U \subseteq Int /\ o \in U /\ M \in U /\ from <= o /\ M <= now
      /\ \A t \in U : from <= t /\ t <= now => t <= M
  <2>1. o \in U /\ M \in U /\ from <= o /\ o <= now /\ M <= now
    BY <1>1 DEF DueTimes
  <2>2. U \subseteq Int
    <3>1. Matching(s, Dates) \subseteq Dates
      BY DEF Matching
    <3> QED
      BY <1>1, <3>1, DatesResolve DEF Occurrences
  <2>3. \A t \in U : from <= t /\ t <= now => t <= M
    BY <1>1 DEF DueTimes
  <2> QED
    BY <2>1, <2>2, <2>3
<1>3. o \in Int /\ M \in Int /\ from - 1 <= o /\ M - 1 \in (from - 1)..now /\ o \in I /\ now \in I
  BY <1>2
<1>4. ASSUME NEW t \in I PROVE (Next(s, zone, t) # Never /\ Next(s, zone, t) <= now) <=> t < M
  <2>1. t \in (from - 1)..now /\ t \in Int /\ from <= t
    BY <1>2, <1>3
  <2>2. PICK n : n = Next(s, zone, t)
    OBVIOUS
  <2>3. \/ n \in U /\ t < n /\ n <= now /\ n # Never
        \/ (n = Never \/ (n \in Int /\ now < n)) /\ (t < M => now < M)
    BY <1>1, <1>2, <2>1, <2>2, NextDue
  <2>4. CASE n \in U /\ t < n /\ n <= now /\ n # Never
    BY <1>2, <1>3, <2>1, <2>2, <2>4
  <2>5. CASE (n = Never \/ (n \in Int /\ now < n)) /\ (t < M => now < M)
    BY <1>2, <1>3, <2>1, <2>2, <2>5
  <2> QED
    BY <2>3, <2>4, <2>5
<1>5. ASSUME NEW b, NEW lo \in I, NEW hi \in I
      PROVE  LET mid == lo + ((hi - lo) \div 2)
             IN /\ hi - lo <= 1 => BisectStep(b, s, zone, now, <<lo, hi>>) = lo
                /\ 1 < hi - lo => /\ mid \in I /\ lo < mid /\ mid < hi
                                  /\ BisectStep(b, s, zone, now, <<lo, hi>>) =
                                       IF mid < M THEN b[<<mid, hi>>] ELSE b[<<lo, mid>>]
  <2>1. PICK mid : mid = lo + ((hi - lo) \div 2)
    OBVIOUS
  <2>2. lo \in Int /\ hi \in Int
    OBVIOUS
  <2>3. hi - lo <= 1 => BisectStep(b, s, zone, now, <<lo, hi>>) = lo
    BY DEF BisectStep
  <2>4. ASSUME 1 < hi - lo
        PROVE  /\ mid \in I /\ lo < mid /\ mid < hi
               /\ BisectStep(b, s, zone, now, <<lo, hi>>) = IF mid < M THEN b[<<mid, hi>>] ELSE b[<<lo, mid>>]
    <3>1. (hi - lo) \div 2 \in Int /\ 0 < (hi - lo) \div 2 /\ (hi - lo) \div 2 < hi - lo
      BY <2>2, <2>4
    <3>2. mid \in I /\ lo < mid /\ mid < hi
      BY <1>3, <2>1, <2>2, <3>1
    <3>3. BisectStep(b, s, zone, now, <<lo, hi>>) =
            IF Next(s, zone, mid) # Never /\ Next(s, zone, mid) <= now THEN b[<<mid, hi>>] ELSE b[<<lo, mid>>]
      <4>1. ~(hi - lo <= 1)
        BY <2>2, <2>4
      <4> QED
        BY <2>1, <4>1 DEF BisectStep
    <3> QED
      BY <1>4, <3>2, <3>3
  <2> QED
    BY <2>1, <2>3, <2>4
<1>6. ASSUME NEW lo \in I, NEW hi \in I PROVE F[<<lo, hi>>] = first(lo, hi)
  OBVIOUS
<1> HIDE DEF F
<1>7. F = [p \in S |-> BisectStep(F, s, zone, now, p)]
  <2>1. ASSUME NEW lo \in I, NEW hi \in I PROVE F[<<lo, hi>>] = BisectStep(F, s, zone, now, <<lo, hi>>)
    <3>1. PICK mid : mid = lo + ((hi - lo) \div 2)
      OBVIOUS
    <3>2. CASE hi - lo <= 1
      <4>1. BisectStep(F, s, zone, now, <<lo, hi>>) = lo
        BY <1>5, <3>2
      <4>2. F[<<lo, hi>>] = lo
        BY <1>6, <3>2
      <4> QED
        BY <4>1, <4>2
    <3>3. CASE 1 < hi - lo
      <4>1. /\ mid \in I /\ lo < mid /\ mid < hi
            /\ BisectStep(F, s, zone, now, <<lo, hi>>) = IF mid < M THEN F[<<mid, hi>>] ELSE F[<<lo, mid>>]
        BY <1>5, <3>1, <3>3
      <4>2. F[<<lo, hi>>] = first(lo, hi) /\ F[<<mid, hi>>] = first(mid, hi) /\ F[<<lo, mid>>] = first(lo, mid)
        BY <1>6, <4>1
      <4>3. lo \in Int /\ hi \in Int /\ mid \in Int
        BY <4>1
      <4>4. IF mid < M THEN first(lo, hi) = first(mid, hi) ELSE first(lo, hi) = first(lo, mid)
        BY <1>3, <3>3, <4>1, <4>3
      <4> QED
        BY <4>1, <4>2, <4>4
    <3>4. lo \in Int /\ hi \in Int
      OBVIOUS
    <3> QED
      BY <3>2, <3>3, <3>4
  <2>2. ASSUME NEW p \in S PROVE F[p] = BisectStep(F, s, zone, now, p)
    <3>1. PICK lo \in I, hi \in I : p = <<lo, hi>>
      OBVIOUS
    <3> QED
      BY <2>1, <3>1
  <2>3. F = [p \in S |-> F[p]]
    BY DEF F
  <2> QED
    BY <2>2, <2>3
<1>8. find = [p \in S |-> BisectStep(find, s, zone, now, p)]
  <2> HIDE DEF S
  <2> QED
    BY <1>7
<1>9. latest(s, zone, o, now) = Next(s, zone, find[<<o, now>>])
  BY Zenon, BisectSteps
<1> HIDE DEF find, first
<1> DEFINE Bad == {p \in S : find[p] # F[p]}
<1>10. Bad = {}
  <2> SUFFICES ASSUME Bad # {} PROVE FALSE
    OBVIOUS
  <2>1. rk \in [S -> Nat]
    OBVIOUS
  <2>2. PICK p \in Bad : \A q \in Bad : rk[p] <= rk[q]
    <3> HIDE DEF rk, S
    <3> QED
      BY <2>1, LeastRank
  <2>3. PICK lo \in I, hi \in I : p = <<lo, hi>>
    OBVIOUS
  <2>4. lo \in Int /\ hi \in Int
    OBVIOUS
  <2>5. /\ find[<<lo, hi>>] = BisectStep(find, s, zone, now, <<lo, hi>>)
        /\ F[<<lo, hi>>] = BisectStep(F, s, zone, now, <<lo, hi>>)
        /\ find[<<lo, hi>>] # F[<<lo, hi>>]
    <3>1. <<lo, hi>> \in S
      OBVIOUS
    <3> QED
      BY <1>7, <1>8, <2>3, <3>1
  <2>6. PICK mid : mid = lo + ((hi - lo) \div 2)
    OBVIOUS
  <2>7. 1 < hi - lo
    <3>1. hi - lo <= 1 => BisectStep(find, s, zone, now, <<lo, hi>>) = lo
      BY DEF BisectStep
    <3>2. hi - lo <= 1 => BisectStep(F, s, zone, now, <<lo, hi>>) = lo
      BY DEF BisectStep
    <3>3. ~(hi - lo <= 1)
      BY <2>5, <3>1, <3>2
    <3> QED
      BY <2>4, <3>3
  <2>8. /\ mid \in I /\ lo < mid /\ mid < hi
        /\ BisectStep(find, s, zone, now, <<lo, hi>>) = IF mid < M THEN find[<<mid, hi>>] ELSE find[<<lo, mid>>]
        /\ BisectStep(F, s, zone, now, <<lo, hi>>) = IF mid < M THEN F[<<mid, hi>>] ELSE F[<<lo, mid>>]
    BY <1>5, <2>6, <2>7
  <2>9. <<mid, hi>> \in Bad \/ <<lo, mid>> \in Bad
    BY <2>5, <2>8
  <2>10. rk[<<lo, hi>>] = hi - lo /\ rk[<<mid, hi>>] = hi - mid /\ rk[<<lo, mid>>] = mid - lo
    BY <2>4, <2>8
  <2>11. hi - lo <= hi - mid \/ hi - lo <= mid - lo
    BY <2>2, <2>3, <2>9, <2>10
  <2>12. mid \in Int
    BY <2>8
  <2> QED
    BY <2>4, <2>8, <2>11, <2>12
<1>11. find[<<o, now>>] = M - 1
  <2>1. find[<<o, now>>] = first(o, now)
    BY <1>3, <1>6, <1>10
  <2>2. first(o, now) = M - 1
    BY <1>2, <1>3 DEF first
  <2> QED
    BY <2>1, <2>2
<1>12. Next(s, zone, M - 1) = M
  <2>1. PICK n : n = Next(s, zone, M - 1)
    OBVIOUS
  <2>2. \/ n \in U /\ M - 1 < n /\ (M - 1 < M => n <= M)
        \/ M - 1 < M => now < M
    BY <1>1, <1>2, <1>3, <2>1, NextDue
  <2>3. n \in U /\ M - 1 < n /\ n <= M
    BY <1>2, <1>3, <2>2
  <2> QED
    BY <1>2, <1>3, <2>1, <2>3
<1> QED
  BY <1>9, <1>11, <1>12

\* One step of the loop of Due, which goes on from g.
DueStep(g, s, zone, from, now, n) ==
  IF n = 0 THEN <<>>
  ELSE LET d == g[n - 1]
           t == Next(s, zone, IF d = <<>> THEN from - 1 ELSE Last(d))
       IN IF Len(d) < n - 1 \/ t = Never THEN d
          ELSE IF t > now THEN d ELSE Append(d, t)

DueAnswer(due, s, zone, from, now, limit) ==
  LET capped == Len(due) > limit
  IN IF from > now \/ due = <<>> THEN NothingDue
     ELSE [count |-> Min({limit, Len(due)}), first |-> Head(due), capped |-> capped,
           latest |-> IF capped THEN latest(s, zone, due[limit], now) ELSE Last(due)]

\* So is the loop of Due.
LEMMA DueSteps ==
  ASSUME NEW s, NEW zone, NEW from, NEW now, NEW limit
  PROVE  Due(s, zone, from, now, limit) =
           DueAnswer((CHOOSE g : g = [n \in 0..(limit + 1) |-> DueStep(g, s, zone, from, now, n)])[limit + 1],
                     s, zone, from, now, limit)
BY Zenon DEF Due, DueStep, DueAnswer

\* The first n of what is due, in order: all of it when there is less.
Listed(d, D, n) ==
  /\ d \in Seq(D) /\ Len(d) <= n
  /\ \A i, j \in 1..Len(d) : i < j => d[i] < d[j]
  /\ \A t \in D : (\E i \in 1..Len(d) : t = d[i]) \/ d = <<>> \/ d[Len(d)] < t
  /\ Len(d) < n => \A t \in D : \E i \in 1..Len(d) : t = d[i]

\* Each step of the loop lists one more.
LEMMA DueLists ==
  ASSUME Calendar, NEW s, Expression(s), NEW zone, Zone(zone), NEW from \in Int, NEW now \in Int,
         Searched(zone, from, now), NoGap(Occurrences(s, zone), from, now), from <= now,
         NEW n \in Nat \ {0}, NEW g, Listed(g[n - 1], DueTimes(s, zone, from, now), n - 1)
  PROVE  Listed(DueStep(g, s, zone, from, now, n), DueTimes(s, zone, from, now), n)
<1>1. PICK d, D, U : d = g[n - 1] /\ D = DueTimes(s, zone, from, now) /\ U = Occurrences(s, zone)
  OBVIOUS
<1>2. PICK a : a = IF d = <<>> THEN from - 1 ELSE d[Len(d)]
  OBVIOUS
<1>3. PICK t : t = Next(s, zone, a)
  OBVIOUS
<1>4. DueStep(g, s, zone, from, now, n) =
        IF Len(d) < n - 1 \/ t = Never THEN d ELSE IF t > now THEN d ELSE Append(d, t)
  BY <1>1, <1>2, <1>3 DEF DueStep, Last
<1>5. D = {u \in U : from <= u /\ u <= now}
  BY <1>1 DEF DueTimes
<1>6. /\ d \in Seq(D) /\ Len(d) <= n - 1 /\ Len(d) \in Nat
      /\ \A i, j \in 1..Len(d) : i < j => d[i] < d[j]
      /\ \A u \in D : (\E i \in 1..Len(d) : u = d[i]) \/ d = <<>> \/ d[Len(d)] < u
      /\ Len(d) < n - 1 => \A u \in D : \E i \in 1..Len(d) : u = d[i]
  BY <1>1 DEF Listed
<1>7. U \subseteq Int
  <2>1. from - 1 \in (from - 1)..now
    OBVIOUS
  <2> QED
    BY <1>1, <2>1, NextDue
<1>8. a \in (from - 1)..now /\ a \in Int /\ (d # <<>> => a \in D /\ Len(d) \in 1..Len(d))
  <2>1. CASE d = <<>>
    BY <1>2, <2>1
  <2>2. CASE d # <<>>
    <3>1. Len(d) \in 1..Len(d) /\ d[Len(d)] \in D
      BY <1>6, <2>2
    <3> QED
      BY <1>2, <1>5, <1>7, <2>2, <3>1
  <2> QED
    BY <2>1, <2>2
<1>9. \/ t \in U /\ a < t /\ t <= now /\ t # Never /\ \A u \in U : a < u => t <= u
      \/ (t = Never \/ (t \in Int /\ now < t)) /\ \A u \in U : a < u => now < u
  BY <1>1, <1>3, <1>8, NextDue
<1>10. \A u \in D : (\E i \in 1..Len(d) : u = d[i]) \/ a < u
  BY <1>2, <1>5, <1>6, <1>7
<1>11. CASE Len(d) < n - 1
  <2>1. DueStep(g, s, zone, from, now, n) = d
    BY <1>4, <1>11
  <2>2. Listed(d, D, n)
    BY <1>6, <1>11 DEF Listed
  <2> QED
    BY <1>1, <2>1, <2>2
<1>12. CASE Len(d) = n - 1 /\ t \in U /\ a < t /\ t <= now /\ t # Never /\ \A u \in U : a < u => t <= u
  <2>1. PICK e : e = Append(d, t)
    OBVIOUS
  <2>2. DueStep(g, s, zone, from, now, n) = e
    <3>1. ~(Len(d) < n - 1 \/ t = Never) /\ ~(t > now)
      BY <1>6, <1>7, <1>12
    <3> QED
      BY <1>4, <2>1, <3>1
  <2>3. t \in D /\ t \in Int
    BY <1>5, <1>7, <1>8, <1>12
  <2>4. e \in Seq(D) /\ Len(e) = n /\ e[n] = t /\ \A i \in 1..Len(d) : e[i] = d[i] /\ i \in 1..Len(e)
    BY <1>6, <1>12, <2>1, <2>3
  <2>5. ASSUME NEW i \in 1..Len(e), NEW j \in 1..Len(e), i < j PROVE e[i] < e[j]
    <3>1. CASE j = n
      <4>1. i \in 1..Len(d) /\ e[i] = d[i] /\ d # <<>>
        BY <1>6, <1>12, <2>4, <2>5, <3>1
      <4>2. d[i] \in Int /\ d[Len(d)] \in Int
        <5>1. D \subseteq Int
          BY <1>5, <1>7
        <5>2. d[i] \in D /\ d[Len(d)] \in D
          BY <1>6, <1>8, <4>1
        <5> QED
          BY <5>1, <5>2
      <4>3. d[i] <= d[Len(d)]
        BY <1>6, <4>1, <4>2
      <4> QED
        BY <1>2, <1>12, <2>3, <2>4, <3>1, <4>1, <4>2, <4>3
    <3>2. CASE j # n
      BY <1>6, <1>12, <2>4, <2>5, <3>2
    <3> QED
      BY <3>1, <3>2
  <2>6. ASSUME NEW u \in D PROVE (\E i \in 1..Len(e) : u = e[i]) \/ e[Len(e)] < u
    <3>1. CASE \E i \in 1..Len(d) : u = d[i]
      BY <2>4, <3>1
    <3>2. CASE a < u
      <4>1. t <= u /\ u \in Int
        BY <1>5, <1>7, <1>12, <3>2
      <4>2. n \in 1..Len(e)
        BY <2>4
      <4> QED
        BY <2>3, <2>4, <4>1, <4>2
    <3> QED
      BY <1>10, <3>1, <3>2
  <2>7. Listed(e, D, n)
    BY <2>4, <2>5, <2>6 DEF Listed
  <2> QED
    BY <1>1, <2>2, <2>7
<1>13. CASE Len(d) = n - 1 /\ (t = Never \/ (t \in Int /\ now < t)) /\ \A u \in U : a < u => now < u
  <2>1. DueStep(g, s, zone, from, now, n) = d
    BY <1>4, <1>13
  <2>2. \A u \in D : \E i \in 1..Len(d) : u = d[i]
    BY <1>5, <1>7, <1>10, <1>13
  <2>3. Listed(d, D, n)
    BY <1>6, <1>13, <2>2 DEF Listed
  <2> QED
    BY <1>1, <2>1, <2>3
<1> QED
  BY <1>6, <1>9, <1>11, <1>12, <1>13

\* A list without repetition has as many elements as it is long.
LEMMA CardinalityOfList ==
  ASSUME NEW D \in SUBSET Int, IsFiniteSet(D), NEW d \in Seq(D),
         \A i, j \in 1..Len(d) : i < j => d[i] < d[j]
  PROVE  /\ Cardinality(D) \in Nat /\ Len(d) <= Cardinality(D)
         /\ (\A t \in D : \E i \in 1..Len(d) : t = d[i]) => Cardinality(D) = Len(d)
<1> DEFINE R == {t \in D : \E i \in 1..Len(d) : t = d[i]}
<1>1. Len(d) \in Nat /\ \A i \in 1..Len(d) : d[i] \in D
  OBVIOUS
<1>2. PICK f : f = [i \in 1..Len(d) |-> d[i]]
  OBVIOUS
<1>3. f \in Bijection(1..Len(d), R)
  <2>1. \A i \in 1..Len(d) : f[i] = d[i] /\ f[i] \in R
    BY <1>1, <1>2
  <2>2. f \in [1..Len(d) -> R]
    BY <1>2, <2>1
  <2>3. \A i, j \in 1..Len(d) : f[i] = f[j] => i = j
    <3>1. ASSUME NEW i \in 1..Len(d), NEW j \in 1..Len(d), i < j PROVE f[i] # f[j]
      <4>1. d[i] \in Int /\ d[j] \in Int
        BY <1>1
      <4>2. d[i] < d[j]
        BY <3>1
      <4> QED
        BY <2>1, <4>1, <4>2
    <3>2. ASSUME NEW i \in 1..Len(d), NEW j \in 1..Len(d), i # j PROVE f[i] # f[j]
      <4>1. i < j \/ j < i
        BY <3>2
      <4> QED
        BY <3>1, <4>1
    <3> QED
      BY <3>2
  <2>4. \A t \in R : \E i \in 1..Len(d) : f[i] = t
    BY <2>1
  <2> QED
    <3> HIDE DEF R
    <3> QED
      BY <2>2, <2>3, <2>4 DEF Bijection, Injection, Surjection, IsInjective
<1>4. IsFiniteSet(1..Len(d)) /\ Cardinality(1..Len(d)) = Len(d)
  <2>1. PICK n \in Nat : n = Len(d)
    BY <1>1
  <2>2. IsFiniteSet(1..n) /\ Cardinality(1..n) = IF 1 > n THEN 0 ELSE n - 1 + 1
    BY FS_Interval
  <2> QED
    BY <2>1, <2>2
<1>5. Cardinality(R) = Len(d)
  <2> HIDE DEF R
  <2>1. ExistsBijection(1..Len(d), R)
    BY <1>3 DEF ExistsBijection
  <2> QED
    BY <1>4, <2>1, FS_Bijection
<1>6. R \subseteq D /\ ((\A t \in D : \E i \in 1..Len(d) : t = d[i]) => R = D)
  OBVIOUS
<1> HIDE DEF R
<1>7. Cardinality(D) \in Nat /\ Cardinality(R) <= Cardinality(D)
  BY <1>6, FS_Subset, FS_CardinalityType
<1> QED
  BY <1>5, <1>6, <1>7

\* Due says what of a span is due: how many up to a limit, the first and the greatest, and
\* whether there are more, in every calendar and zone.
THEOREM DueSummarizes ==
  ASSUME Calendar, NEW s, Expression(s), NEW zone, Zone(zone), NEW from \in Int, NEW now \in Int,
         Searched(zone, from, now), NoGap(Occurrences(s, zone), from, now), NEW limit \in Nat \ {0}
  PROVE  Due(s, zone, from, now, limit) = Summary(Occurrences(s, zone), from, now, limit)
<1> DEFINE D == DueTimes(s, zone, from, now)
           find == CHOOSE g : g = [n \in 0..(limit + 1) |-> DueStep(g, s, zone, from, now, n)]
           due == find[limit + 1]
           of(g, k) == g = [n \in 0..k |-> DueStep(g, s, zone, from, now, n)]
           T == {k \in 0..(limit + 1) : \E g : of(g, k)}
<1>1. Due(s, zone, from, now, limit) = DueAnswer(due, s, zone, from, now, limit)
  BY Zenon, DueSteps
<1>2. D \subseteq from..now /\ D \in SUBSET Int
  <2>1. Matching(s, Dates) \subseteq Dates
    BY DEF Matching
  <2>2. Occurrences(s, zone) \subseteq Int
    BY <2>1, DatesResolve DEF Occurrences
  <2> QED
    BY <2>2 DEF DueTimes
<1>3. Summary(Occurrences(s, zone), from, now, limit) =
        IF D = {} THEN NothingDue
        ELSE [count  |-> Min({limit, Cardinality(D)}), first |-> Min(D),
              latest |-> Max(D), capped |-> Cardinality(D) > limit]
  BY DEF Summary, DueTimes
<1>4. limit + 1 \in T
  <2>1. 0 \in T
    <3>1. of([n \in 0..0 |-> <<>>], 0)
      BY DEF DueStep
    <3> HIDE DEF of
    <3> QED
      BY <3>1
  <2>2. ASSUME NEW k \in 0..(limit + 1), k < limit + 1, k \in T PROVE k + 1 \in T
    <3>1. PICK g : of(g, k)
      BY <2>2
    <3>2. PICK h : h = [n \in 0..(k + 1) |-> IF n <= k THEN g[n] ELSE DueStep(g, s, zone, from, now, n)]
      OBVIOUS
    <3>3. ASSUME NEW n \in 0..(k + 1) PROVE h[n] = DueStep(h, s, zone, from, now, n)
      <4>1. h[n] = DueStep(g, s, zone, from, now, n)
        <5>1. CASE n <= k
          BY <3>1, <3>2, <5>1
        <5>2. CASE ~(n <= k)
          BY <3>2, <5>2
        <5> QED
          BY <5>1, <5>2
      <4>2. n # 0 => h[n - 1] = g[n - 1]
        BY <3>2
      <4>3. DueStep(h, s, zone, from, now, n) = DueStep(g, s, zone, from, now, n)
        BY <4>2 DEF DueStep
      <4> QED
        BY <4>1, <4>3
    <3>4. of(h, k + 1)
      BY <3>2, <3>3
    <3>5. k + 1 \in 0..(limit + 1)
      BY <2>2
    <3> HIDE DEF of
    <3> QED
      BY <3>4, <3>5
  <2> HIDE DEF T
  <2>3. PICK b \in Int : b = limit + 1
    OBVIOUS
  <2>4. b \in 0..b
    BY <2>3
  <2> QED
    BY <2>1, <2>2, <2>3, <2>4, Induction
<1>5. of(find, limit + 1)
  BY <1>4
<1> HIDE DEF find, T
<1>6. CASE now < from
  <2>1. D = {}
    BY <1>2, <1>6
  <2> HIDE DEF D
  <2> QED
    BY <1>1, <1>3, <1>6, <2>1 DEF DueAnswer
<1>7. CASE from <= now
  <2> DEFINE L == {n \in 0..(limit + 1) : Listed(find[n], D, n)}
  <2>1. limit + 1 \in L
    <3>1. 0 \in L
      <4>1. find[0] = <<>>
        BY <1>5 DEF DueStep
      <4>2. Listed(<<>>, D, 0)
        BY DEF Listed
      <4> QED
        BY <4>1, <4>2
    <3>2. ASSUME NEW k \in 0..(limit + 1), k < limit + 1, k \in L PROVE k + 1 \in L
      <4>1. k + 1 \in Nat \ {0} /\ k + 1 \in 0..(limit + 1) /\ (k + 1) - 1 = k
        BY <3>2
      <4>2. Listed(find[(k + 1) - 1], D, (k + 1) - 1)
        BY <3>2, <4>1
      <4>3. Listed(DueStep(find, s, zone, from, now, k + 1), D, k + 1)
        BY <1>7, <4>1, <4>2, DueLists
      <4>4. find[k + 1] = DueStep(find, s, zone, from, now, k + 1)
        BY <1>5, <4>1
      <4> QED
        BY <4>1, <4>3, <4>4
    <3> HIDE DEF L
    <3>3. PICK b \in Int : b = limit + 1
      OBVIOUS
    <3>4. b \in 0..b
      BY <3>3
    <3> QED
      BY <3>1, <3>2, <3>3, <3>4, Induction
  <2>2. PICK d : d = due
    OBVIOUS
  <2>3. Listed(d, D, limit + 1)
    BY <2>1, <2>2
  <2> HIDE DEF D
  <2>4. /\ d \in Seq(D) /\ Len(d) \in Nat /\ Len(d) <= limit + 1
        /\ \A i, j \in 1..Len(d) : i < j => d[i] < d[j]
        /\ \A t \in D : (\E i \in 1..Len(d) : t = d[i]) \/ d = <<>> \/ d[Len(d)] < t
        /\ Len(d) < limit + 1 => \A t \in D : \E i \in 1..Len(d) : t = d[i]
    BY <2>3 DEF Listed
  <2>5. CASE D = {}
    <3>1. d = <<>>
      BY <2>4, <2>5
    <3> QED
      BY <1>1, <1>3, <2>2, <2>5, <3>1 DEF DueAnswer
  <2>6. CASE D # {}
    <3>1. d # <<>> /\ Len(d) \in Nat \ {0}
      BY <2>4, <2>6
    <3>2. /\ 1 \in 1..Len(d) /\ Len(d) \in 1..Len(d) /\ d[1] \in D /\ d[Len(d)] \in D
          /\ \A i \in 1..Len(d) : d[i] \in D /\ d[i] \in Int
      <4>1. \A i \in 1..Len(d) : d[i] \in D
        BY <2>4
      <4>2. 1 \in 1..Len(d) /\ Len(d) \in 1..Len(d)
        BY <3>1
      <4> QED
        BY <1>2, <4>1, <4>2
    <3>3. Head(d) = d[1] /\ Last(d) = d[Len(d)]
      BY <2>4, <3>1 DEF Last
    <3>4. \A i \in 1..Len(d) : d[1] <= d[i] /\ d[i] <= d[Len(d)]
      BY <2>4, <3>1, <3>2
    <3>5. Min(D) = d[1]
      <4>1. \A t \in D : d[1] <= t
        BY <1>2, <2>4, <3>1, <3>2, <3>4
      <4> QED
        BY <1>2, <3>2, <4>1, LeastIsMin
    <3>6. Cardinality(D) \in Nat /\ Len(d) <= Cardinality(D)
          /\ ((\A t \in D : \E i \in 1..Len(d) : t = d[i]) => Cardinality(D) = Len(d))
      <4>1. IsFiniteSet(D)
        BY <1>2, FS_Interval, FS_Subset
      <4> QED
        BY <1>2, <2>4, <4>1, CardinalityOfList
    <3>7. DueAnswer(d, s, zone, from, now, limit) =
            [count |-> Min({limit, Len(d)}), first |-> Head(d), capped |-> Len(d) > limit,
             latest |-> IF Len(d) > limit THEN latest(s, zone, d[limit], now) ELSE Last(d)]
      BY <1>7, <3>1 DEF DueAnswer
    <3>8. CASE Len(d) <= limit
      <4>1. Cardinality(D) = Len(d) /\ \A t \in D : \E i \in 1..Len(d) : t = d[i]
        BY <2>4, <3>6, <3>8
      <4>2. Max(D) = d[Len(d)]
        <5>1. \A t \in D : t <= d[Len(d)]
          BY <3>4, <4>1
        <5> QED
          BY <1>2, <3>2, <5>1, GreatestIsMax
      <4>3. ~(Len(d) > limit) /\ ~(Cardinality(D) > limit)
        BY <2>4, <3>8, <4>1
      <4> QED
        BY <1>1, <1>3, <2>2, <2>6, <3>3, <3>5, <3>7, <4>1, <4>2, <4>3
    <3>9. CASE Len(d) = limit + 1
      <4>1. Cardinality(D) > limit /\ Len(d) > limit
        BY <3>6, <3>9
      <4>2. Min({limit, Len(d)}) = limit /\ Min({limit, Cardinality(D)}) = limit
        <5>1. ASSUME NEW n \in Nat, n > limit PROVE Min({limit, n}) = limit
          <6>1. PICK S : S = {limit, n}
            OBVIOUS
          <6>2. S \in SUBSET Int /\ limit \in S /\ \A y \in S : limit <= y
            BY <5>1, <6>1
          <6> QED
            BY <6>1, <6>2, LeastIsMin
        <5> QED
          BY <2>4, <3>6, <4>1, <5>1
      <4>3. PICK M : M = Max(D)
        OBVIOUS
      <4>4. M \in D /\ M \in Int /\ \A t \in D : t <= M
        <5>1. \A t \in D : t <= now
          BY <1>2
        <5> QED
          BY <1>2, <2>6, <4>3, <5>1, IntMax
      <4>5. limit \in 1..Len(d) /\ d[limit] \in D /\ d[limit] < M
        BY <2>4, <3>2, <3>9, <4>4
      <4>6. latest(s, zone, d[limit], now) = M
        BY <4>4, <4>5, LatestIs DEF D
      <4> QED
        BY <1>1, <1>3, <2>2, <2>6, <3>3, <3>5, <3>7, <4>1, <4>2, <4>3, <4>6
    <3> QED
      BY <2>4, <3>8, <3>9
  <2> QED
    BY <2>5, <2>6
<1> QED
  BY <1>6, <1>7

-----------------------------------------------------------------------------
(* Fields.                                                                 *)

Bounds(min, max, stepMax) == [min |-> min, max |-> max, stepMax |-> stepMax]
Items == [low : Nat \cup {Star}, high : Nat \cup {Absent}, step : Nat \cup {Absent}]

\* A field that is accepted has a value, and every value of it lies within the bounds.
LEMMA FieldWithinBounds ==
  ASSUME Star \notin Int, Absent \notin Int, NEW min \in Nat, NEW max \in Nat, NEW stepMax \in Nat,
         NEW items \in (SUBSET Items) \ {{}}, getField(items, Bounds(min, max, stepMax)) # Error
  PROVE  LET f == getField(items, Bounds(min, max, stepMax))
         IN f.on # {} /\ f.on \subseteq min..max
<1> DEFINE bounds == Bounds(min, max, stepMax)
           parts == {getRange(item, bounds) : item \in items}
<1>1. Error \notin parts
  BY DEF getField
<1>2. getField(items, bounds) = [on |-> UNION {p.on : p \in parts}, star |-> \E p \in parts : p.star]
  BY <1>1 DEF getField
<1>3. ASSUME NEW item \in items
      PROVE  getRange(item, bounds).on # {} /\ getRange(item, bounds).on \subseteq min..max
  <2>1. PICK start : start = IF item.low = Star THEN min ELSE item.low
    OBVIOUS
  <2>2. PICK end : end = lastOf(item, bounds)
    OBVIOUS
  <2>3. PICK step : step = IF item.step = Absent THEN 1 ELSE item.step
    OBVIOUS
  <2>4. item \in Items
    OBVIOUS
  <2>5. start \in Nat /\ step \in Nat
    BY <2>1, <2>3, <2>4 DEF Items
  <2>6. end \in Nat
    BY <2>2, <2>4 DEF Items, lastOf, Bounds
  <2>7. bounds.min = min /\ bounds.max = max
    BY DEF Bounds
  <2> HIDE DEF bounds
  <2>8. getRange(item, bounds) # Error
    BY <1>1
  <2>9. /\ step # 0 /\ min <= start /\ end <= max /\ start <= end
        /\ getRange(item, bounds) = [on |-> {n \in start..end : (n - start) % step = 0},
                                     star |-> item.low = Star /\ step = 1]
    <3>1. getRange(item, bounds) =
            IF (item.low = Star /\ item.high # Absent) \/ step = 0
                 \/ start < min \/ end > max \/ start > end THEN Error
            ELSE [on |-> {n \in start..end : (n - start) % step = 0}, star |-> item.low = Star /\ step = 1]
      BY <2>1, <2>2, <2>3, <2>7 DEF getRange
    <3> QED
      BY <2>5, <2>6, <2>8, <3>1
  <2>10. start \in start..end /\ (start - start) % step = 0 /\ start..end \subseteq min..max
    <3>1. 0 % step = 0
      BY <2>5, <2>9
    <3> QED
      BY <2>5, <2>6, <2>9, <3>1
  <2> QED
    BY <2>9, <2>10
<1> HIDE DEF bounds
<1>4. PICK x \in items : TRUE
  OBVIOUS
<1>5. (UNION {p.on : p \in parts}) # {} /\ (UNION {p.on : p \in parts}) \subseteq min..max
  BY <1>3, <1>4
<1>6. getField(items, bounds).on = UNION {p.on : p \in parts}
  BY <1>2
<1> QED
  BY <1>5, <1>6 DEF bounds

\* What the parser accepts is an expression that has a minute, an hour, a day and a month to
\* match, within the calendar; the days of the week are those of one week.
THEOREM ParsedIsExpression ==
  ASSUME Calendar, Star \notin Int, Absent \notin Int, Week \in Nat \ {0},
         NEW longest \in Nat, NEW last \in Nat,
         NEW minute \in (SUBSET Items) \ {{}}, NEW hour \in (SUBSET Items) \ {{}},
         NEW dom \in (SUBSET Items) \ {{}}, NEW month \in (SUBSET Items) \ {{}},
         NEW dow \in (SUBSET Items) \ {{}},
         NEW s, s = [minute |-> getField(minute, Bounds(0, Hour - 1, Hour - 1)),
                     hour   |-> getField(hour, Bounds(0, Day - 1, Day - 1)),
                     dom    |-> getField(dom, Bounds(1, longest, longest)),
                     month  |-> getField(month, Bounds(1, Months, Months)),
                     dow    |-> foldWeek(getField(dow, Bounds(0, Week, last)))],
         s.minute # Error, s.hour # Error, s.dom # Error, s.month # Error,
         getField(dow, Bounds(0, Week, last)) # Error
  PROVE  /\ Expression(s)
         /\ s.minute.on # {} /\ s.hour.on # {} /\ s.dom.on # {} /\ s.month.on # {} /\ s.dow.on # {}
         /\ s.dom.on \subseteq 1..longest /\ s.dow.on \subseteq 0..(Week - 1)
<1>1. Hour - 1 \in Nat /\ Day - 1 \in Nat /\ Months \in Nat /\ 0 \in Nat /\ 1 \in Nat /\ Week \in Nat
  BY DEF Calendar
<1>2. s.minute.on # {} /\ s.minute.on \subseteq 0..(Hour - 1)
  BY <1>1, FieldWithinBounds
<1>3. s.hour.on # {} /\ s.hour.on \subseteq 0..(Day - 1)
  BY <1>1, FieldWithinBounds
<1>4. s.dom.on # {} /\ s.dom.on \subseteq 1..longest
  BY <1>1, FieldWithinBounds
<1>5. s.month.on # {} /\ s.month.on \subseteq 1..Months
  BY <1>1, FieldWithinBounds
<1>6. s.dow.on # {} /\ s.dow.on \subseteq 0..(Week - 1)
  <2>1. PICK f : f = getField(dow, Bounds(0, Week, last))
    OBVIOUS
  <2>2. f.on # {} /\ f.on \subseteq 0..Week
    BY <1>1, <2>1, FieldWithinBounds
  <2>3. s.dow = foldWeek(f)
    BY <2>1
  <2>4. foldWeek(f).on = {n % Week : n \in f.on}
    <3>1. f = [on |-> f.on, star |-> f.star]
      BY <2>1 DEF getField
    <3> QED
      BY <3>1 DEF foldWeek
  <2>5. \A n \in Int : n % Week \in 0..(Week - 1)
    BY Division
  <2>6. PICK S : S = f.on
    OBVIOUS
  <2>7. S # {} /\ S \subseteq Int /\ s.dow.on = {n % Week : n \in S}
    BY <2>2, <2>3, <2>4, <2>6
  <2>8. ASSUME NEW n \in S PROVE n % Week \in 0..(Week - 1)
    BY <2>5, <2>7
  <2> QED
    BY <2>7, <2>8
<1> QED
  BY <1>2, <1>3, <1>4, <1>5, <1>6 DEF Expression
=============================================================================
