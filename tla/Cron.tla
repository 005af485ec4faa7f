-------------------------------- MODULE Cron --------------------------------
(***************************************************************************)
(* Cron expressions and their occurrences. A field is a set of values; an  *)
(* occurrence is a minute of the wall clock that matches every field, at   *)
(* the earliest instant at which the wall clock has reached it. The next   *)
(* one is found by skipping whole months, days and hours; the latest of    *)
(* many by bisection. The calendar is a parameter, so that TLC can compare *)
(* the search with its definition on small ones. Times are whole seconds.  *)
(***************************************************************************)
EXTENDS Integers, Sequences, FiniteSetsExt, SequencesExt

CONSTANTS
  Minute, Hour, Day,  \* seconds, minutes and hours in them
  Months, Week,       \* months in a year, days in a week
  DayOne,             \* the number of the first day of a month of a year
  LastYear,           \* bound: the years are 0..LastYear
  SearchYears,        \* how many years are searched (5)
  Star, Absent,       \* "*" or "?", and the parts an item does not have
  Error,              \* the item or field is not accepted
  Never               \* there is no occurrence in those years

-----------------------------------------------------------------------------
(* Fields. An item is low, low-high, low/step, low-high/step, * or */step. *)

lastOf(item, bounds) ==
  IF item.low = Star \/ (item.high = Absent /\ item.step # Absent) THEN bounds.stepMax
  ELSE IF item.high = Absent THEN item.low ELSE item.high

getRange(item, bounds) ==
  LET start == IF item.low = Star THEN bounds.min ELSE item.low
      end   == lastOf(item, bounds)
      step  == IF item.step = Absent THEN 1 ELSE item.step
  IN IF (item.low = Star /\ item.high # Absent) \/ step = 0
          \/ start < bounds.min \/ end > bounds.max \/ start > end THEN Error
     ELSE [on |-> {n \in start..end : (n - start) % step = 0}, star |-> item.low = Star /\ step = 1]

getField(items, bounds) ==
  LET parts == {getRange(item, bounds) : item \in items}
  IN IF Error \in parts THEN Error
     ELSE [on |-> UNION {p.on : p \in parts}, star |-> \E p \in parts : p.star]

\* Day 7 of a week of seven days is day 0.
foldWeek(dow) == [dow EXCEPT !.on = {n % Week : n \in @}]

-----------------------------------------------------------------------------
(* Wall clocks. A zone is a sequence of periods, each with its offset from *)
(* UTC and the instant it ends; the last never ends.                       *)

Civil == [y : 0..(LastYear + 1), mo : 1..Months, d : Nat \ {0}, h : 0..(Day - 1), mi : 0..(Hour - 1)]
at(y, mo, d, h, mi) == [y |-> y, mo |-> mo, d |-> d, h |-> h, mi |-> mi]

DaysIn(y, mo) == (IF mo = Months THEN DayOne[y + 1][1] ELSE DayOne[y][mo + 1]) - DayOne[y][mo]

dayNumber(y, mo, d) == DayOne[y][mo] + d - 1
unix(c) == ((dayNumber(c.y, c.mo, c.d) * Day + c.h) * Hour + c.mi) * Minute
DaySeconds == Day * Hour * Minute

period(t, zone) == Min({p \in DOMAIN zone : t < zone[p].until})
wall(t, zone) == t + zone[period(t, zone)].off

\* The minute a reading of the wall clock lies in.
civil(u) ==
  LET day == u \div DaySeconds
      m == CHOOSE m \in (0..LastYear) \X (1..Months) :
             DayOne[m[1]][m[2]] <= day /\ day < DayOne[m[1]][m[2]] + DaysIn(m[1], m[2])
  IN at(m[1], m[2], day - DayOne[m[1]][m[2]] + 1, (u \div (Hour * Minute)) % Day, (u \div Minute) % Hour)

addMinute(c) ==
  IF c.mi + 1 < Hour THEN at(c.y, c.mo, c.d, c.h, c.mi + 1)
  ELSE IF c.h + 1 < Day THEN at(c.y, c.mo, c.d, c.h + 1, 0)
  ELSE at(c.y, c.mo, c.d + 1, 0, 0)

\* From two days before, the first period that ends with its wall clock past c.
resolve(c, zone) ==
  LET u == unix(c)
      i == u - 2 * DaySeconds
      p == Min({q \in DOMAIN zone : i < zone[q].until /\ u < zone[q].until + zone[q].off})
      begins == IF p = 1 THEN i ELSE Max({i, zone[p - 1].until})
  IN Max({begins, u - zone[p].off})

-----------------------------------------------------------------------------
(* The search.                                                             *)

dayMatches(s, y, mo, d) ==
  LET domMatch == d \in s.dom.on
      dowMatch == dayNumber(y, mo, d) % Week \in s.dow.on
  IN IF s.dom.star \/ s.dow.star THEN domMatch /\ dowMatch ELSE domMatch \/ dowMatch

\* The first match at or after a minute, whose day may lie past its month.
next(s, minute, maxYear) ==
  LET find[c \in Civil] ==
        LET months  == {mo \in s.month.on : mo > c.mo}
            hours   == {h \in s.hour.on : h >= c.h}
            h       == Min(hours)
            minutes == {mi \in s.minute.on : h > c.h \/ mi >= c.mi}
        IN IF c.y > maxYear THEN Never
           ELSE IF c.mo \notin s.month.on /\ months = {} THEN find[at(c.y + 1, 1, 1, 0, 0)]
           ELSE IF c.mo \notin s.month.on THEN find[at(c.y, Min(months), 1, 0, 0)]
           ELSE IF c.d > DaysIn(c.y, c.mo)
                THEN find[IF c.mo = Months THEN at(c.y + 1, 1, 1, 0, 0) ELSE at(c.y, c.mo + 1, 1, 0, 0)]
           ELSE IF ~dayMatches(s, c.y, c.mo, c.d) \/ hours = {} THEN find[at(c.y, c.mo, c.d + 1, 0, 0)]
           ELSE IF minutes = {} THEN find[addMinute(at(c.y, c.mo, c.d, h, Hour - 1))]
           ELSE at(c.y, c.mo, c.d, h, Min(minutes))
  IN find[minute]

\* The end of the search: the same date and time of day, years later.
searchLimit(after) == LET c == civil(after)
                      IN unix([c EXCEPT !.y = @ + SearchYears]) + (after % Minute)

Next(s, zone, after) ==
  LET w == civil(wall(after, zone))
      try[c \in Civil] ==
        LET found == next(s, c, w.y + SearchYears + 1)
            t == resolve(found, zone)
        IN IF found = Never THEN Never
           ELSE IF t > searchLimit(after) THEN Never
           ELSE IF t > after THEN t
           ELSE try[addMinute(found)]
  IN try[w]

\* Given an occurrence whose successor is not after now.
latest(s, zone, occurrence, now) ==
  LET early(t) == LET n == Next(s, zone, t) IN n # Never /\ n <= now
      bisect[p \in (occurrence..now) \X (occurrence..now)] ==
        LET lo  == p[1]
            hi  == p[2]
            mid == lo + ((hi - lo) \div 2)
        IN IF hi - lo <= 1 THEN lo
           ELSE IF early(mid) THEN bisect[<<mid, hi>>] ELSE bisect[<<lo, mid>>]
  IN Next(s, zone, bisect[<<occurrence, now>>])

NothingDue == [count |-> 0, first |-> 0, latest |-> 0, capped |-> FALSE]

\* Occurrence after occurrence until one is not due, up to the limit and one more.
Due(s, zone, from, now, limit) ==
  LET find[n \in 0..(limit + 1)] ==
        IF n = 0 THEN <<>>
        ELSE LET d == find[n - 1]
                 t == Next(s, zone, IF d = <<>> THEN from - 1 ELSE Last(d))
             IN IF Len(d) < n - 1 \/ t = Never THEN d
                ELSE IF t > now THEN d ELSE Append(d, t)
      due == find[limit + 1]
      capped == Len(due) > limit
  IN IF from > now \/ due = <<>> THEN NothingDue
     ELSE [count |-> Min({limit, Len(due)}), first |-> Head(due), capped |-> capped,
           latest |-> IF capped THEN latest(s, zone, due[limit], now) ELSE Last(due)]

-----------------------------------------------------------------------------
(* What they are meant to compute.                                         *)

\* The package comment: the earliest instant at which the wall clock is at or after c.
ReachedAt(c, zone, instants) == Min({t \in instants : wall(t, zone) >= unix(c)})

Matching(s, minutes) ==
  {c \in minutes : /\ c.mo \in s.month.on /\ dayMatches(s, c.y, c.mo, c.d)
                   /\ c.h \in s.hour.on /\ c.mi \in s.minute.on}

\* The minutes of the calendar.
Dates == {c \in Civil : c.y <= LastYear /\ c.d <= DaysIn(c.y, c.mo)}

\* The occurrences of an expression.
Occurrences(s, zone) == {resolve(m, zone) : m \in Matching(s, Dates)}

\* The first occurrence strictly after an instant, within the years searched.
FirstAfter(occurrences, after) ==
  LET later == {t \in occurrences : after < t /\ t <= searchLimit(after)}
  IN IF later = {} THEN Never ELSE Min(later)

\* The occurrences of a span, counted up to a limit.
Summary(occurrences, from, now, limit) ==
  LET due == {t \in occurrences : from <= t /\ t <= now}
  IN IF due = {} THEN NothingDue
     ELSE [count  |-> Min({limit, Cardinality(due)}), first |-> Min(due),
           latest |-> Max(due), capped |-> Cardinality(due) > limit]

-----------------------------------------------------------------------------
(* Where they compute it: calendars, expressions, zones and spans.         *)

\* Months have a day or more and differ by a day at most from year to year; years have two
\* days or more. The marks are no minutes and no instants.
Calendar ==
  /\ Minute \in Nat \ {0} /\ Hour \in Nat \ {0} /\ Day \in Nat \ {0} /\ Months \in Nat \ {0}
  /\ LastYear \in Nat /\ SearchYears \in Nat
  /\ DayOne \in [0..(LastYear + 2) -> [1..Months -> Int]]
  /\ \A y \in 0..(LastYear + 1), mo \in 1..Months : DaysIn(y, mo) \in Nat \ {0}
  /\ \A y, z \in 0..(LastYear + 1), mo \in 1..Months : DaysIn(y, mo) <= DaysIn(z, mo) + 1
  /\ \A y \in 0..(LastYear + 1) : DayOne[y][1] + 2 <= DayOne[y + 1][1]
  /\ Never \notin Civil /\ Never \notin Int

\* Expressions, as the parser makes them.
Expression(s) ==
  /\ s.month.on \subseteq 1..Months /\ s.hour.on \subseteq 0..(Day - 1)
  /\ s.minute.on \subseteq 0..(Hour - 1)

\* The first instant after the years of the calendar.
Horizon == DayOne[LastYear + 1][1] * DaySeconds

\* Periods follow one another to a day past the calendar, with offsets of a day at most.
Zone(zone) ==
  /\ zone \in Seq([until : Int, off : Int]) /\ zone # <<>>
  /\ \A p, q \in 1..Len(zone) : p < q => zone[p].until < zone[q].until
  /\ \A p \in 1..Len(zone) : -DaySeconds <= zone[p].off /\ zone[p].off <= DaySeconds
  /\ zone[Len(zone)].until >= Horizon + DaySeconds

\* The instants of the calendar.
Within(u) == DayOne[0][1] * DaySeconds <= u /\ u < Horizon

\* Every instant of a span lies in the years that are searched, and no two successive
\* occurrences of it lie further apart than the search goes.
Searched(zone, from, now) ==
  \A a \in (from - 1)..now :
    Within(a) /\ Within(wall(a, zone)) /\ civil(wall(a, zone)).y + SearchYears + 1 <= LastYear
NoGap(occurrences, from, now) ==
  \A a \in (from - 1)..now, t \in occurrences : a < t /\ t <= now => t <= searchLimit(a)
=============================================================================
