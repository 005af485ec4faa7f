---------------------------- MODULE MCArithmetic ----------------------------
(***************************************************************************)
(* The arithmetic of schedules compared with its definitions: cron         *)
(* expressions on a small calendar with days and months of uneven length   *)
(* and zones whose clocks go forward and back, intervals on small spans.   *)
(***************************************************************************)
EXTENDS Integers, FiniteSets

CONSTANTS Star, Absent, Error, Never

\* Days of two hours of two minutes of two seconds; years of two months, the second of
\* which has a third day in odd years; weeks of two days.
FirstDays == [y \in 0..6 |-> [mo \in 1..2 |-> 5 * y + (y \div 2) + (IF mo = 1 THEN 0 ELSE 3)]]

C == INSTANCE Cron WITH Minute <- 2, Hour <- 2, Day <- 2, Months <- 2, Week <- 2,
                        LastYear <- 4, SearchYears <- 1, DayOne <- FirstDays

Minutes == {c \in [y : 0..4, mo : 1..2, d : 1..3, h : 0..1, mi : 0..1] : c.d <= C!DaysIn(c.y, c.mo)}

\* Zones: without transitions; an hour forward and back within a year; half a minute
\* forward, a day back.
Ever == 100000
Zones == {<<[until |-> Ever, off |-> -3]>>,
          <<[until |-> 53, off |-> 0], [until |-> 70, off |-> 4], [until |-> Ever, off |-> 0]>>,
          <<[until |-> 49, off |-> 3], [until |-> 62, off |-> 4], [until |-> Ever, off |-> -4]>>}

Instants == 1..180

\* The calendar and the zones are such as Cron is proved for.
ASSUME ProvedFor == C!Calendar /\ \A zone \in Zones : C!Zone(zone)

\* The earliest instant, for every minute of the middle years.
ASSUME WallTimesAreReached ==
  \A zone \in Zones : \A c \in {m \in Minutes : m.y \in 1..2} :
    C!resolve(c, zone) = C!ReachedAt(c, zone, Instants)

item(low, high, step) == [low |-> low, high |-> high, step |-> step]
Any == item(Star, Absent, Absent)
Only(n) == item(n, Absent, Absent)
upTo(min, max) == [min |-> min, max |-> max, stepMax |-> max]

Weekdays == [min |-> 0, max |-> 2, stepMax |-> 1]   \* 2 is 0, as 7 is

\* Every field that is accepted has a value within its bounds.
ASSUME FieldsHaveValues ==
  LET items == {item(l, h, s) : l \in {Star, 0, 1, 2, 3}, h \in {Absent, 1, 2, 3}, s \in {Absent, 0, 1, 2}}
  IN \A a, b \in items :
       LET f == C!getField({a, b}, Weekdays)
       IN f # Error => C!foldWeek(f).on \in (SUBSET {0, 1}) \ {{}}

Specs ==
  {[minute |-> C!getField({mi}, upTo(0, 1)), hour |-> C!getField({h}, upTo(0, 1)),
    dom |-> C!getField(dom, upTo(1, 3)), month |-> C!getField({mo}, upTo(1, 2)),
    dow |-> C!foldWeek(C!getField({dow}, Weekdays))] :
     mi \in {Any, Only(1)}, h \in {Any, Only(0), Only(1)}, mo \in {Any, Only(2)},
     dom \in {{Any}, {item(Star, Absent, 2)}, {Only(3)}, {item(1, 2, Absent)}}, dow \in {Any, Only(2)}}

\* The first occurrence after every instant of a year.
ASSUME SearchIsFirst ==
  \A s \in Specs, zone \in Zones :
    LET occurrences == {C!resolve(c, zone) : c \in C!Matching(s, Minutes)}
    IN /\ C!Expression(s) /\ C!Searched(zone, 46, 92)
       /\ \A after \in 45..92 : C!Next(s, zone, after) = C!FirstAfter(occurrences, after)

\* What is due between two instants of a year, counted up to one, three or all
\* of its occurrences.
ASSUME DueIsComplete ==
  \A s \in Specs, zone \in Zones :
    LET occurrences == {C!resolve(c, zone) : c \in C!Matching(s, Minutes)}
    IN /\ C!NoGap(occurrences, 45, 88)
       /\ \A from \in {45, 50, 60, 61}, now \in {44, 60, 70, 88}, limit \in {1, 3, 9} :
            C!Due(s, zone, from, now, limit) = C!Summary(occurrences, from, now, limit)

\* Intervals; the limit of a duration is reached for some of them.
I == INSTANCE Intervals WITH MaxDuration <- 20, Error <- Error

ASSUME IntervalsAreDue ==
  \A every \in 1..4, from, now \in -3..22, limit \in {1, 4} :
    LET due == I!dueEvery(from, now, 0, every, limit)
    IN due = Error \/ I!Summarizes(due, I!DueIndices(from, now, 0, every), 0, every, limit)
=============================================================================
