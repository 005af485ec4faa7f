----------------------------- MODULE Intervals -----------------------------
(***************************************************************************)
(* The occurrences of an "@every" schedule: an anchor and every interval   *)
(* after it. The next one, and those due in a span of time, are found by   *)
(* division, with durations of limited width. Times are integers.          *)
(***************************************************************************)
EXTENDS Integers, FiniteSets

CONSTANTS
  MaxDuration,  \* the longest time.Duration, 2^63 - 1 nanoseconds
  Error         \* the answer "time span out of range"

\* A difference that reaches the limits may have been cut there.
InSpan(d) == -MaxDuration <= d /\ d < MaxDuration

nextEvery(after, anchor, every) ==
  LET n == (after - anchor) \div every + 1
  IN IF after < anchor THEN anchor
     ELSE IF ~InSpan(after - anchor) \/ n > MaxDuration \div every THEN Error
     ELSE anchor + n * every

\* The first interval that ends at or after a distance from the anchor.
firstIndex(lo, every) == lo \div every + (IF lo % every = 0 THEN 0 ELSE 1)

NothingDue == [count |-> 0, first |-> 0, latest |-> 0, capped |-> FALSE]

dueEvery(from, now, anchor, every, limit) ==
  LET start == IF from < anchor THEN anchor ELSE from
      first == firstIndex(start - anchor, every)
      last  == (now - anchor) \div every
  IN IF from > now \/ now < anchor THEN NothingDue
     ELSE IF ~InSpan(start - anchor) \/ ~InSpan(now - anchor) THEN Error
     ELSE IF last < first THEN NothingDue
     ELSE [count  |-> IF last - first + 1 > limit THEN limit ELSE last - first + 1,
           first  |-> anchor + first * every,
           latest |-> anchor + last * every,
           capped |-> last - first + 1 > limit]

-----------------------------------------------------------------------------
\* What they are meant to compute: occurrence n, and the indices due in a span. As an
\* interval has some length, no index exceeds the distance from the anchor.
Occurrence(n, anchor, every) == anchor + n * every
DueIndices(from, now, anchor, every) ==
  {n \in 0..(now - anchor) : Occurrence(n, anchor, every) \in from..now}

\* A report counts those indices up to a limit, says whether there are more, and names
\* the earliest and the latest of their occurrences.
Summarizes(due, D, anchor, every, limit) ==
  /\ due.count = IF Cardinality(D) > limit THEN limit ELSE Cardinality(D)
  /\ due.capped = (Cardinality(D) > limit)
  /\ D # {} => \E first, latest \in D :
                 /\ due.first = Occurrence(first, anchor, every)
                 /\ due.latest = Occurrence(latest, anchor, every)
                 /\ \A n \in D : first <= n /\ n <= latest
=============================================================================
