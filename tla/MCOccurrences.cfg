SPECIFICATION Spec
CONSTANTS
  Star = Star
  Absent = Absent
  Error = Error
  Never = Never
  Last = 3
  m1 = m1
  Manual = {m1}
  Grace = 0
  DueLimit = 3
  Policies = {"latest", "skip"}
  Work = {"dispatch"}
  Kinds = {"clock", "enable", "disable", "busy", "unrecorded", "crash"}
  MaxFaults = 2
INVARIANTS OneOutstanding OccurrencesAccounted
PROPERTIES ImplementsOccurrences
CHECK_DEADLOCK FALSE
