SPECIFICATION Spec
CONSTANTS
  Last = 1
  Manual = {}
  Grace = 0
  DueLimit = 1
  Policies = {"latest"}
  Work = {"dispatch"}
  Kinds = {"remove", "busy"}
  MaxFaults = 2
INVARIANTS RemovedIsCancelled
CHECK_DEADLOCK FALSE
