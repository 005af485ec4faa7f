SPECIFICATION FairSpec
CONSTANTS
  Last = 2
  m1 = m1
  Manual = {m1}
  Grace = 0
  DueLimit = 1
  Policies = {"latest"}
  Work = {"dispatch", "message"}
  Kinds = {"down", "gone", "adopt", "unparsable", "enable", "disable", "remove", "busy", "invalid", "denied", "lost", "unsaved", "unrecorded", "fail", "resolve", "crash"}
  MaxFaults = 2
INVARIANTS SubmittedOnce RunTellsDispatch ReceiptIsEvidence
PROPERTIES OutstandingEnds
CHECK_DEADLOCK FALSE
