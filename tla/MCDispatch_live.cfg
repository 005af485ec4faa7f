SPECIFICATION FairSpec
CONSTANTS
  Requests = {r1}
  Implicit = {r1}
  Kinds = {"human", "block", "unknown", "replace", "close", "reset", "unverified", "outage", "refresh", "adopt", "crash"}
  MaxFaults = 1
  Alone = {}
  MaxSeq = 4
  Sessions = {0, 1}
  Human = Human
  None = None
PROPERTIES ReportedTurnSettles AcceptedIsAnswered
CHECK_DEADLOCK FALSE
