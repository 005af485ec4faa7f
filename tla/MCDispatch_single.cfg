SPECIFICATION Spec
CONSTANTS
  Requests = {r1}
  Implicit = {r1}
  Kinds = {"human", "block", "unknown", "replace", "close", "reset", "unverified", "outage", "forget", "refresh", "release", "adopt", "retain", "crash"}
  MaxFaults = 2
  Alone = {"block", "unknown", "refresh", "forget", "reset", "unverified"}
  MaxSeq = 4
  Sessions = {0, 1}
  Human = Human
  None = None
INVARIANTS PromptAtMostOnce PromptAccounted FailedReceiptFreesWorker SettledOnOwnTurn TurnEvidenceIsReal
PROPERTY SettlesOnCurrentEvidence
CHECK_DEADLOCK FALSE
