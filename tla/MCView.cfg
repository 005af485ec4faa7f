SPECIFICATION FairSpec
CONSTANTS
  Roles = {"follow", "wait", "question", "view"}
  Kinds = {"break", "unread", "ended"}
  Buffer = 1
  Page = 2
  None = None
  MaxEvents = 3
  MaxFaults = 2
INVARIANTS NothingUnseen ReadyIsConnected
PROPERTIES ImplementsJournal CatchesUp
CHECK_DEADLOCK FALSE
