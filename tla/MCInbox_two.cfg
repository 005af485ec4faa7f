SPECIFICATION FairSpec
CONSTANTS
  Deliveries = {1, 2}
  Kinds = {"task", "human", "reset", "race", "resolve", "draft", "unreadable", "refused", "lost", "fail", "outage", "adopt", "release", "crash"}
  Alone = {"reset", "draft", "unreadable", "outage", "release"}
  MaxEvents = 3
  MaxKicks = 1
  Task = Task
  Human = Human
  None = None
INVARIANTS OneUnresolvedPrompt WokenAtMostOnce ReceiptTellsWake WakeEndsOnOwnTurn
PROPERTY QueuedIsWoken
CHECK_DEADLOCK FALSE
