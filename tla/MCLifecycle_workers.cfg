SPECIFICATION Spec
CONSTANTS
  r1 = r1
  r2 = r2
  w1 = w1
  w2 = w2
  p1 = p1
  p2 = p2
  Requests = {r1, r2}
  Workers = {w1, w2}
  Panes = {p1, p2}
  MaxTerms = 3
  MaxAgents = 3
  Kinds = {"tab", "hand", "close", "exit", "move", "lost", "refused", "survivor", "outage", "crash", "resolve"}
  MaxFaults = 2
  ByHand = ByHand
  None = None
INVARIANTS OneWorkerPerAgent ReleasedIsGone FailedNeverRan
PROPERTIES ClosesOwn FinalIsFinal
SYMMETRY Symmetry
CHECK_DEADLOCK FALSE
