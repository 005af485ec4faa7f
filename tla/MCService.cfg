SPECIFICATION FairSpec
CONSTANTS
  Callers = {a}
  Restarters = {r}
  Daemons = {d1, d2, d3}
  None = None
  Kinds = {"stop", "kill", "manual", "timeout", "quit", "cut", "repeat"}
  MaxFaults = 2
INVARIANTS OneOwner AppliedOnce AnswersAreTrue DrainLosesNothing NotDefeated
PROPERTY CallEnds
CHECK_DEADLOCK FALSE
