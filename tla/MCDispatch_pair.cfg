SPECIFICATION Spec
CONSTANTS
  Requests = {r1, r2}
  Implicit = {}
  Kinds = {"adopt", "overtake", "crash"}
  MaxFaults = 1
  Alone = {}
  MaxSeq = 3
  Sessions = {1}
  Human = Human
  None = None
INVARIANT OneActiveDispatch
PROPERTY ImplementsSettlement
SYMMETRY RequestSymmetry
CHECK_DEADLOCK FALSE
