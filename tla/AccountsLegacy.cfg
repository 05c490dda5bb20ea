SPECIFICATION Spec
CONSTANTS
  None = None
  Requests = {r1, r2}
  Verifies = {v1, v2}
  Leavers = {l1}
  MaxCodes = 2
  MaxIds = 3
  Legacy = TRUE
  Faults = {}
SYMMETRY ProcessSymmetry
CHECK_DEADLOCK FALSE
INVARIANTS DeletionRemovesAll
