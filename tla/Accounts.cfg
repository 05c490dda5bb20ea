SPECIFICATION Spec
CONSTANTS
  None = None
  Requests = {r1, r2}
  Verifies = {v1, v2}
  Leavers = {l1}
  MaxCodes = 3
  MaxIds = 3
  Legacy = TRUE
  Faults = {"api_crash"}
SYMMETRY ProcessSymmetry
CHECK_DEADLOCK FALSE
INVARIANTS TypeOK CodeOpensOnce OnlyTenant
 
