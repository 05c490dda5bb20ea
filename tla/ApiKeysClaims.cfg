SPECIFICATION Spec
CONSTANTS
  unlimited = unlimited
  Unlimited = unlimited
  None = None
  Agents = {a1, a2}
  Keys = {k1, k2}
  Creators = {c1}
  Calls = {q1, q2}
  Limits <- CappedLimits
  Enforced = FALSE
  Faults = {"api_crash"}
SYMMETRY KeySymmetry
INVARIANTS TypeOK 
PROPERTIES KeysOnlyAge
