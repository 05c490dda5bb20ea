SPECIFICATION Spec
CONSTANTS
  unlimited = unlimited
  Unlimited = unlimited
  None = None
  Agents = {a1}
  Keys = {k1}
  Creators = {c1}
  Calls = {}
  Limits <- CappedLimits
  Enforced = TRUE
  Faults = {"plan_lookup"}

PROPERTIES FailOpen
