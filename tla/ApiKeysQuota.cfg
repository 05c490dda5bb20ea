SPECIFICATION LiveSpec
CONSTANTS
  unlimited = unlimited
  Unlimited = unlimited
  None = None
  Agents = {a1}
  Keys = {k1, k2, k3}
  Creators = {c1, c2}
  Calls = {}
  Limits <- MCLimits
  Enforced = TRUE
  Faults = {"plan_lookup", "api_crash"}
INVARIANTS QuotaHolds
PROPERTIES CreatesEnd
