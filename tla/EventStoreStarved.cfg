SPECIFICATION LiveSpec
CONSTANTS
  t1 = t1
  t2 = t2
  a1 = a1
  a2 = a2
  b1 = b1
  Tenants <- MCTenants
  Agents = {a1, b1}
  TenantOf <- MCTenantOf
  Subjects = {s1}
  Writers = {w1}
  Erasers = {}
  Worker = worker
  None = None
  MaxEvents = 2
  BatchLimit = 1
  EmbedModes = {"worker"}
  Keyless = {t2}
  Faults = {}
CHECK_DEADLOCK FALSE
PROPERTIES EventuallySearchable
