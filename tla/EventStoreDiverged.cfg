SPECIFICATION RepairSpec
CONSTANTS
  t1 = t1
  t2 = t2
  a1 = a1
  a2 = a2
  b1 = b1
  Tenants <- MCTenants
  Agents = {a1}
  TenantOf <- MCTenantOf
  Subjects = {s1}
  Writers = {w1}
  Erasers = {r1}
  Worker = worker
  None = None
  MaxEvents = 1
  BatchLimit = 1
  EmbedModes = {"worker"}
  Keyless = {}
  Faults = {"purge"}
CHECK_DEADLOCK FALSE
PROPERTIES DivergenceIsTemporary
