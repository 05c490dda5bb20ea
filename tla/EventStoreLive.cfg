SPECIFICATION LiveSpec
CONSTANTS
  t1 = t1
  t2 = t2
  a1 = a1
  a2 = a2
  b1 = b1
  Tenants <- MCTenants
  Agents = {a1, b1}
  TenantOf <- MCTenantOf
  Subjects = {s1}
  Writers = {w1}
  Erasers = {r1}
  Worker = worker
  None = None
  MaxEvents = 2
  BatchLimit = 2
  EmbedModes = {"worker", "sync"}
  Keyless = {t2}
  Faults = {"embed", "upsert", "worker_crash"}
CHECK_DEADLOCK FALSE
PROPERTIES EventuallySearchable
