SPECIFICATION LimiterSpec
CONSTANTS
    None = None
    Agents = {}
    refresh = refresh
    rate = rate
    tenant = tenant
    c1 = c1
    w1 = w1
    Callers = {c1}
    WorkerOf <- MCWorkerOf
    Limiters = {refresh, rate}
    Limit <- MCLimit
    Window <- MCWindow
    KeyOf <- MCKeyOf
    FailOpen = {refresh, rate}
    Routes <- MCRoutes
    MaxTime = 4
    MaxHits <- MCMaxHits
    MaxFaults <- MCMaxFaults
CHECK_DEADLOCK FALSE
INVARIANTS CapHolds
