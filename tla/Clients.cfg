SPECIFICATION ClientsSpec
CONSTANTS
    a1 = a1
    a2 = a2
    t1 = t1
    t2 = t2
    u1 = u1
    u2 = u2
    ctx = ctx
    None = None
    Agents = {a1, a2}
    Types = {t1, t2}
    TypeOf <- MCTypeOf
    PageSize = 1
    MaxEvents = 2
    Instants = {"t1", "t2"}
    Periods = {"weekly", "monthly"}
    Customs = {"c1"}
    Accounts = {u1, u2}
    Workspace <- MCWorkspace
    MaxCodes = 2
    KeyLimit = 2
    MaxKeys = 2
    BatchSize = 2
    MaxImages = 3
    MaxPosts = 1
    Ranks = {0, 3}
    Confidences = {40, 80}
    Subjects = {1, 2, 3}
    MaxSuggestions = 2
    MaxList = 3
    Contexts = {ctx}
    AgentOf <- MCAgentOf
    MaxLogs = 3
    MaxActs = 4
    Turns = 3
    LiveOnly = {2}
    QueueSize = 1
    MaxFlights = 2
    k1 = k1
    k2 = k2
    w1 = w1
    Callers = {k1, k2}
    WorkerOf <- MCWorkerOf
    Limiters = {"otp", "post", "updates"}
    Limit <- MCLimit
    Window <- MCWindow
    KeyOf <- MCKeyOf
    FailOpen = {"post"}
    Routes = {}
    MaxTime = 2
    MaxHits <- MCMaxHits
    MaxFaults <- MCMaxFaults
CHECK_DEADLOCK FALSE
INVARIANTS
    
    FleetIsManaged
    OneAuthCallAtATime
    DeleteIsWatched
    PostsKeepTheirImages
    CountedRepliesExist
    RangesAgree
    MostSevereShown
    AwaitedLogsFormAChain
    AckedStrandIsSingle
    
    OvershootBounded
PROPERTIES
    FeedKeepsToAgent
    FeedConverges
    ViewsKeepToAgent
    AgentListConverges
    PlanBeforeDashboard
    SignInGoesOn
    
    LinksAreCausal
    CallsSettle
    
    HealthConverges
    SessionEnds
