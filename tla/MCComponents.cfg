CONSTANTS
    c1 = c1
    c2 = c2
    c3 = c3
    Names = {"pro", "pro-high"}
    Standard <- ToStandard
    RateCalls = {c1, c2}
    ErrorThreshold = 2
    Reporters = {c1, c2}
    MinLimit = 10
    MaxLimit = 12
    MaxRequests = 14
    Recorders = {c1, c2}
    EndpointCount = 2
    SkipAfter = 2
    UpstreamCalls = {c1, c2}
    FailureThreshold = 2
    SuccessThreshold = 2
    BreakerCalls = {c1, c2, c3}
    Emails = {"x", "y"}
    WarmUpInterval = 1
    Cooldown = 3
    KeepFor = 4
    WarmUpTime = 6
    Accounts = {"x", "y"}
    QuotaInterval = 2
    QuotaTime = 4
    Parties = {c1, c2, c3}
    Casts <- TwoCasts
    Logins = {c1, c2}
    ProxyUrls = {"url1", "url2"}
    MaxStates = 1
    ValidFor = 1
    LoginTime = 2
    ProxyConfigs <- PoolConfigs
    FirstConfig <- PairRoundRobin
    OwnProxies = {"url1"}
    ProxyCalls = {c1, c2}
    PlainCalls = {c2}
    HashOf <- CallHash
    CounterCycle = 2
    Threads = {c1, c2}
    MaxOps = 3
    MaxCrashes = 1
    Instances = {"i", "j"}
    IndexFiles <- TwoFiles
    CurrentEmail = "a"
    MaxCred = 1
    MaxIds = 2
    MigrationCrashes = 1
    Switches = {c1, c2}
    IdeProcs <- HostProcs
    IdeConfigs <- HostConfigs
    IdeStarts <- HostStarts
    IdeUsers = {"main"}
    MaxUser = 1
    MaxParts = 3
    Exercised = {"limits", "health", "adaptive", "endpoints", "breaker", "warm-up",
             "quota", "record", "login", "pool", "store", "migration", "ide",
             "stream", "chunks", "whole", "logs", "peeks"}
SPECIFICATION Spec
INVARIANTS
    TypeOK
    BanHolds
    MarkedStaysOut
    DisabledCanRecover
    AnswerLostOnlyToLaterFailure
    ProbeIsHeld
    FetchUndoesNothing
    LoginsSound
    
    StoreSound
    BlocksNest
    AnswerComplete
PROPERTIES
    StepsPaced
