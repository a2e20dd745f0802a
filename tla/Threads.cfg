SPECIFICATION ThreadSpec
CONSTANTS
    Threads = {t1, t2, t3}
    Workers = {t1, t2, t3}
    DBPools = {"master", "slave"}
    CachePools = {"ranking"}
    MIN_DB_CONN_CNT = 1
    MIN_CACHE_CONN_CNT = 2
    MaxConn <- SmallPools
    Scopes <- HandlerScopes
    ConnectFails = TRUE
    MaxRequests = 3
    Addresses = {1, 2}
    Delays = {1}
    Intervals = {0, 1}
    MaxTimers = 2
    MaxTime = 2
    MaxFunctors = 1
    MaxSetBack = 1
    ToolUsers = {t1, t2}
    MaxTools = 2
INVARIANTS
    NoLostWakeup
    PoolsSound
    TimersSound
    ToolsSound
PROPERTIES
    ImplementsTimedLock
    TryReturns
    Finishes
    TimerRuns
CHECK_DEADLOCK FALSE
