SPECIFICATION RedisSpec
CONSTANTS
    CacheMethods = {"MGet", "HgetInto", "ZsetExist"}
    HasPassword = TRUE
    LoginRefusals = {"AUTH", "SELECT"}
    MaxDrops = 1
    MaxOutages = 1
    MaxRefusals = 1
    MaxAddresses = 2
    REDIS_CONNECT_RETRIES = 3
    Names = {"a"}
    MaxCommands = 3
    MaxMessages = 1
    MaxPending = 2
    Callers = {TRUE, FALSE}
    ParamCount = 2
    MaxDbOutages = 2
    MaxWork = 3
    kInitRetryDelayMs = 1
    kMaxRetryDelayMs = 3
    MaxSockets = 4
INVARIANTS
    ConnKept
    ConnectClean
    CallbacksRight
    AllOrNothing
PROPERTIES
    CacheRecovers
    FreeEnds
CHECK_DEADLOCK FALSE
