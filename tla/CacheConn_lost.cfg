SPECIFICATION CacheSpec
CONSTANTS
    CacheMethods = {"Get", "Set", "MGet", "HgetInto", "ZsetExist"}
    HasPassword = TRUE
    LoginRefusals = {"AUTH", "SELECT"}
    MaxDrops = 1
    MaxOutages = 1
    MaxRefusals = 1
INVARIANT
    SurvivesRedis
