SPECIFICATION Spec
CONSTANTS
    Workers = {w1, w2}
    Names = {"u", ""}
    Passwords = {"p"}
    Files = {"f"}
    Wanted = {"register", "login", "mycount", "myfiles", "sharecount", "sharefiles", "pictures", "share", "browse", "cancel"}
    Faults = {"select", "prepare", "insert", "password", "cache", "setex", "get", "count", "rows", "share", "picture", "url", "pv", "cancel"}
    MaxFaults = 1
    MaxRequests = 3
    MaxRestarts = 1
SYMMETRY Symmetry
INVARIANTS
    RegisteredOnce
    TokenVouches
    ViewsCounted
CHECK_DEADLOCK FALSE
