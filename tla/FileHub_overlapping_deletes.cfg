SPECIFICATION Spec
CONSTANTS
    Threads = {t1, t2}
    Users = {u1, u2}
    Md5s = {m1}
    Names = {n1}
    FileIds = {f1, f2}
    NoThread = NoThread
    NoFile = NoFile
    NoReq = NoReq
    Commands = {"del"}
    Faults = {}
    LostAnswers = {}
    Exclusive = {}
    OwnersOnly = FALSE
    Crashes = FALSE
    SeedRows <- EveryoneOwns
    MaxRequests = 2
SYMMETRY Interchangeable
INVARIANTS
    OwnedFilesAvailable
