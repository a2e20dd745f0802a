SPECIFICATION Spec
CONSTANTS
    Threads = {t1, t2}
    Users = {u1, u2}
    Md5s = {m1}
    Names = {n1}
    FileIds = {f1, f2}
    NoThread = NoThread
    NoFile = NoFile
    NoReq = NoReq
    Commands = {"share", "cancel", "del", "sharepv", "ranking"}
    Faults = {"update_user_file", "select", "redis"}
    LostAnswers = {"insert_share", "drop_user_file"}
    Exclusive = {"share", "cancel", "del"}
    OwnersOnly = TRUE
    Crashes = FALSE
    SeedRows <- EveryoneOwns
    MaxRequests = 4
SYMMETRY Interchangeable
INVARIANTS
    SharedHasRow
    PublishedFilesAvailable
