SPECIFICATION FairSpec
CONSTANTS
    Threads = {t1, t2}
    Users = {u1, u2}
    Md5s = {m1}
    Names = {n1}
    FileIds = {f1, f2, f3}
    NoThread = NoThread
    NoFile = NoFile
    NoReq = NoReq
    Commands = {"upload", "md5", "save", "del"}
    Faults = {"drop_file_info", "select"}
    LostAnswers = {"update_file_info", "insert_user_file"}
    Exclusive = {}
    OwnersOnly = FALSE
    Crashes = FALSE
    SeedRows = {}
    MaxRequests = 3
INVARIANTS
    NoOrphans
PROPERTIES
    Answered
    LockReleased
