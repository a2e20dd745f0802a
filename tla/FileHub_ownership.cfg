SPECIFICATION Spec
CONSTANTS
    Threads = {t1, t2, t3}
    Users = {u1, u2}
    Md5s = {m1}
    Names = {n1}
    FileIds = {f1, f2, f3, f4}
    NoThread = NoThread
    NoFile = NoFile
    NoReq = NoReq
    Commands = {"upload", "md5", "save", "del"}
    Faults = {"fdfs_upload", "get_full_url", "fdfs_delete", "update_file_info",
              "drop_file_info", "drop_user_file", "select", "fdfs_wait"}
    LostAnswers = {"update_file_info", "drop_file_info", "drop_user_file",
                   "fdfs_delete"}
    Exclusive = {"del"}
    OwnersOnly = FALSE
    Crashes = TRUE
    SeedRows <- EveryoneOwns
    MaxRequests = 3
SYMMETRY Interchangeable
INVARIANTS
    RefCountCovers
    OwnedFilesAvailable
PROPERTIES
    KeepsPromise
    UsesTimedLock
