SPECIFICATION Spec
CONSTANTS
    Threads = {t1, t2}
    Users = {u1, u2}
    Md5s = {m1}
    Names = {n1}
    FileIds = {f1, f2, f3, f4}
    NoThread = NoThread
    NoFile = NoFile
    NoReq = NoReq
    Commands = {"upload", "md5", "save", "del", "share", "cancel", "pv",
              "sharepv", "ranking"}
    Faults = {"fdfs_upload", "get_full_url", "fdfs_delete", "insert_file_info",
              "update_file_info", "drop_file_info", "insert_user_file",
              "update_user_file", "drop_user_file", "insert_share",
              "update_share", "drop_share", "select", "redis", "fdfs_wait"}
    LostAnswers = {"fdfs_delete", "insert_file_info", "update_file_info",
                   "drop_file_info", "insert_user_file", "update_user_file",
                   "drop_user_file", "insert_share", "update_share",
                   "drop_share", "redis"}
    Exclusive = {}
    OwnersOnly = FALSE
    Crashes = TRUE
    SeedRows <- EveryoneOwns
    MaxRequests = 3
SYMMETRY Interchangeable
INVARIANTS
    TypeOK
