---------------------------- MODULE FileHubState ----------------------------
(***************************************************************************)
(* The state the request handlers of FileHub share, and the request life   *)
(* cycle around them: the MySQL tables (sql/filehub.sql), the Redis        *)
(* ranking cache, the FastDFS store, the process-wide FileInfoLock and the *)
(* local variables of every worker thread of the muduo thread pool.        *)
(*                                                                         *)
(* A handler is a sequence of statements, each of them atomic in the       *)
(* server that executes it (MySQL autocommit, one Redis command, one       *)
(* fdfs_* child); pc[t] names the statement thread t executes next, and    *)
(* between any two of them every other thread may run.                     *)
(***************************************************************************)
EXTENDS Integers, FiniteSets

CONSTANTS
    Threads,             \* worker threads (num_threads of tc_http_server.conf)
    Users, Md5s, Names,  \* user names, file digests, file names
    FileIds,             \* the ids FastDFS can still give out
    NoThread, NoFile, NoReq,
    Commands,            \* the requests clients send in this instance
    Faults,              \* the statements that may fail in this instance
    LostAnswers,         \* those that may be executed, their answer lost
    Exclusive,           \* commands no two of which are in flight on one row
    OwnersOnly,          \* do clients share only files of their own list?
    Crashes,             \* may the server process die between two statements?
    SeedRows,            \* rows of user_file_list that exist at the start
    MaxRequests          \* bound: how many requests clients send in all

Key  == Users \X Md5s \X Names   \* UNIQUE(user, md5, file_name)
File == Md5s \X Names            \* md5 + file name: the Redis member "fileid"

UserOf(k) == k[1]
Md5Of(k)  == k[2]
FileOf(k) == <<k[2], k[3]>>

\* The routes of http_conn.cc that change these tables.
AllCommands == {"upload", "md5", "save", "del",
                "share", "cancel", "pv", "sharepv", "ranking"}

\* The statements of the handlers that have a failure path of their own.
FaultPoints == {"fdfs_upload", "get_full_url", "fdfs_delete",
                "insert_file_info", "update_file_info", "drop_file_info",
                "insert_user_file", "update_user_file", "drop_user_file",
                "insert_share", "update_share", "drop_share",
                "select", "redis", "fdfs_wait"}

\* Those that change a store and whose result the handler looks at.
Writes == FaultPoints \ {"fdfs_upload", "get_full_url", "select", "fdfs_wait"}

SeedMd5s == {Md5Of(k) : k \in SeedRows}

ASSUME ConstantsAssumption ==
    /\ IsFiniteSet(Threads)
    /\ NoThread \notin Threads
    /\ NoFile \notin FileIds
    /\ NoReq \notin [op : AllCommands, key : Key]
    /\ Commands \subseteq AllCommands
    /\ Faults \subseteq FaultPoints
    /\ LostAnswers \subseteq Writes
    /\ Exclusive \subseteq AllCommands
    /\ OwnersOnly \in BOOLEAN
    /\ Crashes \in BOOLEAN
    /\ SeedRows \subseteq Key /\ IsFiniteSet(SeedRows)
    /\ MaxRequests \in Nat

VARIABLES
    \* MySQL
    file_info,        \* md5 -> reference count and FastDFS id, or NoInfo
    user_file_list,   \* the rows (user, md5, file_name)
    shared_status,    \* those of them with shared_status = 1
    user_pv,          \* their pv column
    share_file_list,  \* rows of share_file_list: no unique key but id
    share_id,         \* its AUTO_INCREMENT value
    \* Redis
    zset,             \* FILE_PUBLIC_ZSET: score of a member, or Absent
    file_name_hash,   \* FILE_NAME_HASH: the members that have a name
    \* FastDFS
    fdfs,             \* what became of each id
    \* the server process
    locked,           \* FileInfoLock: its holder
    pc, req,          \* per thread: next statement, request in hand
    fid, exsit,       \* locals fileid / file_id and file_exsit
    cnt,              \* local count or pv
    rows, page,       \* rows to load, members to look up: what is left
    code,             \* "code" of the JSON answer
    issued            \* requests sent so far

tableVars  == <<file_info, user_file_list, fdfs>>
attrVars   == <<shared_status, user_pv>>
shareVars  == <<share_file_list, share_id, zset, file_name_hash>>
threadVars == <<req, fid, exsit, cnt, rows, page>>
vars == <<tableVars, attrVars, shareVars, locked, pc, threadVars, code, issued>>

-----------------------------------------------------------------------------
(* Tables *)

NoInfo    == [count |-> 0, file_id |-> NoFile]
FileInfo  == [count : Int, file_id : FileIds \cup {NoFile}]
HasInfo(m) == file_info[m] # NoInfo

Absent == -1

ShareRow == [id : Nat, user : Users, file : File, pv : Int]
SharesOf(f) == {r \in share_file_list : r.file = f}

\* update file_info set count = count + 1 where md5 = m: matches no row, and
\* changes nothing, when there is none.
CountPlusOne(m) == IF HasInfo(m) THEN [file_info EXCEPT ![m].count = @ + 1]
                                 ELSE file_info

\* insert into user_file_list ... shared_status 0, pv 0
InsertUserRow(k) ==
    /\ user_file_list' = user_file_list \cup {k}
    /\ shared_status' = shared_status \ {k}
    /\ user_pv' = [user_pv EXCEPT ![k] = 0]

\* delete from user_file_list: succeeds, with zero rows, when there is none.
DropUserRow(k) ==
    /\ user_file_list' = user_file_list \ {k}
    /\ shared_status' = shared_status \ {k}
    /\ user_pv' = [user_pv EXCEPT ![k] = 0]

\* delete from share_file_list where user, md5, file_name
DropShares(k) ==
    share_file_list' = {r \in share_file_list :
                            ~ (r.user = UserOf(k) /\ r.file = FileOf(k))}

RemoveFileFromFastDfs(id) == fdfs' = [fdfs EXCEPT ![id] = "deleted"]

\* The statement fails without effect.
Fails(statement) == statement \in Faults

\* The statement is executed, and the handler is told that it failed: the
\* connection is lost, or the time is up, before the answer is read. (Later
\* statements on that connection fail as well; the model lets them.)
AnswerLost(statement) == statement \in LostAnswers

-----------------------------------------------------------------------------
(* Threads *)

KeyOf(t) == req[t].key
M(t)     == Md5Of(KeyOf(t))

Goto(t, where) == pc' = [pc EXCEPT ![t] = where]

\* The code the client sees for what the handler returned: ApiDealsharefile
\* tests ret < 0, which its handlers never return, and reports 0 otherwise.
Answer(op, r) == IF op \in {"save", "cancel", "sharepv"} THEN 0 ELSE r

\* The handler is done and returns r to its Api function.
Return(t, r) ==
    /\ Goto(t, "reply")
    /\ code' = [code EXCEPT ![t] = Answer(req[t].op, r)]

\* TryLockFor(1000): the lock is taken when it is free; the wait fails only
\* when the lock is still held when the time is up.
Acquire(t, at, then) ==
    /\ pc[t] = at /\ locked = NoThread
    /\ locked' = t
    /\ Goto(t, then)
    /\ UNCHANGED <<tableVars, attrVars, shareVars, threadVars, code, issued>>

Timeout(t, at, r) ==
    /\ pc[t] = at /\ locked # NoThread
    /\ Return(t, r)
    /\ UNCHANGED <<tableVars, attrVars, shareVars, locked, threadVars, issued>>

\* wait(NULL) of getFullUrlByFileid takes any child of the process: the tool
\* t has started ends well, and its own waitpid is told of no child.
Robbed(t) ==
    /\ Fails("fdfs_wait")
    /\ \E s \in Threads \ {t} : pc[s] = "up_url"

\* ~ScopedFileInfoLock
Unlock == locked' = NoThread

-----------------------------------------------------------------------------
(* The life of a request *)

Entry == [upload |-> "up_fdfs", md5 |-> "md_check", save |-> "sv_check",
          del |-> "dl_status", share |-> "sh_lock", cancel |-> "cn_status",
          pv |-> "pv_select", sharepv |-> "sp_select", ranking |-> "rk_count"]

\* What is sent when the body does not decode (1) or the token is refused.
RefusalCodes(op) == IF op \in {"del", "share", "pv"} THEN {1, 4} ELSE {1}

\* A client of this instance would not send r now: another request of the
\* same user on the same row is in flight, or the file is not in their list.
Withheld(t, r) ==
    \/ /\ r.op \in Exclusive
       /\ \E s \in Threads \ {t} :
             /\ pc[s] \notin {"idle", "reply"}
             /\ req[s].op \in Exclusive /\ req[s].key = r.key
    \/ OwnersOnly /\ r.op = "share" /\ r.key \notin user_file_list

Receive(t) ==
    /\ pc[t] = "idle" /\ issued < MaxRequests
    /\ issued' = issued + 1
    /\ \E r \in [op : Commands, key : Key] :
          /\ ~ Withheld(t, r)
          /\ req' = [req EXCEPT ![t] = r]
          /\ Goto(t, Entry[r.op])
    /\ UNCHANGED <<tableVars, attrVars, shareVars, locked,
                   fid, exsit, cnt, rows, page, code>>

\* A request whose body does not decode or whose token is not its user's:
\* the handler is not called.
Refuse(t) ==
    /\ pc[t] = "idle" /\ issued < MaxRequests
    /\ issued' = issued + 1
    /\ \E r \in [op : Commands, key : Key], c \in {1, 4} :
          /\ c \in RefusalCodes(r.op)
          /\ req' = [req EXCEPT ![t] = r]
          /\ code' = [code EXCEPT ![t] = c]
    /\ Goto(t, "reply")
    /\ UNCHANGED <<tableVars, attrVars, shareVars, locked,
                   fid, exsit, cnt, rows, page>>

\* encode...Json and the response; the locals go out of scope.
Reply(t) ==
    /\ pc[t] = "reply"
    /\ Goto(t, "idle")
    /\ req' = [req EXCEPT ![t] = NoReq]
    /\ fid' = [fid EXCEPT ![t] = NoFile]
    /\ exsit' = [exsit EXCEPT ![t] = FALSE]
    /\ cnt' = [cnt EXCEPT ![t] = 0]
    /\ rows' = [rows EXCEPT ![t] = {}]
    /\ page' = [page EXCEPT ![t] = {}]
    /\ code' = [code EXCEPT ![t] = 0]
    /\ UNCHANGED <<tableVars, attrVars, shareVars, locked, issued>>

\* The server process dies (a NULL result set is dereferenced, the operator
\* stops it) and is started again: MySQL, Redis and FastDFS keep their data.
Crash ==
    /\ Crashes
    /\ \E t \in Threads : pc[t] # "idle"
    /\ pc' = [t \in Threads |-> "idle"]
    /\ req' = [t \in Threads |-> NoReq]
    /\ fid' = [t \in Threads |-> NoFile]
    /\ exsit' = [t \in Threads |-> FALSE]
    /\ cnt' = [t \in Threads |-> 0]
    /\ rows' = [t \in Threads |-> {}]
    /\ page' = [t \in Threads |-> {}]
    /\ code' = [t \in Threads |-> 0]
    /\ locked' = NoThread
    /\ UNCHANGED <<tableVars, attrVars, shareVars, issued>>

\* All clients have their answers and send no more.
Done ==
    /\ issued = MaxRequests
    /\ \A t \in Threads : pc[t] = "idle"
    /\ UNCHANGED vars

-----------------------------------------------------------------------------
(* SeedRows were uploaded earlier: every digest has the count of its rows    *)
(* and an id of its own, the data of which is in FastDFS.                    *)
Init ==
    /\ user_file_list = SeedRows
    /\ \E id \in [SeedMd5s -> FileIds] :
          /\ \A m, n \in SeedMd5s : id[m] = id[n] => m = n
          /\ file_info = [m \in Md5s |->
                IF m \in SeedMd5s
                THEN [count   |-> Cardinality({k \in SeedRows : Md5Of(k) = m}),
                      file_id |-> id[m]]
                ELSE NoInfo]
          /\ fdfs = [f \in FileIds |->
                IF \E m \in SeedMd5s : id[m] = f THEN "stored" ELSE "unused"]
    /\ shared_status = {}
    /\ user_pv = [k \in Key |-> 0]
    /\ share_file_list = {}
    /\ share_id = 0
    /\ zset = [f \in File |-> Absent]
    /\ file_name_hash = {}
    /\ locked = NoThread
    /\ pc = [t \in Threads |-> "idle"]
    /\ req = [t \in Threads |-> NoReq]
    /\ fid = [t \in Threads |-> NoFile]
    /\ exsit = [t \in Threads |-> FALSE]
    /\ cnt = [t \in Threads |-> 0]
    /\ rows = [t \in Threads |-> {}]
    /\ page = [t \in Threads |-> {}]
    /\ code = [t \in Threads |-> 0]
    /\ issued = 0
=============================================================================
