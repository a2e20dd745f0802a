------------------------------ MODULE FileHub ------------------------------
(***************************************************************************)
(* The worker threads of the FileHub server, all handlers together: each   *)
(* thread takes a request, runs its handler one statement at a time and    *)
(* answers. The state is in FileHubState, the handlers are in              *)
(* FileOwnership and FileSharing.                                          *)
(***************************************************************************)
EXTENDS FileOwnership, FileSharing

Ownership(t) == Upload(t) \/ Md5(t) \/ Save(t) \/ Delete(t)
Sharing(t)   == Share(t) \/ Cancel(t) \/ Pv(t) \/ SharePv(t) \/ Ranking(t)

Work(t) == Ownership(t) \/ Sharing(t) \/ Reply(t)

Next ==
    \/ \E t \in Threads : Receive(t) \/ Refuse(t) \/ Work(t)
    \/ Crash
    \/ Done

Spec == Init /\ [][Next]_vars

\* A thread that has a statement to execute gets to execute it: the kernel
\* schedules every worker, MySQL, Redis and the FastDFS tools answer or fail,
\* and a wait for the lock ends after 1000 ms at the latest.
Fairness == \A t \in Threads : WF_vars(Work(t))

FairSpec == Spec /\ Fairness

-----------------------------------------------------------------------------
(* Types *)

OwnershipPCs == {"up_fdfs", "up_url", "up_lock", "up_insert_info", "up_count",
                 "up_insert_user", "up_remove",
                 "md_check", "md_lock", "md_count",
                 "sv_check", "sv_lock", "sv_count", "sv_insert",
                 "dl_status", "dl_zrem", "dl_hdel", "dl_share", "dl_user",
                 "dl_lock", "dl_select", "dl_count", "dl_remove"}
SharingPCs == {"sh_lock", "sh_exist", "sh_check", "sh_status", "sh_insert",
               "sh_recheck", "sh_zadd", "sh_hset", "sh_release",
               "cn_status", "cn_drop", "cn_zrem", "cn_hdel",
               "pv_select", "pv_update",
               "sp_select", "sp_update", "sp_exist", "sp_zadd", "sp_hset",
               "sp_zincr",
               "rk_count", "rk_zcard", "rk_delz", "rk_delh", "rk_select",
               "rk_zadd", "rk_hset", "rk_range", "rk_hget"}
PCs == OwnershipPCs \cup SharingPCs \cup {"idle", "reply"}

Request == [op : AllCommands, key : Key]

\* Every variable holds a value of its type, and a thread that works on a
\* request has one.
TypeOK ==
    /\ file_info \in [Md5s -> FileInfo]
    /\ user_file_list \subseteq Key /\ IsFiniteSet(user_file_list)
    /\ shared_status \subseteq user_file_list
    /\ user_pv \in [Key -> Int]
    /\ share_file_list \subseteq ShareRow /\ IsFiniteSet(share_file_list)
    /\ share_id \in Nat
    /\ zset \in [File -> Int]
    /\ file_name_hash \subseteq File
    /\ fdfs \in [FileIds -> {"unused", "stored", "deleted"}]
    /\ locked \in Threads \cup {NoThread}
    /\ pc \in [Threads -> PCs]
    /\ req \in [Threads -> Request \cup {NoReq}]
    /\ \A t \in Threads : pc[t] # "idle" => req[t] \in Request
    /\ fid \in [Threads -> FileIds \cup {NoFile}]
    /\ exsit \in [Threads -> BOOLEAN]
    /\ cnt \in [Threads -> Int]
    /\ rows \in [Threads -> SUBSET ShareRow]
    /\ page \in [Threads -> SUBSET File]
    /\ code \in [Threads -> {0, 1, 3, 4, 5}]
    /\ issued \in 0..MaxRequests

-----------------------------------------------------------------------------
(* Reference counts *)

\* A thread at one of these statements is inside the FileInfoLock.
LockPCs == {"up_insert_info", "up_count", "up_insert_user",
            "md_count", "sv_count", "dl_select", "dl_count"}

\* The lock is held by exactly the thread that is inside: no statement on
\* file_info runs while another thread is between its own.
LockExcludes ==
    \A t \in Threads : pc[t] \in LockPCs <=> locked = t

\* The handlers use the FileInfoLock as a TimedLock: they enter and leave the
\* protected part only by it. (FileInfoLock implements TimedLock.)
LockPhase(t) ==
    IF pc[t] \in LockPCs THEN "in"
    ELSE IF pc[t] \in {"up_lock", "md_lock", "sv_lock", "dl_lock"}
         THEN "trying" ELSE "out"

LockUse == INSTANCE TimedLock
           WITH phase <- [s \in Threads |-> LockPhase(s)]

UsesTimedLock == LockUse!Spec

\* A thread at one of these statements owns one reference of its file that
\* no row stands for: counted, and its row not inserted yet, or its row
\* deleted, and not uncounted yet.
PendingPCs == {"up_insert_user", "sv_insert",
               "dl_lock", "dl_select", "dl_count"}

Rows(m)    == {k \in user_file_list : Md5Of(k) = m}
Pending(m) == {t \in Threads : pc[t] \in PendingPCs /\ M(t) = m}

\* The count column of file_info is at least the number of rows of
\* user_file_list that refer to the file and of references in flight, in
\* whatever order uploads, saves, instant uploads and deletes interleave,
\* time out, fail, lose an answer or are cut short by a crash: only so is it
\* safe that handleDeleteFile removes the file when it reads 1.
RefCountCovers ==
    \A m \in Md5s :
        Cardinality(Rows(m)) + Cardinality(Pending(m)) <= file_info[m].count

\* What RefCountCovers rests on: deletes of one row do not overlap, so the row
\* is still there when its statement comes; and what a thread inside the lock
\* read from file_info (that there is a record, its count) stays true.
DeletePCs == {"dl_status", "dl_zrem", "dl_hdel", "dl_share", "dl_user",
              "dl_lock", "dl_select", "dl_count", "dl_remove"}

DeletesApart ==
    /\ \A t \in Threads : pc[t] \in DeletePCs => req[t].op = "del"
    /\ \A s, t \in Threads :
          pc[s] \in DeletePCs /\ pc[t] \in DeletePCs /\ KeyOf(s) = KeyOf(t)
              => s = t

RowStillThere ==
    \A t \in Threads : pc[t] \in {"dl_zrem", "dl_hdel", "dl_share", "dl_user"}
                           => KeyOf(t) \in user_file_list

LockedReadsHold ==
    \A t \in Threads :
        /\ pc[t] = "up_count" => HasInfo(M(t))
        /\ pc[t] = "dl_count" => cnt[t] = file_info[M(t)].count

\* The inductive form of RefCountCovers.
RefCountInv == /\ DeletesApart /\ RowStillThere /\ LockedReadsHold
               /\ RefCountCovers

\* A user who has a row in user_file_list can download the file: it has a
\* file_info record, and FastDFS has its data, though handleDeleteFile
\* removes the data of deleted files after it has let go of the lock.
OwnedFilesAvailable ==
    \A k \in user_file_list :
        /\ HasInfo(Md5Of(k))
        /\ fdfs[file_info[Md5Of(k)].file_id] = "stored"

\* What a handler remembers of the file in hand: file_exsit is set only behind
\* the statement that sets it, and what was inserted or read inside the lock
\* is what file_info says.
LocalsRight ==
    \A t \in Threads :
        /\ exsit[t] => pc[t] \in {"up_insert_user", "up_remove", "reply"}
        /\ pc[t] = "up_insert_user" /\ ~ exsit[t] =>
              file_info[M(t)] = [count |-> 1, file_id |-> fid[t]]
        /\ pc[t] = "dl_count" => file_info[M(t)].file_id = fid[t]

\* A thread at one of these statements has data in FastDFS in hand: uploaded,
\* or no longer recorded and not removed yet. It is its own unless it has just
\* been recorded.
HoldPCs == {"up_url", "up_lock", "up_insert_info", "up_count",
            "up_insert_user", "up_remove", "dl_remove"}

HoldsFile(t) == pc[t] \in HoldPCs /\ (pc[t] = "up_insert_user" => exsit[t])

\* Every id that is in use has one place where it is: one record, or the hands
\* of one thread.
RecordsStored ==
    \A m \in Md5s : HasInfo(m) =>
        /\ file_info[m].file_id \in FileIds
        /\ fdfs[file_info[m].file_id] = "stored"

RecordsApart ==
    \A m, n \in Md5s :
        HasInfo(m) /\ HasInfo(n) /\ file_info[m].file_id = file_info[n].file_id
            => m = n

HeldStored ==
    \A t \in Threads : HoldsFile(t) =>
        /\ fid[t] \in FileIds
        /\ fdfs[fid[t]] = "stored"
        /\ \A m \in Md5s : HasInfo(m) => file_info[m].file_id # fid[t]

HeldApart ==
    \A s, t \in Threads :
        HoldsFile(s) /\ HoldsFile(t) /\ fid[s] = fid[t] => s = t

\* With RefCountInv, the inductive form of OwnedFilesAvailable.
FilesInv == RecordsStored /\ RecordsApart /\ HeldStored /\ HeldApart

\* The digests a user can download, and the promise of FileStore kept: each
\* statement of each handler stores a file, gives or takes one row of a file
\* that is stored, discards a file nobody has, or does neither.
Available == {m \in Md5s : /\ HasInfo(m)
                           /\ fdfs[file_info[m].file_id] = "stored"}

Promise == INSTANCE FileStore
           WITH Keys <- Key, Digests <- Md5s, Digest <- Md5Of, Seed <- SeedRows,
                owned <- user_file_list, available <- Available

KeepsPromise == Promise!Spec

\* No data stays in FastDFS that neither a file_info record nor a request in
\* progress knows of: nobody could ever delete it. (It takes a healthy FastDFS
\* whose tools no other thread waits for, and the answer to the statement that
\* deletes the record: handleDeleteFile ends without it.)
NoOrphans ==
    \A f \in FileIds : fdfs[f] = "stored" =>
        \/ \E m \in Md5s : file_info[m].file_id = f
        \/ \E t \in Threads : fid[t] = f /\ pc[t] # "reply"

\* With LocalsRight, the inductive form of NoOrphans: the request in progress
\* is one that will record the data or remove it.
StoredKnown ==
    \A f \in FileIds : fdfs[f] = "stored" =>
        \/ \E m \in Md5s : file_info[m].file_id = f
        \/ \E t \in Threads : fid[t] = f /\ pc[t] \in HoldPCs

-----------------------------------------------------------------------------
(* Published files *)

\* A file that is flagged as shared in its owner's list has been published:
\* there is a row of share_file_list, or a share or delete of this very row
\* is on its way. (Not so when the answer is lost that the flag has been set,
\* or that the row has gone: the handlers end there.)
SharedHasRow ==
    \A k \in shared_status :
        \/ \E r \in SharesOf(FileOf(k)) : r.user = UserOf(k)
        \/ \E t \in Threads :
              pc[t] \in {"sh_insert", "dl_user"} /\ KeyOf(t) = k

\* Whatever is published can be downloaded: its file_info record and its data
\* exist. handleDeleteFile withdraws the share before it gives up the row,
\* and the row before the reference.
PublishedFilesAvailable ==
    \A r \in share_file_list :
        /\ HasInfo(r.file[1])
        /\ fdfs[file_info[r.file[1]].file_id] = "stored"

\* What the two rest on: the share, cancel and delete requests of one row do
\* not overlap,
RowPCs == DeletePCs \cup
          {"sh_lock", "sh_exist", "sh_check", "sh_status", "sh_insert",
           "sh_recheck", "sh_zadd", "sh_hset", "sh_release",
           "cn_status", "cn_drop", "cn_zrem", "cn_hdel"}

RowHandlersApart ==
    /\ \A t \in Threads :
          pc[t] \in RowPCs => req[t].op \in {"share", "cancel", "del"}
    /\ \A s, t \in Threads :
          pc[s] \in RowPCs /\ pc[t] \in RowPCs /\ KeyOf(s) = KeyOf(t) => s = t

\* handleCancelShareFile drops the rows of a file it has taken the flag from,
CancelUnflagged ==
    \A t \in Threads : pc[t] = "cn_drop" => KeyOf(t) \notin shared_status

\* handleShareFile publishes a row it has flagged in its owner's list,
ShareFlagged ==
    \A t \in Threads :
        /\ pc[t] \in {"sh_lock", "sh_exist", "sh_check", "sh_status",
                      "sh_insert"} => KeyOf(t) \in user_file_list
        /\ pc[t] = "sh_insert" => KeyOf(t) \in shared_status

\* handleDeleteFile gives up a row nothing is published of any more,
Published == {<<r.user, r.file[1], r.file[2]>> : r \in share_file_list}

DeleteUnpublished ==
    \A t \in Threads : pc[t] = "dl_user" => KeyOf(t) \notin Published

\* and what is published is in its owner's list, flagged or about to go.
PublishedOwned ==
    \A k \in Published :
        /\ k \in user_file_list
        /\ \/ k \in shared_status
           \/ \E t \in Threads : pc[t] = "cn_drop" /\ KeyOf(t) = k

\* With RowHandlersApart, the inductive forms of the two.
SharedInv    == SharedHasRow /\ CancelUnflagged
PublishedInv == ShareFlagged /\ DeleteUnpublished /\ PublishedOwned

-----------------------------------------------------------------------------
(* Progress *)

\* Every request is answered.
Answered == \A t \in Threads : pc[t] # "idle" ~> pc[t] = "idle"

\* Whoever takes the FileInfoLock gives it back, on every path out of the
\* handlers: the early exits too.
LockReleased == (locked # NoThread) ~> (locked = NoThread)
=============================================================================
