--------------------------- MODULE FileOwnership ---------------------------
(***************************************************************************)
(* The handlers that decide who owns which file and how often a file is    *)
(* referenced: ApiUpload (with storeFileinfo), handleDealMd5 ("instant     *)
(* upload"), handleSaveFile and handleDeleteFile. Every change of          *)
(* file_info happens under the FileInfoLock; the rows of user_file_list    *)
(* and the data in FastDFS change outside of it as well.                   *)
(***************************************************************************)
EXTENDS FileHubState

-----------------------------------------------------------------------------
(* ApiUpload *)

\* uploadFileToFastDfs: FastDFS gives out a fresh id. When the child fails or
\* is too slow the handler gives up, and the data may be in FastDFS or not;
\* it gives up as well when another thread has taken its child.
UploadFile(t) ==
    /\ pc[t] = "up_fdfs"
    /\ \E f \in FileIds :
          /\ fdfs[f] = "unused"
          /\ \/ /\ fdfs' = [fdfs EXCEPT ![f] = "stored"]
                /\ fid' = [fid EXCEPT ![t] = f]
                /\ Goto(t, "up_url")
                /\ UNCHANGED code
             \/ /\ \/ /\ Fails("fdfs_upload") \/ Robbed(t)
                      /\ fdfs' = [fdfs EXCEPT ![f] = "stored"]
                   \/ Fails("fdfs_upload") /\ UNCHANGED fdfs
                /\ Return(t, 1)
                /\ UNCHANGED fid
    /\ UNCHANGED <<file_info, user_file_list, attrVars, shareVars, locked,
                   req, exsit, cnt, rows, page, issued>>

\* getFullUrlByFileid; on failure the uploaded file is left where it is.
UploadUrl(t) ==
    /\ pc[t] = "up_url"
    /\ \/ Goto(t, "up_lock") /\ UNCHANGED code
       \/ Fails("get_full_url") /\ Return(t, 1)
    /\ UNCHANGED <<tableVars, attrVars, shareVars, locked, threadVars, issued>>

UploadLock(t) == Acquire(t, "up_lock", "up_insert_info")

\* Mutant: storeFileinfo's -1 ends the request at once.
UploadTimeoutLeavesData(t) == Timeout(t, "up_lock", 1)

\* storeFileinfo returns -1 and ApiUpload removes what it uploaded.
UploadTimeout(t) ==
    /\ pc[t] = "up_lock" /\ locked # NoThread
    /\ Goto(t, "up_remove")
    /\ code' = [code EXCEPT ![t] = 1]
    /\ UNCHANGED <<tableVars, attrVars, shareVars, locked, threadVars, issued>>

\* insert into file_info ... count 1: refused by UNIQUE(md5), or failed.
UploadInsertInfo(t) ==
    /\ pc[t] = "up_insert_info"
    /\ \/ /\ ~ HasInfo(M(t))
          /\ file_info' = [file_info EXCEPT ![M(t)] =
                              [count |-> 1, file_id |-> fid[t]]]
          /\ \/ Goto(t, "up_insert_user")
             \/ AnswerLost("insert_file_info") /\ Goto(t, "up_count")
       \/ /\ HasInfo(M(t)) \/ Fails("insert_file_info")
          /\ Goto(t, "up_count")
          /\ UNCHANGED file_info
    /\ UNCHANGED <<user_file_list, fdfs, attrVars, shareVars, locked,
                   threadVars, code, issued>>

\* Mutant: a file that exists already is not counted once more.
UploadCountForgotten(t) ==
    /\ pc[t] = "up_count"
    /\ exsit' = [exsit EXCEPT ![t] = TRUE]
    /\ Goto(t, "up_insert_user")
    /\ UNCHANGED <<tableVars, attrVars, shareVars, locked,
                   req, fid, cnt, rows, page, code, issued>>

\* Whatever the reason of the failed insert, one more reference is counted
\* and the file is taken to exist.
UploadCount(t) ==
    /\ pc[t] = "up_count"
    /\ \/ /\ file_info' = CountPlusOne(M(t))
          /\ exsit' = [exsit EXCEPT ![t] = TRUE]
          /\ Goto(t, "up_insert_user")
          /\ UNCHANGED <<locked, code>>
       \/ /\ \/ Fails("update_file_info") /\ UNCHANGED file_info
             \/ /\ AnswerLost("update_file_info")
                /\ file_info' = CountPlusOne(M(t))
          /\ Unlock
          /\ Goto(t, "up_remove")
          /\ code' = [code EXCEPT ![t] = 1]
          /\ UNCHANGED exsit
    /\ UNCHANGED <<user_file_list, fdfs, attrVars, shareVars,
                   req, fid, cnt, rows, page, issued>>

\* Mutant: what was uploaded is removed whether the file existed or not.
UploadInsertUserRemoves(t) ==
    /\ pc[t] = "up_insert_user"
    /\ \/ /\ KeyOf(t) \notin user_file_list
          /\ InsertUserRow(KeyOf(t))
          /\ code' = [code EXCEPT ![t] = 0]
       \/ /\ KeyOf(t) \in user_file_list \/ Fails("insert_user_file")
          /\ code' = [code EXCEPT ![t] = 1]
          /\ UNCHANGED <<user_file_list, attrVars>>
    /\ Goto(t, "up_remove")
    /\ Unlock
    /\ UNCHANGED <<file_info, fdfs, shareVars, threadVars, issued>>

\* insert into user_file_list, the end of storeFileinfo (its lock goes) and
\* what ApiUpload does with its result.
UploadInsertUser(t) ==
    /\ pc[t] = "up_insert_user"
    /\ \/ /\ KeyOf(t) \notin user_file_list
          /\ InsertUserRow(KeyOf(t))
          /\ \/ /\ code' = [code EXCEPT ![t] = 0]
                /\ Goto(t, IF exsit[t] THEN "up_remove" ELSE "reply")
             \/ /\ AnswerLost("insert_user_file")
                /\ code' = [code EXCEPT ![t] = 1]
                /\ Goto(t, "up_remove")
       \/ /\ KeyOf(t) \in user_file_list \/ Fails("insert_user_file")
          /\ code' = [code EXCEPT ![t] = 1]
          /\ Goto(t, "up_remove")
          /\ UNCHANGED <<user_file_list, attrVars>>
    /\ Unlock
    /\ UNCHANGED <<file_info, fdfs, shareVars, threadVars, issued>>

\* RemoveFileFromFastDfs(fileid); a failure is only logged.
UploadRemove(t) ==
    /\ pc[t] = "up_remove"
    /\ \/ RemoveFileFromFastDfs(fid[t])
       \/ Fails("fdfs_delete") /\ UNCHANGED fdfs
    /\ Goto(t, "reply")
    /\ UNCHANGED <<file_info, user_file_list, attrVars, shareVars, locked,
                   threadVars, code, issued>>

Upload(t) ==
    \/ UploadFile(t) \/ UploadUrl(t) \/ UploadLock(t) \/ UploadTimeout(t)
    \/ UploadInsertInfo(t) \/ UploadCount(t) \/ UploadInsertUser(t)
    \/ UploadRemove(t)

-----------------------------------------------------------------------------
(* handleDealMd5 and handleSaveFile *)

\* CheckwhetherHaveRecord on user_file_list: a failed query is taken for
\* "no record".
CheckOwned(t, at, then) ==
    /\ pc[t] = at
    /\ \/ KeyOf(t) \in user_file_list /\ Return(t, 5)
       \/ /\ KeyOf(t) \notin user_file_list \/ Fails("select")
          /\ Goto(t, then)
          /\ UNCHANGED code
    /\ UNCHANGED <<tableVars, attrVars, shareVars, locked, threadVars, issued>>

Md5Check(t)   == CheckOwned(t, "md_check", "md_lock")
Md5Lock(t)    == Acquire(t, "md_lock", "md_count")
Md5Timeout(t) == Timeout(t, "md_lock", 1)

\* Mutant: the early exit skips the unlock.
Md5CountKeepsLock(t) ==
    /\ pc[t] = "md_count"
    /\ file_info' = CountPlusOne(M(t))
    /\ Return(t, 1)
    /\ UNCHANGED <<user_file_list, fdfs, attrVars, shareVars, locked,
                   threadVars, issued>>

\* The count goes up; both branches then leave with Md5Failed.
Md5Count(t) ==
    /\ pc[t] = "md_count"
    /\ \/ file_info' = CountPlusOne(M(t))
       \/ Fails("update_file_info") /\ UNCHANGED file_info
    /\ Unlock
    /\ Return(t, 1)
    /\ UNCHANGED <<user_file_list, fdfs, attrVars, shareVars, threadVars,
                   issued>>

Md5(t) == Md5Check(t) \/ Md5Lock(t) \/ Md5Timeout(t) \/ Md5Count(t)

SaveCheck(t)   == CheckOwned(t, "sv_check", "sv_lock")
SaveLock(t)    == Acquire(t, "sv_lock", "sv_count")
SaveTimeout(t) == Timeout(t, "sv_lock", 1)

\* Mutant: ExecutePassQuery in place of ExecuteUpdate.
SaveCountMindsNoRows(t) ==
    /\ pc[t] = "sv_count"
    /\ file_info' = CountPlusOne(M(t))
    /\ Goto(t, "sv_insert")
    /\ Unlock
    /\ UNCHANGED <<user_file_list, fdfs, attrVars, shareVars, threadVars,
                   code, issued>>

\* ExecuteUpdate minds the number of rows: no row is a failure.
SaveCount(t) ==
    /\ pc[t] = "sv_count"
    /\ \/ /\ HasInfo(M(t))
          /\ file_info' = CountPlusOne(M(t))
          /\ \/ Goto(t, "sv_insert") /\ UNCHANGED code
             \/ AnswerLost("update_file_info") /\ Return(t, 1)
       \/ /\ ~ HasInfo(M(t)) \/ Fails("update_file_info")
          /\ Return(t, 1)
          /\ UNCHANGED file_info
    /\ Unlock
    /\ UNCHANGED <<user_file_list, fdfs, attrVars, shareVars, threadVars,
                   issued>>

\* Mutant: a row that cannot be inserted is tried again.
SaveInsertRetries(t) ==
    /\ pc[t] = "sv_insert"
    /\ \/ /\ KeyOf(t) \notin user_file_list
          /\ InsertUserRow(KeyOf(t))
          /\ Return(t, 0)
       \/ /\ KeyOf(t) \in user_file_list
          /\ UNCHANGED <<user_file_list, attrVars, pc, code>>
    /\ UNCHANGED <<file_info, fdfs, shareVars, locked, threadVars, issued>>

\* On failure the count is not taken back.
SaveInsert(t) ==
    /\ pc[t] = "sv_insert"
    /\ \/ /\ KeyOf(t) \notin user_file_list
          /\ InsertUserRow(KeyOf(t))
          /\ Return(t, 0) \/ (AnswerLost("insert_user_file") /\ Return(t, 1))
       \/ /\ KeyOf(t) \in user_file_list \/ Fails("insert_user_file")
          /\ Return(t, 1)
          /\ UNCHANGED <<user_file_list, attrVars>>
    /\ UNCHANGED <<file_info, fdfs, shareVars, locked, threadVars, issued>>

Save(t) == \/ SaveCheck(t) \/ SaveLock(t) \/ SaveTimeout(t)
           \/ SaveCount(t) \/ SaveInsert(t)

-----------------------------------------------------------------------------
(* handleDeleteFile *)

\* select shared_status: decides whether the share is withdrawn first. (A
\* failed query dereferences NULL: a Crash.)
DeleteStatus(t) ==
    /\ pc[t] = "dl_status"
    /\ \/ /\ KeyOf(t) \in user_file_list
          /\ Goto(t, IF KeyOf(t) \in shared_status THEN "dl_zrem"
                                                   ELSE "dl_user")
          /\ UNCHANGED code
       \/ KeyOf(t) \notin user_file_list /\ Return(t, 1)
    /\ UNCHANGED <<tableVars, attrVars, shareVars, locked, threadVars, issued>>

\* The results of ZREM and HDEL are not looked at.
DeleteZrem(t) ==
    /\ pc[t] = "dl_zrem"
    /\ \/ zset' = [zset EXCEPT ![FileOf(KeyOf(t))] = Absent]
       \/ Fails("redis") /\ UNCHANGED zset
    /\ Goto(t, "dl_hdel")
    /\ UNCHANGED <<tableVars, attrVars, share_file_list, share_id,
                   file_name_hash, locked, threadVars, code, issued>>

\* Mutant: the row of share_file_list is forgotten.
DeleteHdelOnly(t) ==
    /\ pc[t] = "dl_hdel"
    /\ file_name_hash' = file_name_hash \ {FileOf(KeyOf(t))}
    /\ Goto(t, "dl_user")
    /\ UNCHANGED <<tableVars, attrVars, share_file_list, share_id, zset,
                   locked, threadVars, code, issued>>

DeleteHdel(t) ==
    /\ pc[t] = "dl_hdel"
    /\ \/ file_name_hash' = file_name_hash \ {FileOf(KeyOf(t))}
       \/ Fails("redis") /\ UNCHANGED file_name_hash
    /\ Goto(t, "dl_share")
    /\ UNCHANGED <<tableVars, attrVars, share_file_list, share_id, zset,
                   locked, threadVars, code, issued>>

DeleteShare(t) ==
    /\ pc[t] = "dl_share"
    /\ \/ /\ DropShares(KeyOf(t))
          /\ \/ Goto(t, "dl_user") /\ UNCHANGED code
             \/ AnswerLost("drop_share") /\ Return(t, 1)
       \/ Fails("drop_share") /\ Return(t, 1) /\ UNCHANGED share_file_list
    /\ UNCHANGED <<tableVars, attrVars, share_id, zset, file_name_hash,
                   locked, threadVars, issued>>

\* The row goes before its reference is given up.
DeleteUser(t) ==
    /\ pc[t] = "dl_user"
    /\ \/ /\ DropUserRow(KeyOf(t))
          /\ \/ Goto(t, "dl_lock") /\ UNCHANGED code
             \/ AnswerLost("drop_user_file") /\ Return(t, 1)
       \/ /\ Fails("drop_user_file")
          /\ Return(t, 1)
          /\ UNCHANGED <<user_file_list, attrVars>>
    /\ UNCHANGED <<file_info, fdfs, shareVars, locked, threadVars, issued>>

DeleteLock(t) == Acquire(t, "dl_lock", "dl_select")

\* Mutant: a delete that waited in vain goes on without the lock.
DeleteTimeoutGoesOn(t) ==
    /\ pc[t] = "dl_lock" /\ locked # NoThread
    /\ Goto(t, "dl_select")
    /\ UNCHANGED <<tableVars, attrVars, shareVars, locked, threadVars, code,
                   issued>>

\* Without the lock count stays 0: nothing is done and 0 is returned.
DeleteTimeout(t) == Timeout(t, "dl_lock", 0)

\* select count, file_id from file_info
DeleteSelect(t) ==
    /\ pc[t] = "dl_select"
    /\ \/ /\ HasInfo(M(t))
          /\ cnt' = [cnt EXCEPT ![t] = file_info[M(t)].count]
          /\ fid' = [fid EXCEPT ![t] = file_info[M(t)].file_id]
          /\ Goto(t, "dl_count")
          /\ UNCHANGED <<locked, code>>
       \/ /\ ~ HasInfo(M(t)) \/ Fails("select")
          /\ Unlock
          /\ Return(t, 1)
          /\ UNCHANGED <<cnt, fid>>
    /\ UNCHANGED <<tableVars, attrVars, shareVars, req, exsit, rows, page,
                   issued>>

\* update file_info set count = count - 1, or delete from file_info; a count
\* below 1 would be left alone. A failure ends the request: the data stays,
\* whatever has become of the record.
DeleteCount(t) ==
    /\ pc[t] = "dl_count"
    /\ \/ cnt[t] < 1 /\ Return(t, 0) /\ UNCHANGED file_info
       \/ /\ cnt[t] > 1 /\ HasInfo(M(t))
          /\ file_info' = [file_info EXCEPT ![M(t)].count = @ - 1]
          /\ Return(t, 0) \/ (AnswerLost("update_file_info") /\ Return(t, 1))
       \/ /\ cnt[t] = 1
          /\ file_info' = [file_info EXCEPT ![M(t)] = NoInfo]
          /\ \/ Goto(t, "dl_remove") /\ UNCHANGED code
             \/ AnswerLost("drop_file_info") /\ Return(t, 1)
       \/ /\ \/ cnt[t] > 1 /\ (~ HasInfo(M(t)) \/ Fails("update_file_info"))
             \/ cnt[t] = 1 /\ Fails("drop_file_info")
          /\ Return(t, 1)
          /\ UNCHANGED file_info
    /\ Unlock
    /\ UNCHANGED <<user_file_list, fdfs, attrVars, shareVars, threadVars,
                   issued>>

\* RemoveFileFromFastDfs(file_id), outside the lock; system() misses its child
\* as well when another thread has taken it.
DeleteRemove(t) ==
    /\ pc[t] = "dl_remove"
    /\ \/ /\ RemoveFileFromFastDfs(fid[t])
          /\ \/ Return(t, 0)
             \/ (AnswerLost("fdfs_delete") \/ Robbed(t)) /\ Return(t, 1)
       \/ Fails("fdfs_delete") /\ Return(t, 1) /\ UNCHANGED fdfs
    /\ UNCHANGED <<file_info, user_file_list, attrVars, shareVars, locked,
                   threadVars, issued>>

Delete(t) ==
    \/ DeleteStatus(t) \/ DeleteZrem(t) \/ DeleteHdel(t) \/ DeleteShare(t)
    \/ DeleteUser(t) \/ DeleteLock(t) \/ DeleteTimeout(t) \/ DeleteSelect(t)
    \/ DeleteCount(t) \/ DeleteRemove(t)
=============================================================================
