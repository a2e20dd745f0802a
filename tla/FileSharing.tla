---------------------------- MODULE FileSharing ----------------------------
(***************************************************************************)
(* The handlers that publish files and count downloads: handleShareFile,   *)
(* handleCancelShareFile, the two handlePvFile and                         *)
(* handleGetRankingFilelist. The published files are kept twice, in the    *)
(* MySQL table share_file_list and in the Redis sorted set and hash, and   *)
(* no step changes both.                                                   *)
(***************************************************************************)
EXTENDS FileHubState

F(t) == FileOf(KeyOf(t))

Members == {f \in File : zset[f] # Absent}

\* ZLEXCOUNT zset [f [f, the test ZsetExist is made of: exact as long as all
\* members have one score, and otherwise it may miss a member.
ZsetExist(f) ==
    IF f \notin Members THEN {0}
    ELSE IF \A g \in Members : zset[g] = zset[f] THEN {1} ELSE {0, 1}

ZsetAdd(f, score) == zset' = [zset EXCEPT ![f] = score]
ZsetIncr(f)       == ZsetAdd(f, IF f \in Members THEN zset[f] + 1 ELSE 1)
ZsetZrem(f)       == zset' = [zset EXCEPT ![f] = Absent]
Hset(f)           == file_name_hash' = file_name_hash \cup {f}
Hdel(f)           == file_name_hash' = file_name_hash \ {f}

-----------------------------------------------------------------------------
(* handleShareFile *)

\* The "distributed lock" is a plain SET: it succeeds whoever else has set
\* the key, and nothing ever reads it. Only a Redis that is down for all ten
\* attempts stops the request here.
ShareLock(t) ==
    /\ pc[t] = "sh_lock"
    /\ \/ Goto(t, "sh_exist") /\ UNCHANGED code
       \/ Fails("redis") /\ Return(t, 1)
    /\ UNCHANGED <<tableVars, attrVars, shareVars, locked, threadVars, issued>>

\* "already in Redis": answer 3 and release
ShareExist(t) ==
    /\ pc[t] = "sh_exist"
    /\ \/ /\ 1 \in ZsetExist(F(t))
          /\ Goto(t, "sh_release")
          /\ code' = [code EXCEPT ![t] = 3]
       \/ /\ 0 \in ZsetExist(F(t)) \/ Fails("redis")
          /\ Goto(t, "sh_check")
          /\ UNCHANGED code
    /\ UNCHANGED <<tableVars, attrVars, shareVars, locked, threadVars, issued>>

\* "already in MySQL": Redis is brought up to date, and the answer is 3
ShareCheck(t) ==
    /\ pc[t] = "sh_check"
    /\ \/ /\ SharesOf(F(t)) # {}
          /\ Goto(t, "sh_zadd")
          /\ code' = [code EXCEPT ![t] = 3]
       \/ /\ SharesOf(F(t)) = {} \/ Fails("select")
          /\ Goto(t, "sh_status")
          /\ UNCHANGED code
    /\ UNCHANGED <<tableVars, attrVars, shareVars, locked, threadVars, issued>>

\* Mutant: the flag is set whether there is such a row or not.
ShareStatusUpserts(t) ==
    /\ pc[t] = "sh_status"
    /\ shared_status' = shared_status \cup {KeyOf(t)}
    /\ Goto(t, "sh_insert")
    /\ UNCHANGED <<tableVars, user_pv, shareVars, locked, threadVars, code,
                   issued>>

\* shared_status = 1; zero rows are no failure, so the file need not be owned
ShareStatus(t) ==
    /\ pc[t] = "sh_status"
    /\ \/ /\ shared_status' = shared_status
                                 \cup ({KeyOf(t)} \cap user_file_list)
          /\ Goto(t, "sh_insert")
          /\ UNCHANGED code
       \/ /\ \/ Fails("update_user_file") /\ UNCHANGED shared_status
             \/ /\ AnswerLost("update_user_file")
                /\ shared_status' = shared_status
                                       \cup ({KeyOf(t)} \cap user_file_list)
          /\ Goto(t, "sh_release")
          /\ code' = [code EXCEPT ![t] = 1]
    /\ UNCHANGED <<tableVars, user_pv, shareVars, locked, threadVars, issued>>

\* insert ... on duplicate key: the table has no key a row could duplicate
ShareInsert(t) ==
    /\ pc[t] = "sh_insert"
    /\ \/ /\ share_file_list' = share_file_list \cup
                {[id |-> share_id, user |-> UserOf(KeyOf(t)),
                  file |-> F(t), pv |-> 0]}
          /\ share_id' = share_id + 1
          /\ \/ Goto(t, "sh_zadd")
             \/ AnswerLost("insert_share") /\ Goto(t, "sh_recheck")
       \/ /\ Fails("insert_share")
          /\ Goto(t, "sh_recheck")
          /\ UNCHANGED <<share_file_list, share_id>>
    /\ UNCHANGED <<tableVars, attrVars, zset, file_name_hash, locked,
                   threadVars, code, issued>>

ShareRecheck(t) ==
    /\ pc[t] = "sh_recheck"
    /\ \/ SharesOf(F(t)) # {} /\ Goto(t, "sh_zadd") /\ UNCHANGED code
       \/ /\ SharesOf(F(t)) = {} \/ Fails("select")
          /\ Goto(t, "sh_release")
          /\ code' = [code EXCEPT ![t] = 1]
    /\ UNCHANGED <<tableVars, attrVars, shareVars, locked, threadVars, issued>>

ShareZadd(t) ==
    /\ pc[t] = "sh_zadd"
    /\ ZsetAdd(F(t), 0) \/ (Fails("redis") /\ UNCHANGED zset)
    /\ Goto(t, "sh_hset")
    /\ UNCHANGED <<tableVars, attrVars, share_file_list, share_id,
                   file_name_hash, locked, threadVars, code, issued>>

ShareHset(t) ==
    /\ pc[t] = "sh_hset"
    /\ Hset(F(t)) \/ (Fails("redis") /\ UNCHANGED file_name_hash)
    /\ Goto(t, "sh_release")
    /\ UNCHANGED <<tableVars, attrVars, share_file_list, share_id, zset,
                   locked, threadVars, code, issued>>

\* DEL lock_key, and the answer set above
ShareRelease(t) ==
    /\ pc[t] = "sh_release"
    /\ Goto(t, "reply")
    /\ UNCHANGED <<tableVars, attrVars, shareVars, locked, threadVars, code,
                   issued>>

Share(t) ==
    \/ ShareLock(t) \/ ShareExist(t) \/ ShareCheck(t) \/ ShareStatus(t)
    \/ ShareInsert(t) \/ ShareRecheck(t) \/ ShareZadd(t) \/ ShareHset(t)
    \/ ShareRelease(t)

-----------------------------------------------------------------------------
(* handleCancelShareFile *)

\* Mutant: the flag of the owner's row is not taken back.
CancelStatusKept(t) ==
    /\ pc[t] = "cn_status"
    /\ Goto(t, "cn_drop")
    /\ UNCHANGED <<tableVars, attrVars, shareVars, locked, threadVars, code,
                   issued>>

CancelStatus(t) ==
    /\ pc[t] = "cn_status"
    /\ \/ /\ shared_status' = shared_status \ {KeyOf(t)}
          /\ \/ Goto(t, "cn_drop") /\ UNCHANGED code
             \/ AnswerLost("update_user_file") /\ Return(t, 1)
       \/ Fails("update_user_file") /\ Return(t, 1) /\ UNCHANGED shared_status
    /\ UNCHANGED <<tableVars, user_pv, shareVars, locked, threadVars, issued>>

\* Only the rows of this user go: zero rows are no failure.
CancelDrop(t) ==
    /\ pc[t] = "cn_drop"
    /\ \/ /\ DropShares(KeyOf(t))
          /\ \/ Goto(t, "cn_zrem") /\ UNCHANGED code
             \/ AnswerLost("drop_share") /\ Return(t, 1)
       \/ Fails("drop_share") /\ Return(t, 1) /\ UNCHANGED share_file_list
    /\ UNCHANGED <<tableVars, attrVars, share_id, zset, file_name_hash, locked,
                   threadVars, issued>>

\* The member goes whoever shared it.
CancelZrem(t) ==
    /\ pc[t] = "cn_zrem"
    /\ \/ /\ ZsetZrem(F(t))
          /\ \/ Goto(t, "cn_hdel") /\ UNCHANGED code
             \/ AnswerLost("redis") /\ Return(t, 1)
       \/ Fails("redis") /\ Return(t, 1) /\ UNCHANGED zset
    /\ UNCHANGED <<tableVars, attrVars, share_file_list, share_id,
                   file_name_hash, locked, threadVars, issued>>

\* HDEL returns the number of fields it removed, taken for an error code.
CancelHdel(t) ==
    /\ pc[t] = "cn_hdel"
    /\ \/ /\ Hdel(F(t))
          /\ \/ Return(t, IF F(t) \in file_name_hash THEN 1 ELSE 0)
             \/ AnswerLost("redis") /\ Return(t, 1)
       \/ Fails("redis") /\ Return(t, 1) /\ UNCHANGED file_name_hash
    /\ UNCHANGED <<tableVars, attrVars, share_file_list, share_id, zset, locked,
                   threadVars, issued>>

Cancel(t) == CancelStatus(t) \/ CancelDrop(t) \/ CancelZrem(t) \/ CancelHdel(t)

-----------------------------------------------------------------------------
(* handlePvFile of api_dealfile.cc: a download of one's own file *)

PvSelect(t) ==
    /\ pc[t] = "pv_select"
    /\ \/ /\ KeyOf(t) \in user_file_list
          /\ cnt' = [cnt EXCEPT ![t] = user_pv[KeyOf(t)]]
          /\ Goto(t, "pv_update")
          /\ UNCHANGED code
       \/ /\ KeyOf(t) \notin user_file_list \/ Fails("select")
          /\ Return(t, 1)
          /\ UNCHANGED cnt
    /\ UNCHANGED <<tableVars, attrVars, shareVars, locked,
                   req, fid, exsit, rows, page, issued>>

\* MySQL counts the rows it changed: writing the value that is there already
\* affects none, which ExecuteUpdate reports as a failure.
PvUpdate(t) ==
    /\ pc[t] = "pv_update"
    /\ LET changes == /\ KeyOf(t) \in user_file_list
                      /\ user_pv[KeyOf(t)] # cnt[t] + 1
       IN \/ /\ changes
             /\ user_pv' = [user_pv EXCEPT ![KeyOf(t)] = cnt[t] + 1]
             /\ \/ Return(t, 0)
                \/ AnswerLost("update_user_file") /\ Return(t, 1)
          \/ /\ ~ changes \/ Fails("update_user_file")
             /\ Return(t, 1)
             /\ UNCHANGED user_pv
    /\ UNCHANGED <<tableVars, shared_status, shareVars, locked, threadVars,
                   issued>>

Pv(t) == PvSelect(t) \/ PvUpdate(t)

-----------------------------------------------------------------------------
(* handlePvFile of api_deal_sharefile.cc: a download of a published file *)

SharePvSelect(t) ==
    /\ pc[t] = "sp_select"
    /\ \/ /\ \E r \in SharesOf(F(t)) : cnt' = [cnt EXCEPT ![t] = r.pv]
          /\ Goto(t, "sp_update")
          /\ UNCHANGED code
       \/ /\ SharesOf(F(t)) = {} \/ Fails("select")
          /\ Return(t, 1)
          /\ UNCHANGED cnt
    /\ UNCHANGED <<tableVars, attrVars, shareVars, locked,
                   req, fid, exsit, rows, page, issued>>

\* Every row of the file gets the value read above plus one.
SharePvUpdate(t) ==
    /\ pc[t] = "sp_update"
    /\ \/ /\ share_file_list' =
                {IF r.file = F(t) THEN [r EXCEPT !.pv = cnt[t] + 1] ELSE r :
                    r \in share_file_list}
          /\ \/ Goto(t, "sp_exist") /\ UNCHANGED code
             \/ AnswerLost("update_share") /\ Return(t, 1)
       \/ Fails("update_share") /\ Return(t, 1) /\ UNCHANGED share_file_list
    /\ UNCHANGED <<tableVars, attrVars, share_id, zset, file_name_hash, locked,
                   threadVars, issued>>

SharePvExist(t) ==
    /\ pc[t] = "sp_exist"
    /\ \/ 0 \in ZsetExist(F(t)) /\ Goto(t, "sp_zadd") /\ UNCHANGED code
       \/ 1 \in ZsetExist(F(t)) /\ Goto(t, "sp_zincr") /\ UNCHANGED code
       \/ Fails("redis") /\ Return(t, 1)
    /\ UNCHANGED <<tableVars, attrVars, shareVars, locked, threadVars, issued>>

SharePvZadd(t) ==
    /\ pc[t] = "sp_zadd"
    /\ \/ /\ ZsetAdd(F(t), cnt[t] + 1)
          /\ \/ Goto(t, "sp_hset") /\ UNCHANGED code
             \/ AnswerLost("redis") /\ Return(t, 1)
       \/ Fails("redis") /\ Return(t, 1) /\ UNCHANGED zset
    /\ UNCHANGED <<tableVars, attrVars, share_file_list, share_id,
                   file_name_hash, locked, threadVars, issued>>

SharePvHset(t) ==
    /\ pc[t] = "sp_hset"
    /\ Hset(F(t)) \/ (Fails("redis") /\ UNCHANGED file_name_hash)
    /\ Return(t, 0)
    /\ UNCHANGED <<tableVars, attrVars, share_file_list, share_id, zset, locked,
                   threadVars, issued>>

\* ZINCRBY creates the member when it is gone. Its answer is a number and
\* never "OK": the handler returns 1; without a connection it returns 0. (A
\* lost answer is a NULL reply, which is dereferenced: a Crash.)
SharePvZincr(t) ==
    /\ pc[t] = "sp_zincr"
    /\ \/ ZsetIncr(F(t)) /\ Return(t, 1)
       \/ Fails("redis") /\ Return(t, 0) /\ UNCHANGED zset
    /\ UNCHANGED <<tableVars, attrVars, share_file_list, share_id,
                   file_name_hash, locked, threadVars, issued>>

SharePv(t) ==
    \/ SharePvSelect(t) \/ SharePvUpdate(t) \/ SharePvExist(t)
    \/ SharePvZadd(t) \/ SharePvHset(t) \/ SharePvZincr(t)

-----------------------------------------------------------------------------
(* handleGetRankingFilelist, for a page that holds every member *)

\* select count(*) from share_file_list
RankingCount(t) ==
    /\ pc[t] = "rk_count"
    /\ \/ /\ cnt' = [cnt EXCEPT ![t] = Cardinality(share_file_list)]
          /\ Goto(t, "rk_zcard")
          /\ UNCHANGED code
       \/ Fails("select") /\ Return(t, 1) /\ UNCHANGED cnt
    /\ UNCHANGED <<tableVars, attrVars, shareVars, locked,
                   req, fid, exsit, rows, page, issued>>

\* Equal numbers are taken for equal contents.
RankingZcard(t) ==
    /\ pc[t] = "rk_zcard"
    /\ \/ /\ Goto(t, IF Cardinality(Members) = cnt[t] THEN "rk_range"
                                                      ELSE "rk_delz")
          /\ UNCHANGED code
       \/ Fails("redis") /\ Return(t, 1)
    /\ UNCHANGED <<tableVars, attrVars, shareVars, locked, threadVars, issued>>

RankingDelZset(t) ==
    /\ pc[t] = "rk_delz"
    /\ zset' = [f \in File |-> Absent] \/ (Fails("redis") /\ UNCHANGED zset)
    /\ Goto(t, "rk_delh")
    /\ UNCHANGED <<tableVars, attrVars, share_file_list, share_id,
                   file_name_hash, locked, threadVars, code, issued>>

RankingDelHash(t) ==
    /\ pc[t] = "rk_delh"
    /\ file_name_hash' = {} \/ (Fails("redis") /\ UNCHANGED file_name_hash)
    /\ Goto(t, "rk_select")
    /\ UNCHANGED <<tableVars, attrVars, share_file_list, share_id, zset, locked,
                   threadVars, code, issued>>

\* select md5, file_name, pv from share_file_list order by pv desc
RankingSelect(t) ==
    /\ pc[t] = "rk_select"
    /\ \/ /\ rows' = [rows EXCEPT ![t] = share_file_list]
          /\ Goto(t, "rk_zadd")
          /\ UNCHANGED code
       \/ Fails("select") /\ Return(t, 1) /\ UNCHANGED rows
    /\ UNCHANGED <<tableVars, attrVars, shareVars, locked,
                   req, fid, exsit, cnt, page, issued>>

\* The row of the result set whose turn it is (none when all are loaded).
NextRow(t) == {r \in rows[t] : \A q \in rows[t] :
                  r.pv > q.pv \/ (r.pv = q.pv /\ r.id <= q.id)}

RankingZadd(t) ==
    /\ pc[t] = "rk_zadd"
    /\ \/ \E r \in NextRow(t) :
            /\ ZsetAdd(r.file, r.pv) \/ (Fails("redis") /\ UNCHANGED zset)
            /\ Goto(t, "rk_hset")
       \/ rows[t] = {} /\ Goto(t, "rk_range") /\ UNCHANGED zset
    /\ UNCHANGED <<tableVars, attrVars, share_file_list, share_id,
                   file_name_hash, locked, threadVars, code, issued>>

RankingHset(t) ==
    /\ pc[t] = "rk_hset"
    /\ \E r \in NextRow(t) :
          /\ Hset(r.file) \/ (Fails("redis") /\ UNCHANGED file_name_hash)
          /\ rows' = [rows EXCEPT ![t] = @ \ {r}]
    /\ Goto(t, "rk_zadd")
    /\ UNCHANGED <<tableVars, attrVars, share_file_list, share_id, zset, locked,
                   req, fid, exsit, cnt, page, code, issued>>

\* ZREVRANGE: the members, as they are now
RankingRange(t) ==
    /\ pc[t] = "rk_range"
    /\ \/ /\ page' = [page EXCEPT ![t] = Members]
          /\ Goto(t, "rk_hget")
          /\ UNCHANGED code
       \/ Fails("redis") /\ Return(t, 1) /\ UNCHANGED page
    /\ UNCHANGED <<tableVars, attrVars, shareVars, locked,
                   req, fid, exsit, cnt, rows, issued>>

\* HGET and ZSCORE of one member after the other: a member without a name or
\* a score fails the whole page. The two reads of a member are one step: all
\* that depends on them is the answer.
RankingHget(t) ==
    /\ pc[t] = "rk_hget"
    /\ \/ \E f \in page[t] :
            \/ /\ f \in file_name_hash \cap Members
               /\ page' = [page EXCEPT ![t] = @ \ {f}]
               /\ UNCHANGED <<pc, code>>
            \/ /\ f \notin file_name_hash \cap Members \/ Fails("redis")
               /\ Return(t, 1)
               /\ UNCHANGED page
       \/ page[t] = {} /\ Return(t, 0) /\ UNCHANGED page
    /\ UNCHANGED <<tableVars, attrVars, shareVars, locked,
                   req, fid, exsit, cnt, rows, issued>>

Ranking(t) ==
    \/ RankingCount(t) \/ RankingZcard(t) \/ RankingDelZset(t)
    \/ RankingDelHash(t) \/ RankingSelect(t) \/ RankingZadd(t)
    \/ RankingHset(t) \/ RankingRange(t) \/ RankingHget(t)
=============================================================================
