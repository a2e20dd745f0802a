----------------------- MODULE FileHub_sharing_proofs -----------------------
(***************************************************************************)
(* Published files, for every number of threads, users, files and          *)
(* requests: the flag in the owner's list and the row of share_file_list   *)
(* agree but while a handler is between the two statements that change     *)
(* them, and what is published can be downloaded. The handlers do not      *)
(* serialise the requests on one row, so the proofs ask that of the        *)
(* clients; they rest on no statement of Redis.                            *)
(***************************************************************************)
EXTENDS FileHub_files_proofs

\* The clients send one request at a time on each of their rows, and the
\* process is not killed between the two statements that publish or withdraw.
SharingEnvironment ==
    {"share", "cancel", "del"} \subseteq Exclusive /\ ~ Crashes

-----------------------------------------------------------------------------
(* One handler per row *)

\* No statement of a handler makes it one of those: only Receive does.
LEMMA RowMoves ==
    ASSUME TypeOK, NEW t \in Threads, Ownership(t) \/ Sharing(t)
    PROVE  /\ UNCHANGED req
           /\ \E where \in PCs : /\ pc' = [pc EXCEPT ![t] = where]
                                 /\ where \in RowPCs => pc[t] \in RowPCs
  <1>1. CASE Ownership(t)
    BY <1>1, OwnershipFrame DEF RowPCs, PCs, OwnershipPCs
  <1>2. CASE Sharing(t)
    <2>1. PICK where \in SharingPCs \cup {"reply"} :
            pc' = [pc EXCEPT ![t] = where]
      BY <1>2, SharingFrame
    <2>2. UNCHANGED req /\ where \in PCs /\ pc'[t] = where
      BY <1>2, <2>1, SharingFrame DEF PCs, TypeOK
    <2>3. CASE Share(t) \/ Cancel(t)
      BY <2>1, <2>2, <2>3
      DEF Share, ShareLock, ShareExist, ShareCheck, ShareStatus, ShareInsert,
          ShareRecheck, ShareZadd, ShareHset, ShareRelease, Cancel,
          CancelStatus, CancelDrop, CancelZrem, CancelHdel, RowPCs
    <2>4. CASE Pv(t) \/ SharePv(t) \/ Ranking(t)
      <3>1. pc'[t] \in {"pv_update", "sp_update", "sp_exist", "sp_zadd",
                       "sp_hset", "sp_zincr", "rk_zcard", "rk_delz",
                       "rk_delh", "rk_select", "rk_zadd", "rk_hset",
                       "rk_range", "rk_hget", "reply"}
        <4> USE <2>4 DEF Goto, Return
        <4>0. pc \in [Threads -> PCs]
          BY DEF TypeOK
        <4>1. CASE PvSelect(t) \/ PvUpdate(t)
          BY <4>0, <4>1 DEF PvSelect, PvUpdate
        <4>2. CASE SharePv(t)
          BY <4>0, <4>2 DEF SharePv, SharePvSelect, SharePvUpdate,
             SharePvExist, SharePvZadd, SharePvHset, SharePvZincr
        <4>3. CASE RankingHget(t) \/ RankingZcard(t) \/ RankingRange(t)
          BY <4>0, <4>3 DEF RankingHget, RankingZcard, RankingRange
        <4>4. CASE \/ RankingCount(t) \/ RankingDelZset(t)
                   \/ RankingDelHash(t) \/ RankingSelect(t)
          BY <4>0, <4>4 DEF RankingCount, RankingDelZset, RankingDelHash,
             RankingSelect
        <4>5. CASE RankingZadd(t) \/ RankingHset(t)
          BY <4>0, <4>5 DEF RankingZadd, RankingHset
        <4> QED BY <4>1, <4>2, <4>3, <4>4, <4>5 DEF Pv, Ranking
      <3> QED BY <2>1, <2>2, <3>1 DEF RowPCs, DeletePCs
    <2> QED BY <1>2, <2>3, <2>4 DEF Sharing
  <1> QED BY <1>1, <1>2

\* The clients' promise is kept at every statement.
THEOREM RowsApart ==
    ASSUME SharingEnvironment
    PROVE  Spec => []RowHandlersApart
  <1>1. Init => RowHandlersApart
    BY DEF Init, RowHandlersApart, RowPCs, DeletePCs
  <1>2. TypeOK /\ RowHandlersApart /\ [Next]_vars => RowHandlersApart'
    <2> SUFFICES ASSUME TypeOK, RowHandlersApart, [Next]_vars
                 PROVE  RowHandlersApart'
      OBVIOUS
    <2>1. ASSUME NEW t \in Threads, Ownership(t) \/ Sharing(t)
          PROVE  RowHandlersApart'
      <3>1. PICK where \in PCs : /\ pc' = [pc EXCEPT ![t] = where]
                                 /\ where \in RowPCs => pc[t] \in RowPCs
        BY <2>1, RowMoves
      <3>2. UNCHANGED req
        BY <2>1, RowMoves
      <3>3. \A s \in Threads : pc'[s] \in RowPCs => pc[s] \in RowPCs
        BY <3>1 DEF TypeOK
      <3> QED BY <3>2, <3>3 DEF RowHandlersApart, KeyOf
    <2>2. ASSUME NEW t \in Threads, Receive(t) PROVE RowHandlersApart'
      <3>1. PICK r \in Request : /\ ~ Withheld(t, r)
                                 /\ req' = [req EXCEPT ![t] = r]
                                 /\ pc' = [pc EXCEPT ![t] = Entry[r.op]]
        BY <2>2, ConstantsAssumption DEF Receive, Request, Goto
      <3>2. Entry[r.op] \in RowPCs => r.op \in {"share", "cancel", "del"}
        BY DEF Entry, Request, AllCommands, RowPCs, DeletePCs
      <3>3. ASSUME r.op \in {"share", "cancel", "del"}, NEW s \in Threads,
                   s # t, pc[s] \in RowPCs
            PROVE  KeyOf(s) # r.key
        BY <3>1, <3>3 DEF Withheld, SharingEnvironment, RowHandlersApart,
                          RowPCs, DeletePCs, KeyOf
      <3>4. \A s \in Threads \ {t} : pc'[s] = pc[s] /\ req'[s] = req[s]
        BY <3>1 DEF TypeOK
      <3>5. pc'[t] = Entry[r.op] /\ req'[t] = r
        BY <3>1 DEF TypeOK
      <3>6. \A s \in Threads : pc'[s] \in RowPCs =>
                req'[s].op \in {"share", "cancel", "del"}
        BY <3>2, <3>4, <3>5 DEF RowHandlersApart
      <3>7. ASSUME NEW s \in Threads, s # t, pc'[s] \in RowPCs,
                   pc'[t] \in RowPCs
            PROVE  req'[s].key # req'[t].key
        BY <3>2, <3>3, <3>4, <3>5, <3>7 DEF KeyOf
      <3>8. ASSUME NEW s \in Threads \ {t}, NEW q \in Threads \ {t},
                   pc'[s] \in RowPCs, pc'[q] \in RowPCs,
                   req'[s].key = req'[q].key
            PROVE  s = q
        BY <3>4, <3>8 DEF RowHandlersApart, KeyOf
      <3> QED BY <3>6, <3>7, <3>8 DEF RowHandlersApart, KeyOf
    <2>3. ASSUME NEW t \in Threads, Refuse(t) \/ Reply(t)
          PROVE  RowHandlersApart'
      <3>1. \A s \in Threads : pc'[s] \in RowPCs =>
                pc'[s] = pc[s] /\ req'[s] = req[s]
        BY <2>3 DEF TypeOK, Refuse, Reply, Goto, RowPCs, DeletePCs
      <3> QED BY <3>1 DEF RowHandlersApart, KeyOf
    <2>4. CASE Crash
      BY <2>4 DEF Crash, SharingEnvironment
    <2>5. CASE UNCHANGED vars
      BY <2>5 DEF vars, threadVars, RowHandlersApart, KeyOf
    <2> QED
      BY <2>1, <2>2, <2>3, <2>4, <2>5 DEF Next, Work, Done
  <1> QED
    BY <1>1, <1>2, TypeCorrect, PTL DEF Spec

-----------------------------------------------------------------------------
(* What the statements do to the flags and to the published rows *)

\* The key of a published row is the one it is shared and dropped by.
LEMMA ShareKeys ==
    ASSUME NEW k \in Key, NEW r \in ShareRow
    PROVE  <<r.user, r.file[1], r.file[2]>> = k
               <=> r.user = UserOf(k) /\ r.file = FileOf(k)
  BY DEF Key, ShareRow, File, UserOf, FileOf

\* The statements between which flag and row disagree.
BetweenPCs == {"sh_insert", "cn_drop", "dl_user"}

At(t, from, to) == pc[t] = from /\ pc' = [pc EXCEPT ![t] = to]

\* Eight statements concern what is published; the others leave flags and
\* published rows alone, and drop no row of a user.
Effect(t) ==
    \/ /\ pc[t] \notin BetweenPCs /\ pc'[t] \notin BetweenPCs
       /\ \E where \in PCs :
             /\ pc' = [pc EXCEPT ![t] = where]
             /\ where \in {"sh_lock", "sh_exist", "sh_check", "sh_status"} =>
                   pc[t] \in {"sh_lock", "sh_exist", "sh_check"}
       /\ UNCHANGED <<shared_status, Published>>
       /\ user_file_list \subseteq user_file_list'
    \/ /\ At(t, "dl_status", "dl_user") /\ KeyOf(t) \notin shared_status
       /\ UNCHANGED <<user_file_list, shared_status, Published>>
    \/ /\ \/ At(t, "dl_share", "dl_user")
          \/ At(t, "dl_share", "reply") /\ "drop_share" \in LostAnswers
       /\ Published' = Published \ {KeyOf(t)}
       /\ UNCHANGED <<user_file_list, shared_status>>
    \/ /\ \/ At(t, "dl_user", "dl_lock")
          \/ At(t, "dl_user", "reply") /\ "drop_user_file" \in LostAnswers
       /\ user_file_list' = user_file_list \ {KeyOf(t)}
       /\ shared_status' = shared_status \ {KeyOf(t)}
       /\ UNCHANGED Published
    \/ /\ At(t, "dl_user", "reply") /\ "drop_user_file" \in Faults
       /\ UNCHANGED <<user_file_list, shared_status, Published>>
    \/ /\ \/ At(t, "sh_status", "sh_insert")
          \/ /\ At(t, "sh_status", "sh_release")
             /\ "update_user_file" \in LostAnswers
       /\ shared_status' = shared_status \cup ({KeyOf(t)} \cap user_file_list)
       /\ UNCHANGED <<user_file_list, Published>>
    \/ /\ \/ At(t, "sh_insert", "sh_zadd")
          \/ At(t, "sh_insert", "sh_recheck") /\ "insert_share" \in LostAnswers
       /\ Published' = Published \cup {KeyOf(t)}
       /\ UNCHANGED <<user_file_list, shared_status>>
    \/ /\ At(t, "sh_insert", "sh_recheck") /\ "insert_share" \in Faults
       /\ UNCHANGED <<user_file_list, shared_status, Published>>
    \/ /\ \/ At(t, "cn_status", "cn_drop")
          \/ /\ At(t, "cn_status", "reply")
             /\ "update_user_file" \in LostAnswers
       /\ shared_status' = shared_status \ {KeyOf(t)}
       /\ UNCHANGED <<user_file_list, Published>>
    \/ /\ \/ At(t, "cn_drop", "cn_zrem")
          \/ At(t, "cn_drop", "reply") /\ "drop_share" \in LostAnswers
       /\ Published' = Published \ {KeyOf(t)}
       /\ UNCHANGED <<user_file_list, shared_status>>
    \/ /\ At(t, "cn_drop", "reply") /\ "drop_share" \in Faults
       /\ UNCHANGED <<user_file_list, shared_status, Published>>

LEMMA PublishedSame ==
    ASSUME UNCHANGED share_file_list PROVE UNCHANGED Published
  BY DEF Published

LEMMA PublishedDrop ==
    ASSUME TypeOK, NEW k \in Key, DropShares(k)
    PROVE  Published' = Published \ {k}
  <1>1. share_file_list \subseteq ShareRow
    BY DEF TypeOK
  <1>2. share_file_list' = {r \in share_file_list :
                              <<r.user, r.file[1], r.file[2]>> # k}
    BY <1>1, ShareKeys DEF DropShares
  <1> QED BY <1>2 DEF Published

\* The rows that are inserted are new, so they have no flag to lose.
LEMMA OwnershipEffect ==
    ASSUME TypeOK, NEW t \in Threads, Ownership(t)
    PROVE  Effect(t)
  <1> USE DEF Goto, Return, tableVars, attrVars, shareVars
  <1>0. /\ pc \in [Threads -> PCs] /\ shared_status \subseteq user_file_list
        /\ KeyOf(t) \in Key
    BY OwnershipFrame, KeyTypes DEF TypeOK, OwnershipPCs
  <1>1. PICK where \in OwnershipPCs \cup {"reply"} :
          pc' = [pc EXCEPT ![t] = where]
    BY OwnershipFrame
  <1>2. pc'[t] = where /\ where \in PCs
    BY <1>0, <1>1 DEF PCs
  <1>3. CASE UploadInsertUser(t) \/ SaveInsert(t)
    <2>1. UNCHANGED share_file_list /\ pc[t] \in {"up_insert_user", "sv_insert"}
          /\ where \in {"up_remove", "reply"}
      BY <1>0, <1>2, <1>3 DEF UploadInsertUser, SaveInsert
    <2>2. \/ UNCHANGED <<user_file_list, shared_status>>
          \/ /\ KeyOf(t) \notin user_file_list
             /\ user_file_list' = user_file_list \cup {KeyOf(t)}
             /\ shared_status' = shared_status \ {KeyOf(t)}
      BY <1>3 DEF UploadInsertUser, SaveInsert, InsertUserRow
    <2> QED BY <1>0, <1>1, <1>2, <2>1, <2>2, PublishedSame
            DEF Effect, BetweenPCs
  <1>4. CASE DeleteStatus(t)
    <2>1. /\ UNCHANGED <<user_file_list, shared_status, share_file_list>>
          /\ pc[t] = "dl_status"
          /\ \/ where \in {"dl_zrem", "reply"}
             \/ where = "dl_user" /\ KeyOf(t) \notin shared_status
      BY <1>0, <1>2, <1>4 DEF DeleteStatus
    <2> QED BY <1>1, <1>2, <2>1, PublishedSame DEF Effect, At, BetweenPCs
  <1>5. CASE DeleteShare(t)
    <2>1. /\ UNCHANGED <<user_file_list, shared_status>> /\ pc[t] = "dl_share"
          /\ \/ /\ \/ where = "dl_user"
                   \/ where = "reply" /\ "drop_share" \in LostAnswers
                /\ DropShares(KeyOf(t))
             \/ where = "reply" /\ UNCHANGED share_file_list
      BY <1>0, <1>2, <1>5 DEF DeleteShare, AnswerLost
    <2> QED BY <1>0, <1>1, <1>2, <2>1, PublishedSame, PublishedDrop
            DEF Effect, At, BetweenPCs
  <1>6. CASE DeleteUser(t)
    <2>1. /\ UNCHANGED share_file_list /\ pc[t] = "dl_user"
          /\ \/ /\ \/ where = "dl_lock"
                   \/ where = "reply" /\ "drop_user_file" \in LostAnswers
                /\ DropUserRow(KeyOf(t))
             \/ /\ where = "reply" /\ "drop_user_file" \in Faults
                /\ UNCHANGED <<user_file_list, shared_status>>
      BY <1>0, <1>2, <1>6 DEF DeleteUser, Fails, AnswerLost
    <2> QED BY <1>0, <1>1, <1>2, <2>1, PublishedSame
            DEF Effect, At, BetweenPCs, DropUserRow
  <1>7. CASE /\ ~ UploadInsertUser(t) /\ ~ SaveInsert(t) /\ ~ DeleteStatus(t)
             /\ ~ DeleteShare(t) /\ ~ DeleteUser(t)
    <2>1. /\ UNCHANGED <<user_file_list, shared_status, share_file_list>>
          /\ pc[t] \notin BetweenPCs /\ pc'[t] \notin BetweenPCs
      <3> USE <1>0, <1>7 DEF BetweenPCs
      <3>1. CASE Upload(t)
        BY <3>1 DEF Upload, UploadFile, UploadUrl, UploadLock, UploadTimeout,
                    UploadInsertInfo, UploadCount, UploadRemove, Acquire
      <3>2. CASE Md5(t)
        BY <3>2 DEF Md5, Md5Check, Md5Lock, Md5Timeout, Md5Count, CheckOwned,
                    Acquire, Timeout
      <3>3. CASE Save(t)
        BY <3>3 DEF Save, SaveCheck, SaveLock, SaveTimeout, SaveCount,
                    CheckOwned, Acquire, Timeout
      <3>4. CASE Delete(t)
        BY <3>4 DEF Delete, DeleteZrem, DeleteHdel, DeleteLock, DeleteTimeout,
                    DeleteSelect, DeleteCount, DeleteRemove, Acquire, Timeout
      <3> QED BY <3>1, <3>2, <3>3, <3>4 DEF Ownership
    <2> QED BY <1>1, <1>2, <2>1, PublishedSame DEF Effect, OwnershipPCs
  <1> QED BY <1>3, <1>4, <1>5, <1>6, <1>7

LEMMA SharingEffect ==
    ASSUME TypeOK, NEW t \in Threads, Sharing(t)
    PROVE  Effect(t)
  <1> USE DEF Goto, Return, tableVars, attrVars, shareVars
  <1>0. /\ pc \in [Threads -> PCs] /\ KeyOf(t) \in Key
        /\ UNCHANGED user_file_list /\ share_file_list \subseteq ShareRow
    BY SharingFrame, KeyTypes DEF TypeOK, SharingPCs
  <1>1. PICK where \in SharingPCs \cup {"reply"} :
          pc' = [pc EXCEPT ![t] = where]
    BY SharingFrame
  <1>2. pc'[t] = where /\ where \in PCs
    BY <1>0, <1>1 DEF PCs
  <1>3. CASE ShareStatus(t)
    <2>1. /\ UNCHANGED share_file_list /\ pc[t] = "sh_status"
          /\ \/ /\ \/ where = "sh_insert"
                   \/ /\ where = "sh_release"
                      /\ "update_user_file" \in LostAnswers
                /\ shared_status' = shared_status
                                        \cup ({KeyOf(t)} \cap user_file_list)
             \/ where = "sh_release" /\ UNCHANGED shared_status
      BY <1>0, <1>2, <1>3 DEF ShareStatus, AnswerLost
    <2> QED BY <1>0, <1>1, <1>2, <2>1, PublishedSame DEF Effect, At, BetweenPCs
  <1>4. CASE ShareInsert(t)
    <2>1. /\ UNCHANGED shared_status /\ pc[t] = "sh_insert"
          /\ \/ /\ \/ where = "sh_zadd"
                   \/ where = "sh_recheck" /\ "insert_share" \in LostAnswers
                /\ share_file_list' = share_file_list \cup
                     {[id |-> share_id, user |-> UserOf(KeyOf(t)),
                       file |-> FileOf(KeyOf(t)), pv |-> 0]}
             \/ /\ where = "sh_recheck" /\ "insert_share" \in Faults
                /\ UNCHANGED share_file_list
      BY <1>0, <1>2, <1>4 DEF ShareInsert, Fails, AnswerLost, F
    <2>2. ASSUME share_file_list' = share_file_list \cup
                     {[id |-> share_id, user |-> UserOf(KeyOf(t)),
                       file |-> FileOf(KeyOf(t)), pv |-> 0]}
          PROVE  Published' = Published \cup {KeyOf(t)}
      <3>1. KeyOf(t) = <<UserOf(KeyOf(t)), FileOf(KeyOf(t))[1],
                         FileOf(KeyOf(t))[2]>>
        BY <1>0 DEF Key, UserOf, FileOf
      <3> DEFINE r == [id |-> share_id, user |-> UserOf(KeyOf(t)),
                       file |-> FileOf(KeyOf(t)), pv |-> 0]
      <3>2. <<r.user, r.file[1], r.file[2]>> = KeyOf(t)
        BY <3>1
      <3> HIDE DEF r
      <3> QED BY <2>2, <3>2 DEF Published, r
    <2> QED BY <1>0, <1>1, <1>2, <2>1, <2>2, PublishedSame
            DEF Effect, At, BetweenPCs
  <1>5. CASE CancelStatus(t)
    <2>1. /\ UNCHANGED share_file_list /\ pc[t] = "cn_status"
          /\ \/ /\ \/ where = "cn_drop"
                   \/ where = "reply" /\ "update_user_file" \in LostAnswers
                /\ shared_status' = shared_status \ {KeyOf(t)}
             \/ where = "reply" /\ UNCHANGED shared_status
      BY <1>0, <1>2, <1>5 DEF CancelStatus, AnswerLost
    <2> QED BY <1>0, <1>1, <1>2, <2>1, PublishedSame DEF Effect, At, BetweenPCs
  <1>6. CASE CancelDrop(t)
    <2>1. /\ UNCHANGED shared_status /\ pc[t] = "cn_drop"
          /\ \/ /\ \/ where = "cn_zrem"
                   \/ where = "reply" /\ "drop_share" \in LostAnswers
                /\ DropShares(KeyOf(t))
             \/ /\ where = "reply" /\ "drop_share" \in Faults
                /\ UNCHANGED share_file_list
      BY <1>0, <1>2, <1>6 DEF CancelDrop, Fails, AnswerLost
    <2> QED BY <1>0, <1>1, <1>2, <2>1, PublishedSame, PublishedDrop
            DEF Effect, At
  <1>7. CASE SharePvUpdate(t)
    <2>1. /\ UNCHANGED shared_status /\ pc[t] = "sp_update"
          /\ where \in {"sp_exist", "reply"}
          /\ \/ UNCHANGED share_file_list
             \/ share_file_list' =
                    {IF r.file = F(t) THEN [r EXCEPT !.pv = cnt[t] + 1] ELSE r :
                        r \in share_file_list}
      BY <1>0, <1>2, <1>7 DEF SharePvUpdate
    <2>2. ASSUME share_file_list' =
                    {IF r.file = F(t) THEN [r EXCEPT !.pv = cnt[t] + 1] ELSE r :
                        r \in share_file_list}
          PROVE  UNCHANGED Published
      <3> DEFINE up(r) == IF r.file = F(t) THEN [r EXCEPT !.pv = cnt[t] + 1]
                                           ELSE r
      <3>1. \A r \in share_file_list : up(r).user = r.user /\ up(r).file = r.file
        BY <1>0 DEF ShareRow
      <3>2. share_file_list' = {up(r) : r \in share_file_list}
        BY <2>2
      <3> HIDE DEF up
      <3> QED BY <3>1, <3>2 DEF Published
    <2> QED BY <1>0, <1>1, <1>2, <2>1, <2>2, PublishedSame
            DEF Effect, BetweenPCs
  <1>8. CASE /\ Share(t) \/ Cancel(t)
             /\ ~ ShareStatus(t) /\ ~ ShareInsert(t) /\ ~ CancelStatus(t)
             /\ ~ CancelDrop(t)
    <2>1. /\ UNCHANGED <<shared_status, share_file_list>>
          /\ pc[t] \notin BetweenPCs /\ pc'[t] \notin BetweenPCs
          /\ where \in {"sh_lock", "sh_exist", "sh_check", "sh_status"} =>
                   pc[t] \in {"sh_lock", "sh_exist", "sh_check"}
      BY <1>0, <1>2, <1>8
      DEF Share, ShareLock, ShareExist, ShareCheck, ShareRecheck, ShareZadd,
          ShareHset, ShareRelease, Cancel, CancelZrem, CancelHdel, BetweenPCs
    <2> QED BY <1>0, <1>1, <1>2, <2>1, PublishedSame DEF Effect
  <1>9. CASE (Pv(t) \/ SharePv(t) \/ Ranking(t)) /\ ~ SharePvUpdate(t)
    <2>1. /\ UNCHANGED <<shared_status, share_file_list>>
          /\ pc[t] \notin RowPCs
      BY <1>9 DEF Pv, PvSelect, PvUpdate, SharePv, SharePvSelect,
         SharePvExist, SharePvZadd, SharePvHset, SharePvZincr, Ranking,
         RankingCount, RankingZcard, RankingDelZset, RankingDelHash,
         RankingSelect, RankingZadd, RankingHset, RankingRange, RankingHget,
         RowPCs, DeletePCs
    <2>2. where \notin RowPCs
      BY <1>0, <1>1, <1>2, <2>1, RowMoves DEF TypeOK
    <2> QED BY <1>0, <1>1, <1>2, <2>1, <2>2, PublishedSame
            DEF Effect, BetweenPCs, RowPCs, DeletePCs
  <1> QED BY <1>3, <1>4, <1>5, <1>6, <1>7, <1>8, <1>9 DEF Sharing

-----------------------------------------------------------------------------
(* The flag has its row *)

\* A request starts with its entry point and ends with the answer: no thread
\* comes between two statements by it, or leaves there.
LEMMA LifeBetween ==
    ASSUME TypeOK, SharingEnvironment,
           \/ \E t \in Threads : Receive(t) \/ Refuse(t) \/ Reply(t)
           \/ Crash
           \/ UNCHANGED vars
    PROVE  /\ UNCHANGED <<user_file_list, shared_status, share_file_list>>
           /\ \A s \in Threads :
                 \/ pc'[s] = pc[s] /\ KeyOf(s)' = KeyOf(s)
                 \/ /\ pc[s] \in {"idle", "reply"}
                    /\ pc'[s] \notin BetweenPCs
                    /\ pc'[s] \notin {"sh_exist", "sh_check", "sh_status"}
                    /\ pc'[s] = "sh_lock" /\ OwnersOnly
                          => KeyOf(s)' \in user_file_list
  <1>0. UNCHANGED <<user_file_list, shared_status, share_file_list>>
    BY DEF Receive, Refuse, Reply, Crash, vars, tableVars, attrVars, shareVars
  <1>1. ASSUME NEW t \in Threads, Receive(t), NEW s \in Threads
        PROVE  \/ pc'[s] = pc[s] /\ KeyOf(s)' = KeyOf(s)
               \/ /\ pc[s] \in {"idle", "reply"}
                  /\ pc'[s] \notin BetweenPCs
                  /\ pc'[s] \notin {"sh_exist", "sh_check", "sh_status"}
                  /\ pc'[s] = "sh_lock" /\ OwnersOnly
                        => KeyOf(s)' \in user_file_list
    <2>1. PICK r \in Request : /\ ~ Withheld(t, r)
                               /\ req' = [req EXCEPT ![t] = r]
                               /\ pc' = [pc EXCEPT ![t] = Entry[r.op]]
      BY <1>1, ConstantsAssumption DEF Receive, Request, Goto
    <2>2. /\ Entry[r.op] \notin BetweenPCs
          /\ Entry[r.op] \notin {"sh_exist", "sh_check", "sh_status"}
          /\ Entry[r.op] = "sh_lock" => r.op = "share"
      BY DEF Entry, Request, AllCommands, BetweenPCs
    <2>3. CASE s # t
      BY <2>1, <2>3 DEF TypeOK, KeyOf
    <2>4. CASE s = t
      <3>1. pc[s] = "idle" /\ pc'[s] = Entry[r.op] /\ KeyOf(s)' = r.key
        BY <1>1, <2>1, <2>4 DEF TypeOK, KeyOf, Receive
      <3> QED BY <2>1, <2>2, <3>1 DEF Withheld
    <2> QED BY <2>3, <2>4
  <1>2. ASSUME NEW t \in Threads, Refuse(t) \/ Reply(t), NEW s \in Threads
        PROVE  \/ pc'[s] = pc[s] /\ KeyOf(s)' = KeyOf(s)
               \/ pc[s] \in {"idle", "reply"} /\ pc'[s] \in {"idle", "reply"}
    BY <1>2 DEF TypeOK, Refuse, Reply, Goto, KeyOf
  <1>3. CASE Crash
    BY <1>3 DEF Crash, SharingEnvironment
  <1>4. CASE UNCHANGED vars
    BY <1>0, <1>4 DEF vars, threadVars, KeyOf
  <1> QED BY <1>0, <1>1, <1>2, <1>3, <1>4 DEF BetweenPCs

\* A step of one thread leaves the others where they are, and two of them
\* between their statements work on different rows.
LEMMA OthersStay ==
    ASSUME TypeOK, RowHandlersApart,
           NEW t \in Threads, Ownership(t) \/ Sharing(t)
    PROVE  /\ \A s \in Threads : KeyOf(s)' = KeyOf(s)
           /\ \A s \in Threads : s # t => pc'[s] = pc[s]
           /\ \A s \in Threads :
                 s # t /\ pc[s] \in RowPCs /\ pc[t] \in RowPCs
                     => KeyOf(s) # KeyOf(t)
  <1>1. UNCHANGED req /\ \E where \in PCs : pc' = [pc EXCEPT ![t] = where]
    BY RowMoves
  <1>2. pc \in [Threads -> PCs]
    BY DEF TypeOK
  <1> QED BY <1>1, <1>2 DEF KeyOf, RowHandlersApart

\* SharedHasRow in terms of keys.
LEMMA FlagsPublished ==
    ASSUME TypeOK
    PROVE  SharedHasRow <=>
              \A k \in shared_status :
                  \/ k \in Published
                  \/ \E t \in Threads :
                        pc[t] \in {"sh_insert", "dl_user"} /\ KeyOf(t) = k
  <1>1. ASSUME NEW k \in shared_status
        PROVE  (\E r \in SharesOf(FileOf(k)) : r.user = UserOf(k))
                    <=> k \in Published
    <2>1. k \in Key /\ share_file_list \subseteq ShareRow
      BY DEF TypeOK
    <2> QED BY <2>1, ShareKeys DEF SharesOf, Published
  <1> QED BY <1>1 DEF SharedHasRow

\* Flag and row agree but between the statements of one handler. Besides the
\* environment this takes that neither the insert that publishes fails nor,
\* once the share is withdrawn, the delete of the owner's row; and that the
\* answers to the statements before these two arrive: handleShareFile ends
\* when it is not told that the flag is set, and handleDeleteFile when it is
\* not told that the published row is gone.
THEOREM SharedRows ==
    ASSUME SharingEnvironment,
           {"insert_share", "drop_user_file"} \cap Faults = {},
           {"update_user_file", "drop_share"} \cap LostAnswers = {}
    PROVE  Spec => []SharedHasRow
  <1> DEFINE FlagsPublishedInv ==
        \A k \in shared_status :
            \/ k \in Published
            \/ \E t \in Threads :
                  pc[t] \in {"sh_insert", "dl_user"} /\ KeyOf(t) = k
  <1>a. TypeOK => (SharedHasRow <=> FlagsPublishedInv)
    BY FlagsPublished
  <1>b. (TypeOK => (SharedHasRow <=> FlagsPublishedInv))'
    BY <1>a, PTL
  <1>1. Init => SharedInv
    BY DEF Init, SharedInv, SharedHasRow, CancelUnflagged
  <1>2. TypeOK /\ TypeOK' /\ RowHandlersApart /\ SharedInv /\ [Next]_vars
            => SharedInv'
    <2> SUFFICES ASSUME TypeOK, TypeOK', RowHandlersApart, SharedInv,
                        [Next]_vars
                 PROVE  FlagsPublishedInv' /\ CancelUnflagged'
      BY <1>b DEF SharedInv
    <2>0. FlagsPublishedInv /\ CancelUnflagged
      BY <1>a DEF SharedInv
    <2>1. ASSUME NEW t \in Threads, Ownership(t) \/ Sharing(t)
          PROVE  FlagsPublishedInv' /\ CancelUnflagged'
      <3>1. Effect(t)
        BY <2>1, OwnershipEffect, SharingEffect
      <3>2. /\ \A s \in Threads : KeyOf(s)' = KeyOf(s)
            /\ \A s \in Threads : s # t => pc'[s] = pc[s]
            /\ \A s \in Threads :
                  s # t /\ pc[s] \in RowPCs /\ pc[t] \in RowPCs
                      => KeyOf(s) # KeyOf(t)
        BY <2>1, OthersStay
      <3>3. pc \in [Threads -> PCs]
        BY DEF TypeOK
      <3>4. FlagsPublishedInv'
        BY <2>0, <3>1, <3>2, <3>3
        DEF Effect, At, BetweenPCs, CancelUnflagged
      <3>5. CancelUnflagged'
        BY <2>0, <3>1, <3>2, <3>3
        DEF Effect, At, BetweenPCs, CancelUnflagged, RowPCs
      <3> QED BY <3>4, <3>5
    <2>2. CASE \/ \E t \in Threads : Receive(t) \/ Refuse(t) \/ Reply(t)
               \/ Crash
               \/ UNCHANGED vars
      <3>1. UNCHANGED <<shared_status, Published>>
        BY <2>2, LifeBetween, PublishedSame
      <3>2. \A s \in Threads :
              \/ pc'[s] = pc[s] /\ KeyOf(s)' = KeyOf(s)
              \/ pc[s] \in {"idle", "reply"} /\ pc'[s] \notin BetweenPCs
        BY <2>2, LifeBetween
      <3> QED BY <2>0, <3>1, <3>2 DEF CancelUnflagged, BetweenPCs
    <2> QED
      BY <2>1, <2>2 DEF Next, Work, Done
  <1>3. SharedInv => SharedHasRow
    BY DEF SharedInv
  <1> QED
    BY <1>1, <1>2, <1>3, TypeCorrect, RowsApart, PTL DEF Spec

-----------------------------------------------------------------------------
(* What is published can be downloaded *)

\* Published rows belong to rows of their owners. This takes that clients
\* share only what is in their list, and that withdrawing a share does not end
\* half-way: neither the delete of the published rows fails nor is the answer
\* lost that the flag before them is taken back.
THEOREM PublishedInductive ==
    ASSUME SharingEnvironment, OwnersOnly, "drop_share" \notin Faults,
           "update_user_file" \notin LostAnswers
    PROVE  Spec => []PublishedInv
  <1>1. Init => PublishedInv
    BY DEF Init, PublishedInv, ShareFlagged, DeleteUnpublished,
           PublishedOwned, Published
  <1>2. TypeOK /\ RowHandlersApart /\ PublishedInv /\ [Next]_vars
            => PublishedInv'
    <2> SUFFICES ASSUME TypeOK, RowHandlersApart, PublishedInv, [Next]_vars
                 PROVE  PublishedInv'
      OBVIOUS
    <2> USE DEF PublishedInv
    <2>1. ASSUME NEW t \in Threads, Ownership(t) \/ Sharing(t)
          PROVE  PublishedInv'
      <3>1. Effect(t)
        BY <2>1, OwnershipEffect, SharingEffect
      <3>2. /\ \A s \in Threads : KeyOf(s)' = KeyOf(s)
            /\ \A s \in Threads : s # t => pc'[s] = pc[s]
            /\ \A s \in Threads :
                  s # t /\ pc[s] \in RowPCs /\ pc[t] \in RowPCs
                      => KeyOf(s) # KeyOf(t)
        BY <2>1, OthersStay
      <3>3. pc \in [Threads -> PCs]
        BY DEF TypeOK
      <3>4. ShareFlagged'
        BY <3>1, <3>2, <3>3
        DEF Effect, At, BetweenPCs, ShareFlagged, RowPCs, DeletePCs
      <3>5. DeleteUnpublished'
        BY <3>1, <3>2, <3>3
        DEF Effect, At, BetweenPCs, DeleteUnpublished, PublishedOwned, RowPCs,
            DeletePCs
      <3>6. PublishedOwned'
        BY <3>1, <3>2, <3>3
        DEF Effect, At, BetweenPCs, DeleteUnpublished, PublishedOwned,
            ShareFlagged
      <3> QED BY <3>4, <3>5, <3>6
    <2>2. CASE \/ \E t \in Threads : Receive(t) \/ Refuse(t) \/ Reply(t)
               \/ Crash
               \/ UNCHANGED vars
      <3>1. UNCHANGED <<user_file_list, shared_status, Published>>
        BY <2>2, LifeBetween, PublishedSame
      <3>2. \A s \in Threads :
              \/ pc'[s] = pc[s] /\ KeyOf(s)' = KeyOf(s)
              \/ /\ pc[s] \in {"idle", "reply"}
                 /\ pc'[s] \notin BetweenPCs
                 /\ pc'[s] \notin {"sh_exist", "sh_check", "sh_status"}
                 /\ pc'[s] = "sh_lock" => KeyOf(s)' \in user_file_list
        BY <2>2, LifeBetween
      <3> QED BY <3>1, <3>2 DEF ShareFlagged, DeleteUnpublished,
                                PublishedOwned, BetweenPCs
    <2> QED
      BY <2>1, <2>2 DEF Next, Work, Done
  <1> QED
    BY <1>1, <1>2, TypeCorrect, RowsApart, PTL DEF Spec

\* Whatever is in share_file_list can be downloaded: its owner still has the
\* row, the row is counted, and a counted file is stored.
THEOREM PublishedAvailable ==
    ASSUME SharingEnvironment, OwnersOnly, "drop_share" \notin Faults,
           "update_user_file" \notin LostAnswers, FilesEnvironment
    PROVE  Spec => []PublishedFilesAvailable
  <1>1. TypeOK /\ RefCountInv /\ FilesInv /\ PublishedInv
            => PublishedFilesAvailable
    <2> SUFFICES ASSUME TypeOK, RefCountCovers, RecordsStored, PublishedOwned,
                        NEW r \in share_file_list
                 PROVE  /\ HasInfo(r.file[1])
                        /\ fdfs[file_info[r.file[1]].file_id] = "stored"
      BY DEF RefCountInv, FilesInv, PublishedInv, PublishedFilesAvailable
    <2> DEFINE k == <<r.user, r.file[1], r.file[2]>>
    <2>1. k \in user_file_list
      BY DEF Published, PublishedOwned
    <2>2. Md5Of(k) = r.file[1]
      BY DEF Md5Of
    <2> QED BY <2>1, <2>2, RowsAvailable
  <1>2. Environment
    BY DEF FilesEnvironment
  <1> QED
    BY <1>1, <1>2, TypeCorrect, RefCountInductive, FilesInductive,
       PublishedInductive, PTL
=============================================================================
