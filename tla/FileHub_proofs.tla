--------------------------- MODULE FileHub_proofs ---------------------------
(***************************************************************************)
(* What TLAPS proves of the handlers, for every number of threads, users,  *)
(* files and requests: types, the lock, and the reference counts: those of *)
(* file_info cover the rows of user_file_list, in every interleaving and   *)
(* with crashes: handleDeleteFile never removes the record of a file that  *)
(* somebody still has. Two things are asked of the environment for that,   *)
(* and the proof shows that they are all that is: no two deletes of one    *)
(* row overlap, and inserting into file_info fails only on a duplicate     *)
(* key.                                                                    *)
(***************************************************************************)
EXTENDS FileHub, FiniteSetTheorems, TLAPS

\* A thread with a request in hand has a key, and its parts have their types.
LEMMA KeyTypes ==
    ASSUME TypeOK, NEW t \in Threads, pc[t] # "idle"
    PROVE  /\ KeyOf(t) \in Key
           /\ M(t) \in Md5s
           /\ UserOf(KeyOf(t)) \in Users
           /\ FileOf(KeyOf(t)) \in File
  BY DEF TypeOK, Request, KeyOf, M, Md5Of, UserOf, FileOf, Key, File

\* "count = count + 1" keeps the type of the table.
LEMMA CountPlusOneType ==
    ASSUME TypeOK, NEW m \in Md5s
    PROVE  CountPlusOne(m) \in [Md5s -> FileInfo]
  BY DEF TypeOK, CountPlusOne, FileInfo

\* The initial states are of the right types.
LEMMA InitTypeOK == Init => TypeOK
  <1> SUFFICES ASSUME Init PROVE TypeOK
    OBVIOUS
  <1>1. file_info \in [Md5s -> FileInfo]
    <2>1. PICK id \in [SeedMd5s -> FileIds] :
            file_info = [m \in Md5s |->
                IF m \in SeedMd5s
                THEN [count   |-> Cardinality({k \in SeedRows : Md5Of(k) = m}),
                      file_id |-> id[m]]
                ELSE NoInfo]
      BY DEF Init
    <2>2. ASSUME NEW m \in Md5s
          PROVE  Cardinality({k \in SeedRows : Md5Of(k) = m}) \in Int
      <3>1. {k \in SeedRows : Md5Of(k) = m} \in SUBSET SeedRows
        OBVIOUS
      <3> QED BY <3>1, ConstantsAssumption, FS_Subset, FS_CardinalityType
    <2> QED BY <2>1, <2>2 DEF FileInfo, NoInfo
  <1>2. fdfs \in [FileIds -> {"unused", "stored", "deleted"}]
    BY DEF Init
  <1>3. IsFiniteSet(share_file_list)
    BY FS_EmptySet DEF Init
  <1> QED
    BY <1>1, <1>2, <1>3, ConstantsAssumption
    DEF Init, TypeOK, PCs, Absent, ShareRow

\* The statements of ApiUpload keep the types.
LEMMA UploadTypeOK ==
    ASSUME TypeOK, NEW t \in Threads, Upload(t) PROVE TypeOK'
  <1> USE DEF TypeOK, vars, tableVars, attrVars, shareVars, threadVars,
              Goto, Return, Answer, PCs, OwnershipPCs
  <1>1. CASE UploadFile(t)
    BY <1>1 DEF UploadFile
  <1>2. CASE UploadUrl(t)
    BY <1>2 DEF UploadUrl
  <1>3. CASE UploadLock(t)
    BY <1>3 DEF UploadLock, Acquire
  <1>4. CASE UploadTimeout(t)
    BY <1>4 DEF UploadTimeout
  <1>5. CASE UploadInsertInfo(t)
    <2>1. M(t) \in Md5s
      BY <1>5, KeyTypes DEF UploadInsertInfo
    <2>2. file_info' \in [Md5s -> FileInfo]
      BY <1>5, <2>1 DEF UploadInsertInfo, FileInfo
    <2> QED BY <1>5, <2>2 DEF UploadInsertInfo
  <1>6. CASE UploadCount(t)
    <2>1. CountPlusOne(M(t)) \in [Md5s -> FileInfo]
      BY <1>6, KeyTypes, CountPlusOneType DEF UploadCount
    <2> QED BY <1>6, <2>1 DEF UploadCount, Unlock
  <1>7. CASE UploadInsertUser(t)
    <2>1. IsFiniteSet(user_file_list \cup {KeyOf(t)}) /\ KeyOf(t) \in Key
      BY <1>7, KeyTypes, FS_AddElement DEF UploadInsertUser
    <2>2. CASE KeyOf(t) \notin user_file_list /\ InsertUserRow(KeyOf(t))
      BY <1>7, <2>1, <2>2 DEF UploadInsertUser, InsertUserRow, Unlock
    <2>3. CASE UNCHANGED <<user_file_list, attrVars>>
      BY <1>7, <2>3 DEF UploadInsertUser, Unlock
    <2> QED BY <1>7, <2>2, <2>3 DEF UploadInsertUser
  <1>8. CASE UploadRemove(t)
    BY <1>8 DEF UploadRemove, RemoveFileFromFastDfs
  <1> QED
    BY <1>1, <1>2, <1>3, <1>4, <1>5, <1>6, <1>7, <1>8 DEF Upload

\* The statements of handleDealMd5 keep the types.
LEMMA Md5TypeOK ==
    ASSUME TypeOK, NEW t \in Threads, Md5(t) PROVE TypeOK'
  <1> USE DEF TypeOK, vars, tableVars, attrVars, shareVars, threadVars,
              Goto, Return, Answer, PCs, OwnershipPCs
  <1>1. CASE Md5Check(t)
    BY <1>1 DEF Md5Check, CheckOwned
  <1>2. CASE Md5Lock(t)
    BY <1>2 DEF Md5Lock, Acquire
  <1>3. CASE Md5Timeout(t)
    BY <1>3 DEF Md5Timeout, Timeout
  <1>4. CASE Md5Count(t)
    <2>1. CountPlusOne(M(t)) \in [Md5s -> FileInfo]
      BY <1>4, KeyTypes, CountPlusOneType DEF Md5Count
    <2> QED BY <1>4, <2>1 DEF Md5Count, Unlock
  <1> QED
    BY <1>1, <1>2, <1>3, <1>4 DEF Md5

\* The statements of handleSaveFile keep the types: the row that is inserted
\* is a row of its table.
LEMMA SaveTypeOK ==
    ASSUME TypeOK, NEW t \in Threads, Save(t) PROVE TypeOK'
  <1> USE DEF TypeOK, vars, tableVars, attrVars, shareVars, threadVars,
              Goto, Return, Answer, PCs, OwnershipPCs
  <1>1. CASE SaveCheck(t)
    BY <1>1 DEF SaveCheck, CheckOwned
  <1>2. CASE SaveLock(t)
    BY <1>2 DEF SaveLock, Acquire
  <1>3. CASE SaveTimeout(t)
    BY <1>3 DEF SaveTimeout, Timeout
  <1>4. CASE SaveCount(t)
    <2>1. CountPlusOne(M(t)) \in [Md5s -> FileInfo]
      BY <1>4, KeyTypes, CountPlusOneType DEF SaveCount
    <2> QED BY <1>4, <2>1 DEF SaveCount, Unlock
  <1>5. CASE SaveInsert(t)
    <2>1. KeyOf(t) \in Key
      BY <1>5, KeyTypes DEF SaveInsert
    <2>2. IsFiniteSet(user_file_list \cup {KeyOf(t)})
      BY FS_AddElement
    <2>3. /\ user_file_list' \subseteq Key /\ IsFiniteSet(user_file_list')
          /\ shared_status' \subseteq user_file_list'
          /\ user_pv' \in [Key -> Int]
      <3>1. CASE InsertUserRow(KeyOf(t))
        BY <2>1, <2>2, <3>1 DEF InsertUserRow
      <3>2. CASE UNCHANGED <<user_file_list, attrVars>>
        BY <3>2
      <3> QED BY <1>5, <3>1, <3>2 DEF SaveInsert
    <2> QED BY <1>5, <2>3 DEF SaveInsert
  <1> QED
    BY <1>1, <1>2, <1>3, <1>4, <1>5 DEF Save

\* The statements of handleDeleteFile keep the types: what is read from
\* file_info is a count and an id.
LEMMA DeleteTypeOK ==
    ASSUME TypeOK, NEW t \in Threads, Delete(t) PROVE TypeOK'
  <1> USE DEF TypeOK, vars, tableVars, attrVars, shareVars, threadVars,
              Goto, Return, Answer, PCs, OwnershipPCs
  <1>1. CASE DeleteStatus(t)
    BY <1>1 DEF DeleteStatus
  <1>2. CASE DeleteZrem(t)
    BY <1>2, KeyTypes DEF DeleteZrem, Absent
  <1>3. CASE DeleteHdel(t)
    BY <1>3 DEF DeleteHdel
  <1>4. CASE DeleteShare(t)
    <2>1. CASE DropShares(KeyOf(t))
      <3>1. share_file_list' \in SUBSET share_file_list
        BY <2>1 DEF DropShares
      <3>2. IsFiniteSet(share_file_list')
        BY <3>1, FS_Subset
      <3> QED BY <1>4, <3>1, <3>2 DEF DeleteShare
    <2> QED BY <1>4, <2>1 DEF DeleteShare
  <1>5. CASE DeleteUser(t)
    <2>1. KeyOf(t) \in Key
      BY <1>5, KeyTypes DEF DeleteUser
    <2>2. IsFiniteSet(user_file_list \ {KeyOf(t)})
      BY FS_RemoveElement
    <2>3. /\ user_file_list' \subseteq Key /\ IsFiniteSet(user_file_list')
          /\ shared_status' \subseteq user_file_list'
          /\ user_pv' \in [Key -> Int]
      <3>1. CASE DropUserRow(KeyOf(t))
        BY <2>1, <2>2, <3>1 DEF DropUserRow
      <3>2. CASE UNCHANGED <<user_file_list, attrVars>>
        BY <3>2
      <3> QED BY <1>5, <3>1, <3>2 DEF DeleteUser
    <2> QED BY <1>5, <2>3 DEF DeleteUser
  <1>6. CASE DeleteLock(t)
    BY <1>6 DEF DeleteLock, Acquire
  <1>7. CASE DeleteTimeout(t)
    BY <1>7 DEF DeleteTimeout, Timeout
  <1>8. CASE DeleteSelect(t)
    <2>1. file_info[M(t)] \in FileInfo
      BY <1>8, KeyTypes DEF DeleteSelect
    <2> QED BY <1>8, <2>1 DEF DeleteSelect, Unlock, FileInfo
  <1>9. CASE DeleteCount(t)
    <2>1. M(t) \in Md5s
      BY <1>9, KeyTypes DEF DeleteCount
    <2>2. \/ UNCHANGED file_info
          \/ file_info' = [file_info EXCEPT ![M(t)].count = @ - 1]
          \/ file_info' = [file_info EXCEPT ![M(t)] = NoInfo]
      BY <1>9 DEF DeleteCount
    <2>3. NoInfo \in FileInfo /\ file_info \in [Md5s -> FileInfo]
      BY DEF FileInfo, NoInfo
    <2>4. file_info' \in [Md5s -> FileInfo]
      BY <2>1, <2>2, <2>3 DEF FileInfo
    <2> QED BY <1>9, <2>4 DEF DeleteCount, Unlock
  <1>10. CASE DeleteRemove(t)
    BY <1>10 DEF DeleteRemove, RemoveFileFromFastDfs
  <1> QED
    BY <1>1, <1>2, <1>3, <1>4, <1>5, <1>6, <1>7, <1>8, <1>9, <1>10 DEF Delete

\* The statements of handleShareFile keep the types.
LEMMA ShareTypeOK ==
    ASSUME TypeOK, NEW t \in Threads, Share(t) PROVE TypeOK'
  <1> USE DEF TypeOK, vars, tableVars, attrVars, shareVars, threadVars,
              Goto, Return, Answer, PCs, SharingPCs
  <1>1. CASE ShareLock(t)
    BY <1>1 DEF ShareLock
  <1>2. CASE ShareExist(t)
    BY <1>2 DEF ShareExist
  <1>3. CASE ShareCheck(t)
    BY <1>3 DEF ShareCheck
  <1>4. CASE ShareStatus(t)
    BY <1>4 DEF ShareStatus
  <1>5. CASE ShareInsert(t)
    <2>1. [id |-> share_id, user |-> UserOf(KeyOf(t)), file |-> F(t), pv |-> 0]
            \in ShareRow
      BY <1>5, KeyTypes DEF ShareInsert, ShareRow, F
    <2>2. share_file_list' \subseteq ShareRow /\ IsFiniteSet(share_file_list')
      <3> DEFINE row == [id |-> share_id, user |-> UserOf(KeyOf(t)),
                         file |-> F(t), pv |-> 0]
      <3>1. IsFiniteSet(share_file_list \cup {row})
        BY FS_AddElement
      <3>2. CASE share_file_list' = share_file_list \cup {row}
        BY <2>1, <3>1, <3>2
      <3>3. CASE UNCHANGED share_file_list
        BY <3>3
      <3> QED BY <1>5, <3>2, <3>3 DEF ShareInsert
    <2>3. share_id' \in Nat
      BY <1>5 DEF ShareInsert
    <2> QED BY <1>5, <2>2, <2>3 DEF ShareInsert
  <1>6. CASE ShareRecheck(t)
    BY <1>6 DEF ShareRecheck
  <1>7. CASE ShareZadd(t)
    BY <1>7 DEF ShareZadd, ZsetAdd
  <1>8. CASE ShareHset(t)
    BY <1>8, KeyTypes DEF ShareHset, Hset, F
  <1>9. CASE ShareRelease(t)
    BY <1>9 DEF ShareRelease
  <1> QED
    BY <1>1, <1>2, <1>3, <1>4, <1>5, <1>6, <1>7, <1>8, <1>9 DEF Share

\* The statements of handleCancelShareFile keep the types.
LEMMA CancelTypeOK ==
    ASSUME TypeOK, NEW t \in Threads, Cancel(t) PROVE TypeOK'
  <1> USE DEF TypeOK, vars, tableVars, attrVars, shareVars, threadVars,
              Goto, Return, Answer, PCs, SharingPCs
  <1>1. CASE CancelStatus(t)
    BY <1>1 DEF CancelStatus
  <1>2. CASE CancelDrop(t)
    <2>1. share_file_list' \in SUBSET share_file_list
      BY <1>2 DEF CancelDrop, DropShares
    <2>2. IsFiniteSet(share_file_list')
      BY <2>1, FS_Subset
    <2> QED BY <1>2, <2>1, <2>2 DEF CancelDrop
  <1>3. CASE CancelZrem(t)
    BY <1>3 DEF CancelZrem, ZsetZrem, Absent
  <1>4. CASE CancelHdel(t)
    BY <1>4 DEF CancelHdel, Hdel
  <1> QED
    BY <1>1, <1>2, <1>3, <1>4 DEF Cancel

\* The two statements of a download of one's own file keep the types.
LEMMA PvTypeOK ==
    ASSUME TypeOK, NEW t \in Threads, Pv(t) PROVE TypeOK'
  <1> USE DEF TypeOK, vars, tableVars, attrVars, shareVars, threadVars,
              Goto, Return, Answer, PCs, SharingPCs
  <1>1. CASE PvSelect(t)
    BY <1>1, KeyTypes DEF PvSelect
  <1>2. CASE PvUpdate(t)
    BY <1>2 DEF PvUpdate
  <1> QED
    BY <1>1, <1>2 DEF Pv

\* The statements of a download of a published file keep the types.
LEMMA SharePvTypeOK ==
    ASSUME TypeOK, NEW t \in Threads, SharePv(t) PROVE TypeOK'
  <1> USE DEF TypeOK, vars, tableVars, attrVars, shareVars, threadVars,
              Goto, Return, Answer, PCs, SharingPCs
  <1>1. CASE SharePvSelect(t)
    BY <1>1 DEF SharePvSelect, SharesOf, ShareRow
  <1>2. CASE SharePvUpdate(t)
    <2> DEFINE bumped == [r \in share_file_list |->
                  IF r.file = F(t) THEN [r EXCEPT !.pv = cnt[t] + 1] ELSE r]
               image  == {bumped[r] : r \in share_file_list}
    <2>1. image \subseteq ShareRow
      BY DEF ShareRow
    <2>2. IsFiniteSet(image)
      <3>1. bumped \in Surjection(share_file_list, image)
        BY DEF Surjection
      <3> QED BY <3>1, FS_Surjection
    <2>3. share_file_list' = image \/ UNCHANGED share_file_list
      BY <1>2 DEF SharePvUpdate
    <2>4. share_file_list' \subseteq ShareRow /\ IsFiniteSet(share_file_list')
      BY <2>1, <2>2, <2>3
    <2> HIDE DEF image, bumped
    <2> QED BY <1>2, <2>4 DEF SharePvUpdate
  <1>3. CASE SharePvExist(t)
    BY <1>3 DEF SharePvExist
  <1>4. CASE SharePvZadd(t)
    BY <1>4 DEF SharePvZadd, ZsetAdd
  <1>5. CASE SharePvHset(t)
    BY <1>5, KeyTypes DEF SharePvHset, Hset, F
  <1>6. CASE SharePvZincr(t)
    <2>1. F(t) \in File
      BY <1>6, KeyTypes DEF SharePvZincr, ZsetIncr, F
    <2>2. zset' \in [File -> Int]
      BY <1>6, <2>1 DEF SharePvZincr, ZsetIncr, ZsetAdd
    <2> QED BY <1>6, <2>2 DEF SharePvZincr
  <1> QED
    BY <1>1, <1>2, <1>3, <1>4, <1>5, <1>6 DEF SharePv

\* The statements of handleGetRankingFilelist keep the types.
LEMMA RankingTypeOK ==
    ASSUME TypeOK, NEW t \in Threads, Ranking(t) PROVE TypeOK'
  <1> USE DEF TypeOK, vars, tableVars, attrVars, shareVars, threadVars,
              Goto, Return, Answer, PCs, SharingPCs
  <1>1. CASE RankingCount(t)
    <2>1. Cardinality(share_file_list) \in Int
      BY FS_CardinalityType
    <2> QED BY <1>1, <2>1 DEF RankingCount
  <1>2. CASE RankingZcard(t)
    BY <1>2 DEF RankingZcard
  <1>3. CASE RankingDelZset(t)
    BY <1>3 DEF RankingDelZset, Absent
  <1>4. CASE RankingDelHash(t)
    BY <1>4 DEF RankingDelHash
  <1>5. CASE RankingSelect(t)
    BY <1>5 DEF RankingSelect
  <1>6. CASE RankingZadd(t)
    <2>1. \A r \in NextRow(t) : r.pv \in Int
      BY DEF NextRow, ShareRow
    <2>2. zset' \in [File -> Int]
      BY <1>6, <2>1 DEF RankingZadd, ZsetAdd
    <2> QED BY <1>6, <2>2 DEF RankingZadd
  <1>7. CASE RankingHset(t)
    <2>1. \A r \in NextRow(t) : r.file \in File
      BY DEF NextRow, ShareRow
    <2>2. file_name_hash' \subseteq File
      BY <1>7, <2>1 DEF RankingHset, Hset
    <2> QED BY <1>7, <2>2 DEF RankingHset
  <1>8. CASE RankingRange(t)
    BY <1>8 DEF RankingRange, Members
  <1>9. CASE RankingHget(t)
    BY <1>9 DEF RankingHget
  <1> QED
    BY <1>1, <1>2, <1>3, <1>4, <1>5, <1>6, <1>7, <1>8, <1>9 DEF Ranking

\* Taking and answering requests, and restarting, keep the types.
LEMMA LifeTypeOK ==
    ASSUME TypeOK,
           \/ \E t \in Threads : Receive(t) \/ Refuse(t) \/ Reply(t)
           \/ Crash
           \/ UNCHANGED vars
    PROVE  TypeOK'
  <1> USE DEF TypeOK, vars, tableVars, attrVars, shareVars, threadVars, Goto
  <1> USE ConstantsAssumption
  <1>1. ASSUME NEW t \in Threads, Receive(t) PROVE TypeOK'
    <2>1. PICK r \in Request : /\ req' = [req EXCEPT ![t] = r]
                               /\ pc' = [pc EXCEPT ![t] = Entry[r.op]]
      BY <1>1 DEF Receive, Request
    <2>2. Entry[r.op] \in PCs
      BY <2>1 DEF Request, AllCommands, Entry, PCs, OwnershipPCs, SharingPCs
    <2>3. issued' \in 0..MaxRequests
      BY <1>1 DEF Receive
    <2> QED BY <1>1, <2>1, <2>2, <2>3 DEF Receive
  <1>2. ASSUME NEW t \in Threads, Refuse(t) PROVE TypeOK'
    BY <1>2 DEF Refuse, Request, PCs
  <1>3. ASSUME NEW t \in Threads, Reply(t) PROVE TypeOK'
    BY <1>3 DEF Reply, PCs
  <1>4. CASE Crash
    BY <1>4 DEF Crash, PCs
  <1>5. CASE UNCHANGED vars
    BY <1>5
  <1> QED
    BY <1>1, <1>2, <1>3, <1>4, <1>5

\* Whatever the clients send and whatever fails, every variable keeps its
\* type, for any number of threads, users, files and requests.
THEOREM TypeCorrect == Spec => []TypeOK
  <1>1. TypeOK /\ [Next]_vars => TypeOK'
    BY UploadTypeOK, Md5TypeOK, SaveTypeOK, DeleteTypeOK, ShareTypeOK,
       CancelTypeOK, PvTypeOK, SharePvTypeOK, RankingTypeOK, LifeTypeOK
    DEF Next, Work, Ownership, Sharing, Done
  <1> QED
    BY <1>1, InitTypeOK, PTL DEF Spec

-----------------------------------------------------------------------------
(* The FileInfoLock *)

\* The statements of the ownership handlers take and release the lock where
\* they enter and leave the protected part, on the failure paths too.
LEMMA OwnershipLock ==
    ASSUME TypeOK, LockExcludes, NEW t \in Threads, Ownership(t)
    PROVE  LockExcludes'
  <1> USE ConstantsAssumption
  <1> USE DEF TypeOK, LockExcludes, LockPCs, Goto, Return, Unlock
  <1>1. CASE Upload(t)
    BY <1>1 DEF Upload, UploadFile, UploadUrl, UploadLock, UploadTimeout,
                UploadInsertInfo, UploadCount, UploadInsertUser, UploadRemove,
                Acquire
  <1>2. CASE Md5(t)
    BY <1>2 DEF Md5, Md5Check, Md5Lock, Md5Timeout, Md5Count, CheckOwned,
                Acquire, Timeout
  <1>3. CASE Save(t)
    BY <1>3 DEF Save, SaveCheck, SaveLock, SaveTimeout, SaveCount, SaveInsert,
                CheckOwned, Acquire, Timeout
  <1>4. CASE Delete(t)
    BY <1>4 DEF Delete, DeleteStatus, DeleteZrem, DeleteHdel, DeleteShare,
                DeleteUser, DeleteLock, DeleteTimeout, DeleteSelect,
                DeleteCount, DeleteRemove, Acquire, Timeout
  <1> QED
    BY <1>1, <1>2, <1>3, <1>4 DEF Ownership

\* A statement of a sharing handler changes nothing that the ownership
\* handlers own: tables, requests, lock, and the place of other threads.
LEMMA SharingFrame ==
    ASSUME TypeOK, NEW t \in Threads, Sharing(t)
    PROVE  /\ UNCHANGED <<file_info, user_file_list, fdfs, locked, req, fid,
                          exsit>>
           /\ pc[t] \in SharingPCs
           /\ \E where \in SharingPCs \cup {"reply"} :
                 pc' = [pc EXCEPT ![t] = where]
           /\ \E c \in Int : cnt' = [cnt EXCEPT ![t] = c]
  <1> USE DEF tableVars, attrVars, shareVars, threadVars, Goto, Return,
              SharingPCs
  <1>1. CASE Share(t)
    BY <1>1 DEF TypeOK, Share, ShareLock, ShareExist, ShareCheck, ShareStatus,
                ShareInsert, ShareRecheck, ShareZadd, ShareHset, ShareRelease
  <1>2. CASE Cancel(t)
    BY <1>2 DEF TypeOK, Cancel, CancelStatus, CancelDrop, CancelZrem,
                CancelHdel
  <1>3. CASE Pv(t)
    <2>1. pc[t] # "idle" => user_pv[KeyOf(t)] \in Int
      BY KeyTypes DEF TypeOK
    <2> QED BY <1>3, <2>1 DEF TypeOK, Pv, PvSelect, PvUpdate
  <1>4. CASE SharePv(t)
    <2>1. \A r \in SharesOf(F(t)) : r.pv \in Int
      BY DEF SharesOf, ShareRow, TypeOK
    <2> QED
      BY <1>4, <2>1 DEF TypeOK, SharePv, SharePvSelect, SharePvUpdate,
                SharePvExist, SharePvZadd, SharePvHset, SharePvZincr
  <1>5. CASE Ranking(t)
    <2>1. Cardinality(share_file_list) \in Int
      BY FS_CardinalityType DEF TypeOK
    <2> QED
      BY <1>5, <2>1 DEF TypeOK, Ranking, RankingCount, RankingZcard,
                RankingDelZset, RankingDelHash, RankingSelect, RankingZadd,
                RankingHset, RankingRange, RankingHget
  <1> QED
    BY <1>1, <1>2, <1>3, <1>4, <1>5 DEF Sharing

\* The FileInfoLock excludes: at any time only its holder is between the
\* first and the last statement on file_info, and whoever is there holds it,
\* however many threads the server runs and whatever fails or times out.
THEOREM LockSafe == Spec => []LockExcludes
  <1> USE ConstantsAssumption
  <1>1. Init => LockExcludes
    BY DEF Init, LockExcludes, LockPCs
  <1>2. TypeOK /\ LockExcludes /\ [Next]_vars => LockExcludes'
    <2> SUFFICES ASSUME TypeOK, LockExcludes, [Next]_vars
                 PROVE  LockExcludes'
      OBVIOUS
    <2>1. ASSUME NEW t \in Threads, Ownership(t) PROVE LockExcludes'
      BY <2>1, OwnershipLock
    <2>2. ASSUME NEW t \in Threads, Sharing(t) PROVE LockExcludes'
      <3>1. PICK where \in SharingPCs \cup {"reply"} :
                 pc' = [pc EXCEPT ![t] = where]
        BY <2>2, SharingFrame
      <3> QED BY <2>2, <3>1, SharingFrame
              DEF TypeOK, LockExcludes, LockPCs, SharingPCs
    <2>3. ASSUME NEW t \in Threads, Receive(t) PROVE LockExcludes'
      <3>1. PICK r \in Request : pc' = [pc EXCEPT ![t] = Entry[r.op]]
        BY <2>3, ConstantsAssumption DEF Receive, Goto, Request
      <3>2. Entry[r.op] \notin LockPCs
        BY DEF Entry, Request, AllCommands, LockPCs
      <3> QED BY <2>3, <3>1, <3>2 DEF Receive, TypeOK, LockExcludes, LockPCs
    <2>4. ASSUME NEW t \in Threads, Refuse(t) \/ Reply(t) PROVE LockExcludes'
      BY <2>4 DEF Refuse, Reply, Goto, TypeOK, LockExcludes, LockPCs
    <2>5. CASE Crash
      BY <2>5 DEF Crash, LockExcludes, LockPCs
    <2>6. CASE UNCHANGED vars
      BY <2>6 DEF vars, LockExcludes
    <2> QED
      BY <2>1, <2>2, <2>3, <2>4, <2>5, <2>6 DEF Next, Work, Done
  <1> QED
    BY <1>1, <1>2, TypeCorrect, PTL DEF Spec

\* A statement that moves a thread within its phase, or to the phase that
\* the TimedLock allows next.
LEMMA OwnershipPhase ==
    ASSUME TypeOK, LockExcludes, NEW t \in Threads, Ownership(t)
    PROVE  LockUse!Next \/ UNCHANGED [s \in Threads |-> LockPhase(s)]
  <1> DEFINE phase == [s \in Threads |-> LockPhase(s)]
  <1> USE ConstantsAssumption
  <1>1. PICK where : pc' = [pc EXCEPT ![t] = where]
    BY DEF Ownership, Upload, UploadFile, UploadUrl, UploadLock, UploadTimeout,
           UploadInsertInfo, UploadCount, UploadInsertUser, UploadRemove,
           Md5, Md5Check, Md5Lock, Md5Timeout, Md5Count,
           Save, SaveCheck, SaveLock, SaveTimeout, SaveCount, SaveInsert,
           Delete, DeleteStatus, DeleteZrem, DeleteHdel, DeleteShare,
           DeleteUser, DeleteLock, DeleteTimeout, DeleteSelect, DeleteCount,
           DeleteRemove, CheckOwned, Acquire, Timeout, Goto, Return
  <1> DEFINE Outside(where_) == /\ where_ \notin LockPCs
                                /\ where_ \notin {"up_lock", "md_lock",
                                                  "sv_lock", "dl_lock"}
             Trying(where_)  == where_ \in {"up_lock", "md_lock", "sv_lock",
                                            "dl_lock"}
  <1>2. \/ Outside(pc[t]) /\ Outside(where)
        \/ Outside(pc[t]) /\ Trying(where)
        \/ Trying(pc[t]) /\ where \in LockPCs /\ locked = NoThread
        \/ Trying(pc[t]) /\ Outside(where) /\ locked # NoThread
        \/ pc[t] \in LockPCs /\ where \in LockPCs
        \/ pc[t] \in LockPCs /\ Outside(where)
    <2>0. where = pc'[t]
      BY <1>1 DEF TypeOK
    <2> USE <2>0 DEF LockPCs, Goto, Return, TypeOK
    <2>1. CASE Upload(t)
      BY <2>1 DEF Upload, UploadFile, UploadUrl, UploadLock, UploadTimeout,
                  UploadInsertInfo, UploadCount, UploadInsertUser,
                  UploadRemove, Acquire
    <2>2. CASE Md5(t)
      BY <2>2 DEF Md5, Md5Check, Md5Lock, Md5Timeout, Md5Count, CheckOwned,
                  Acquire, Timeout
    <2>3. CASE Save(t)
      BY <2>3 DEF Save, SaveCheck, SaveLock, SaveTimeout, SaveCount,
                  SaveInsert, CheckOwned, Acquire, Timeout
    <2>4. CASE Delete(t)
      BY <2>4 DEF Delete, DeleteStatus, DeleteZrem, DeleteHdel, DeleteShare,
                  DeleteUser, DeleteLock, DeleteTimeout, DeleteSelect,
                  DeleteCount, DeleteRemove, Acquire, Timeout
    <2> QED BY <2>1, <2>2, <2>3, <2>4 DEF Ownership
  <1>3. pc \in [Threads -> PCs] /\ locked \in Threads \cup {NoThread}
    BY DEF TypeOK
  <1>4. \A s \in Threads : s # t => LockPhase(s)' = LockPhase(s)
    BY <1>1, <1>3 DEF LockPhase
  <1>5. /\ LockPhase(t)' = IF where \in LockPCs THEN "in"
                           ELSE IF Trying(where) THEN "trying" ELSE "out"
        /\ LockPhase(t) = IF pc[t] \in LockPCs THEN "in"
                          ELSE IF Trying(pc[t]) THEN "trying" ELSE "out"
    BY <1>1, <1>3 DEF LockPhase
  <1>6. phase' = [phase EXCEPT ![t] = LockPhase(t)']
    BY <1>4
  <1>7. /\ locked = NoThread => \A s \in Threads : phase[s] # "in"
        /\ locked # NoThread => \E s \in Threads : phase[s] = "in"
    <2>1. \A s \in Threads : phase[s] = "in" <=> locked = s
      BY DEF LockPhase, LockExcludes
    <2> QED BY <1>3, <2>1
  <1>8. CASE Outside(pc[t]) /\ Trying(where)
    <2>1. LockUse!Try(t)
      BY <1>5, <1>6, <1>8 DEF LockUse!Try, LockPCs
    <2> QED BY <2>1 DEF LockUse!Next
  <1>9. CASE Trying(pc[t]) /\ where \in LockPCs /\ locked = NoThread
    <2>1. LockUse!Enter(t)
      BY <1>5, <1>6, <1>7, <1>9 DEF LockUse!Enter, LockPCs
    <2> QED BY <2>1 DEF LockUse!Next
  <1>10. CASE Trying(pc[t]) /\ Outside(where) /\ locked # NoThread
    <2>1. LockUse!GiveUp(t)
      BY <1>5, <1>6, <1>7, <1>10 DEF LockUse!GiveUp, LockPCs
    <2> QED BY <2>1 DEF LockUse!Next
  <1>11. CASE pc[t] \in LockPCs /\ Outside(where)
    <2>1. LockUse!Leave(t)
      BY <1>5, <1>6, <1>11 DEF LockUse!Leave
    <2> QED BY <2>1 DEF LockUse!Next
  <1>12. CASE \/ Outside(pc[t]) /\ Outside(where)
              \/ pc[t] \in LockPCs /\ where \in LockPCs
    BY <1>5, <1>6, <1>12
  <1> QED
    BY <1>2, <1>8, <1>9, <1>10, <1>11, <1>12

\* The handlers use the FileInfoLock by its contract: with LockImplements of
\* Threads_proofs, what the class promises is what FileHub relies on.
THEOREM LockUsed == Spec => UsesTimedLock
  <1> USE ConstantsAssumption
  <1>1. Init => LockUse!Init
    BY DEF Init, LockUse!Init, LockPhase, LockPCs
  <1>2. TypeOK /\ LockExcludes /\ [Next]_vars
            => [LockUse!Next]_[s \in Threads |-> LockPhase(s)]
    <2> SUFFICES ASSUME TypeOK, LockExcludes, [Next]_vars
                 PROVE  \/ LockUse!Next
                        \/ UNCHANGED [s \in Threads |-> LockPhase(s)]
      OBVIOUS
    <2> DEFINE phase == [s \in Threads |-> LockPhase(s)]
    <2>1. ASSUME NEW t \in Threads, Ownership(t)
          PROVE  LockUse!Next \/ UNCHANGED phase
      BY <2>1, OwnershipPhase
    <2>2. ASSUME NEW t \in Threads, Sharing(t) PROVE UNCHANGED phase
      <3>1. PICK where \in SharingPCs \cup {"reply"} :
                 pc' = [pc EXCEPT ![t] = where]
        BY <2>2, SharingFrame
      <3>2. pc[t] \in SharingPCs /\ pc \in [Threads -> PCs]
        BY <2>2, SharingFrame DEF TypeOK
      <3> QED BY <3>1, <3>2 DEF LockPhase, LockPCs, SharingPCs
    <2>3. ASSUME NEW t \in Threads, Receive(t) PROVE UNCHANGED phase
      <3>1. PICK r \in Request : pc' = [pc EXCEPT ![t] = Entry[r.op]]
        BY <2>3 DEF Receive, Goto, Request
      <3>2. Entry[r.op] \notin LockPCs /\ Entry[r.op]
                \notin {"up_lock", "md_lock", "sv_lock", "dl_lock"}
        BY DEF Entry, Request, AllCommands, LockPCs
      <3>3. pc[t] = "idle" /\ pc \in [Threads -> PCs]
        BY <2>3 DEF Receive, TypeOK
      <3> QED BY <3>1, <3>2, <3>3 DEF LockPhase, LockPCs
    <2>4. ASSUME NEW t \in Threads, Refuse(t) \/ Reply(t)
          PROVE  UNCHANGED phase
      BY <2>4 DEF Refuse, Reply, Goto, TypeOK, LockPhase, LockPCs
    <2>5. CASE Crash
      BY <2>5 DEF Crash, LockPhase, LockPCs, LockUse!Next, LockUse!Restart
    <2>6. CASE UNCHANGED vars
      BY <2>6 DEF vars, LockPhase
    <2> QED
      BY <2>1, <2>2, <2>3, <2>4, <2>5, <2>6 DEF Next, Work, Done
  <1> QED
    BY <1>1, <1>2, TypeCorrect, LockSafe, PTL
    DEF Spec, UsesTimedLock, LockUse!Spec

-----------------------------------------------------------------------------
(* The reference counts. *)


Environment == "del" \in Exclusive /\ "insert_file_info" \notin Faults

\* The sets that are counted are finite.
LEMMA CountedFinite ==
    ASSUME TypeOK, NEW m \in Md5s
    PROVE  /\ IsFiniteSet(Rows(m)) /\ Cardinality(Rows(m)) \in Nat
           /\ IsFiniteSet(Pending(m)) /\ Cardinality(Pending(m)) \in Nat
           /\ file_info[m].count \in Int
  <1>1. Rows(m) \in SUBSET user_file_list /\ Pending(m) \in SUBSET Threads
    BY DEF Rows, Pending
  <1>2. IsFiniteSet(Rows(m)) /\ IsFiniteSet(Pending(m))
    BY <1>1, FS_Subset, ConstantsAssumption DEF TypeOK
  <1>3. file_info[m] \in FileInfo
    BY DEF TypeOK
  <1> QED
    BY <1>2, <1>3, FS_CardinalityType DEF FileInfo

\* A file that someone has, or has in hand, has a record with a count.
LEMMA PendingHasCount ==
    ASSUME TypeOK, RefCountCovers, NEW t \in Threads, pc[t] \in PendingPCs
    PROVE  /\ file_info[M(t)].count >= 1
           /\ HasInfo(M(t))
  <1>1. M(t) \in Md5s
    BY KeyTypes DEF PendingPCs
  <1>2. t \in Pending(M(t))
    BY DEF Pending
  <1>3. Cardinality(Pending(M(t))) # 0
    BY <1>1, <1>2, CountedFinite, FS_EmptySet
  <1> QED
    BY <1>1, <1>3, CountedFinite DEF RefCountCovers, HasInfo, NoInfo

\* Steps that lower no count, insert no row and leave nobody new with a
\* reference in hand keep the counts covering.
LEMMA QuietStep ==
    ASSUME TypeOK, TypeOK', RefCountCovers,
           user_file_list' \subseteq user_file_list,
           \A m \in Md5s : file_info[m].count <= file_info'[m].count,
           \A s \in Threads : pc'[s] \in PendingPCs =>
              pc[s] \in PendingPCs /\ req'[s] = req[s]
    PROVE  RefCountCovers'
  <1> SUFFICES ASSUME NEW m \in Md5s
               PROVE  (Cardinality(Rows(m)) + Cardinality(Pending(m))
                           <= file_info[m].count)'
    BY DEF RefCountCovers
  <1>1. Rows(m)' \in SUBSET Rows(m)
    BY DEF Rows
  <1>2. Pending(m)' \in SUBSET Pending(m)
    BY DEF Pending, M, KeyOf
  <1>3. /\ Cardinality(Rows(m)') <= Cardinality(Rows(m))
        /\ Cardinality(Rows(m)') \in Nat
    BY <1>1, CountedFinite, FS_Subset, FS_CardinalityType
  <1>4. /\ Cardinality(Pending(m)') <= Cardinality(Pending(m))
        /\ Cardinality(Pending(m)') \in Nat
    BY <1>2, CountedFinite, FS_Subset, FS_CardinalityType
  <1>5. file_info'[m].count \in Int
    BY DEF TypeOK, FileInfo
  <1>6. file_info[m].count \in Int /\ Cardinality(Rows(m)) \in Nat
        /\ Cardinality(Pending(m)) \in Nat
    BY CountedFinite
  <1> QED
    BY <1>3, <1>4, <1>5, <1>6 DEF RefCountCovers

\* An element more is at most one more to count.
LEMMA AddOne ==
    ASSUME NEW S, IsFiniteSet(S), NEW x
    PROVE  /\ Cardinality(S \cup {x}) <= Cardinality(S) + 1
           /\ Cardinality(S \cup {x}) \in Nat
  <1>1. /\ IsFiniteSet(S \cup {x})
        /\ Cardinality(S \cup {x}) =
              IF x \in S THEN Cardinality(S) ELSE Cardinality(S) + 1
    BY FS_AddElement
  <1>2. Cardinality(S) \in Nat
    BY FS_CardinalityType
  <1> QED BY <1>1, <1>2

\* A thread moves: the only change to the references in hand is its own.
LEMMA PendingChange ==
    ASSUME TypeOK, NEW t \in Threads, NEW where, UNCHANGED req,
           pc' = [pc EXCEPT ![t] = where], NEW m \in Md5s
    PROVE  /\ M(t) # m => Pending(m)' = Pending(m)
           /\ M(t) = m /\ where \in PendingPCs
                => Pending(m)' = Pending(m) \cup {t}
           /\ M(t) = m /\ where \notin PendingPCs
                => Pending(m)' = Pending(m) \ {t}
  BY DEF Pending, M, KeyOf, TypeOK

\* A row is inserted or dropped: only the rows of its digest change.
LEMMA RowsChange ==
    ASSUME NEW k, NEW m
    PROVE  /\ user_file_list' = user_file_list =>
                 Rows(m)' = Rows(m)
           /\ user_file_list' = user_file_list \cup {k} =>
                 Rows(m)' = IF Md5Of(k) = m THEN Rows(m) \cup {k} ELSE Rows(m)
           /\ user_file_list' = user_file_list \ {k} =>
                 Rows(m)' = IF Md5Of(k) = m THEN Rows(m) \ {k} ELSE Rows(m)
  BY DEF Rows

\* The four ways a reference changes hands. Counting one takes it in hand:
LEMMA TakeReference ==
    ASSUME TypeOK, TypeOK', RefCountCovers, NEW t \in Threads, M(t) \in Md5s,
           UNCHANGED <<req, user_file_list>>, NEW where \in PendingPCs,
           pc' = [pc EXCEPT ![t] = where],
           file_info'[M(t)].count = file_info[M(t)].count + 1,
           \A m \in Md5s : M(t) # m => file_info'[m] = file_info[m]
    PROVE  RefCountCovers'
  <1> SUFFICES ASSUME NEW m \in Md5s
               PROVE  Cardinality(Rows(m)') + Cardinality(Pending(m)')
                           <= file_info'[m].count
    BY DEF RefCountCovers
  <1>1. Rows(m)' = Rows(m)
    BY RowsChange
  <1>2. CASE M(t) # m
    BY <1>1, <1>2, PendingChange DEF RefCountCovers
  <1>3. CASE M(t) = m
    <2>1. Pending(m)' = Pending(m) \cup {t}
      BY <1>3, PendingChange
    <2>2. Cardinality(Pending(m)') <= Cardinality(Pending(m)) + 1
          /\ Cardinality(Pending(m)') \in Nat
      BY <2>1, CountedFinite, AddOne
    <2> QED
      BY <1>1, <1>3, <2>2, CountedFinite DEF RefCountCovers
  <1> QED BY <1>2, <1>3

\* Inserting the row stores the reference in hand there:
LEMMA StoreReference ==
    ASSUME TypeOK, TypeOK', RefCountCovers, NEW t \in Threads, M(t) \in Md5s,
           UNCHANGED <<req, file_info>>, pc[t] \in PendingPCs,
           NEW where, where \notin PendingPCs,
           pc' = [pc EXCEPT ![t] = where],
           user_file_list' = user_file_list \cup {KeyOf(t)}
    PROVE  RefCountCovers'
  <1> SUFFICES ASSUME NEW m \in Md5s
               PROVE  Cardinality(Rows(m)') + Cardinality(Pending(m)')
                           <= file_info'[m].count
    BY DEF RefCountCovers
  <1>1. CASE M(t) # m
    BY <1>1, PendingChange, RowsChange DEF RefCountCovers, M
  <1>2. CASE M(t) = m
    <2>1. Pending(m)' = Pending(m) \ {t} /\ t \in Pending(m)
      BY <1>2, PendingChange DEF Pending
    <2>2. Cardinality(Pending(m)') = Cardinality(Pending(m)) - 1
      BY <2>1, CountedFinite, FS_RemoveElement
    <2>3. Rows(m)' = Rows(m) \cup {KeyOf(t)}
      BY <1>2, RowsChange DEF M
    <2>4. /\ Cardinality(Rows(m)') <= Cardinality(Rows(m)) + 1
          /\ Cardinality(Rows(m)') \in Nat
      BY <2>3, CountedFinite, AddOne
    <2> QED
      BY <2>2, <2>4, CountedFinite DEF RefCountCovers
  <1> QED BY <1>1, <1>2

\* Dropping the row takes its reference in hand:
LEMMA FetchReference ==
    ASSUME TypeOK, TypeOK', RefCountCovers, NEW t \in Threads, M(t) \in Md5s,
           UNCHANGED <<req, file_info>>, KeyOf(t) \in user_file_list,
           NEW where \in PendingPCs, pc' = [pc EXCEPT ![t] = where],
           user_file_list' = user_file_list \ {KeyOf(t)}
    PROVE  RefCountCovers'
  <1> SUFFICES ASSUME NEW m \in Md5s
               PROVE  Cardinality(Rows(m)') + Cardinality(Pending(m)')
                           <= file_info'[m].count
    BY DEF RefCountCovers
  <1>1. CASE M(t) # m
    BY <1>1, PendingChange, RowsChange DEF RefCountCovers, M
  <1>2. CASE M(t) = m
    <2>1. Pending(m)' = Pending(m) \cup {t}
      BY <1>2, PendingChange
    <2>2. Cardinality(Pending(m)') <= Cardinality(Pending(m)) + 1
          /\ Cardinality(Pending(m)') \in Nat
      BY <2>1, CountedFinite, AddOne
    <2>3. Rows(m)' = Rows(m) \ {KeyOf(t)} /\ KeyOf(t) \in Rows(m)
      BY <1>2, RowsChange DEF M, Rows
    <2>4. Cardinality(Rows(m)') = Cardinality(Rows(m)) - 1
      BY <2>3, CountedFinite, FS_RemoveElement
    <2> QED
      BY <2>2, <2>4, CountedFinite DEF RefCountCovers
  <1> QED BY <1>1, <1>2

\* Uncounting gives the reference in hand back:
LEMMA GiveReference ==
    ASSUME TypeOK, TypeOK', RefCountCovers, NEW t \in Threads, M(t) \in Md5s,
           UNCHANGED <<req, user_file_list>>, pc[t] \in PendingPCs,
           NEW where, where \notin PendingPCs,
           pc' = [pc EXCEPT ![t] = where],
           file_info'[M(t)].count = file_info[M(t)].count - 1,
           \A m \in Md5s : M(t) # m => file_info'[m] = file_info[m]
    PROVE  RefCountCovers'
  <1> SUFFICES ASSUME NEW m \in Md5s
               PROVE  Cardinality(Rows(m)') + Cardinality(Pending(m)')
                           <= file_info'[m].count
    BY DEF RefCountCovers
  <1>1. Rows(m)' = Rows(m)
    BY RowsChange
  <1>2. CASE M(t) # m
    BY <1>1, <1>2, PendingChange DEF RefCountCovers
  <1>3. CASE M(t) = m
    <2>1. Pending(m)' = Pending(m) \ {t} /\ t \in Pending(m)
      BY <1>3, PendingChange DEF Pending
    <2>2. Cardinality(Pending(m)') = Cardinality(Pending(m)) - 1
      BY <2>1, CountedFinite, FS_RemoveElement
    <2> QED
      BY <1>1, <1>3, <2>2, CountedFinite DEF RefCountCovers
  <1> QED BY <1>2, <1>3

-----------------------------------------------------------------------------
(* Each statement of the ownership handlers keeps the counts covering *)

\* A quiet step of one thread.
LEMMA QuietMove ==
    ASSUME TypeOK, TypeOK', RefCountCovers, NEW t \in Threads, NEW where,
           UNCHANGED <<req, user_file_list>>,
           file_info' = file_info \/ file_info' = CountPlusOne(M(t)),
           M(t) \in Md5s,
           pc' = [pc EXCEPT ![t] = where],
           where \in PendingPCs => pc[t] \in PendingPCs
    PROVE  RefCountCovers'
  <1>1. \A m \in Md5s : file_info[m].count <= file_info'[m].count
    <2>1. \A m \in Md5s : file_info[m] \in FileInfo
      BY DEF TypeOK
    <2> QED BY <2>1 DEF TypeOK, CountPlusOne, FileInfo
  <1>2. \A s \in Threads : pc'[s] \in PendingPCs =>
              pc[s] \in PendingPCs /\ req'[s] = req[s]
    BY DEF TypeOK
  <1> QED BY <1>1, <1>2, QuietStep

\* ApiUpload keeps the counts covering: a reference is counted, by the insert
\* or by the update, before its row is inserted.
LEMMA UploadCovers ==
    ASSUME TypeOK, TypeOK', RefCountInv, Environment,
           NEW t \in Threads, Upload(t)
    PROVE  RefCountCovers'
  <1> USE DEF RefCountInv
  <1>0. pc[t] # "idle" /\ M(t) \in Md5s
    BY KeyTypes DEF Upload, UploadFile, UploadUrl, UploadLock, UploadTimeout,
                    UploadInsertInfo, UploadCount, UploadInsertUser,
                    UploadRemove, Acquire
  <1>1. CASE \/ UploadFile(t) \/ UploadUrl(t) \/ UploadLock(t)
             \/ UploadTimeout(t) \/ UploadRemove(t)
    <2>1. /\ UNCHANGED <<req, user_file_list, file_info>>
          /\ \E where \in {"reply", "up_url", "up_lock", "up_insert_info",
                           "up_remove"} : pc' = [pc EXCEPT ![t] = where]
      BY <1>1 DEF UploadFile, UploadUrl, UploadLock, UploadTimeout,
                  UploadRemove, Acquire, Goto, Return, tableVars, threadVars
    <2> QED BY <1>0, <2>1, QuietMove DEF PendingPCs
  <1>2. CASE UploadInsertInfo(t)
    <2>1. UNCHANGED <<req, user_file_list>>
      BY <1>2 DEF UploadInsertInfo, threadVars
    <2>2. CASE /\ ~ HasInfo(M(t))
               /\ file_info' = [file_info EXCEPT ![M(t)] =
                                  [count |-> 1, file_id |-> fid[t]]]
      <3>1. file_info[M(t)].count = 0
        BY <2>2 DEF HasInfo, NoInfo
      <3>2. /\ file_info'[M(t)].count = file_info[M(t)].count + 1
            /\ \A m \in Md5s : M(t) # m => file_info'[m] = file_info[m]
        BY <1>0, <2>2, <3>1 DEF TypeOK
      <3>3. CASE Goto(t, "up_insert_user")
        BY <1>0, <2>1, <3>2, <3>3, TakeReference DEF Goto, PendingPCs
      <3>4. CASE Goto(t, "up_count")
        <4>1. \A m \in Md5s : file_info[m].count <= file_info'[m].count
          BY <3>1, <3>2 DEF TypeOK, FileInfo
        <4>2. \A s \in Threads : pc'[s] \in PendingPCs =>
                    pc[s] \in PendingPCs /\ req'[s] = req[s]
          BY <2>1, <3>4 DEF TypeOK, Goto, PendingPCs
        <4> QED BY <2>1, <4>1, <4>2, QuietStep
      <3> QED BY <1>2, <2>2, <3>3, <3>4 DEF UploadInsertInfo
    <2>3. CASE Goto(t, "up_count") /\ UNCHANGED file_info
      BY <1>0, <2>1, <2>3, QuietMove DEF Goto, PendingPCs
    <2> QED BY <1>2, <2>2, <2>3 DEF UploadInsertInfo
  <1>3. CASE UploadCount(t)
    <2>1. UNCHANGED <<req, user_file_list>>
      BY <1>3 DEF UploadCount
    <2>2. CASE file_info' = CountPlusOne(M(t)) /\ Goto(t, "up_insert_user")
      <3>1. HasInfo(M(t))
        BY <1>3 DEF LockedReadsHold, UploadCount
      <3>2. /\ file_info'[M(t)].count = file_info[M(t)].count + 1
            /\ \A m \in Md5s : M(t) # m => file_info'[m] = file_info[m]
        BY <1>0, <2>2, <3>1 DEF TypeOK, CountPlusOne, FileInfo
      <3> QED BY <1>0, <2>1, <2>2, <3>2, TakeReference DEF Goto, PendingPCs
    <2>3. CASE /\ Goto(t, "up_remove")
               /\ file_info' = file_info \/ file_info' = CountPlusOne(M(t))
      BY <1>0, <2>1, <2>3, QuietMove DEF Goto, PendingPCs
    <2> QED BY <1>3, <2>2, <2>3 DEF UploadCount
  <1>4. CASE UploadInsertUser(t)
    <2>1. UNCHANGED <<req, file_info>> /\ pc[t] \in PendingPCs
      BY <1>4 DEF UploadInsertUser, threadVars, PendingPCs
    <2>2. CASE user_file_list' = user_file_list \cup {KeyOf(t)}
      BY <1>0, <1>4, <2>1, <2>2, StoreReference
      DEF UploadInsertUser, Goto, PendingPCs
    <2>3. CASE UNCHANGED user_file_list
      BY <1>0, <1>4, <2>1, <2>3, QuietMove
      DEF UploadInsertUser, Goto, PendingPCs
    <2> QED BY <1>4, <2>2, <2>3 DEF UploadInsertUser, InsertUserRow
  <1> QED BY <1>1, <1>2, <1>3, <1>4 DEF Upload

\* handleDealMd5 keeps the counts covering: it only counts up.
LEMMA Md5Covers ==
    ASSUME TypeOK, TypeOK', RefCountInv, NEW t \in Threads, Md5(t)
    PROVE  RefCountCovers'
  <1>0. pc[t] # "idle" /\ M(t) \in Md5s
    BY KeyTypes DEF Md5, Md5Check, Md5Lock, Md5Timeout, Md5Count, CheckOwned,
                    Acquire, Timeout
  <1>1. /\ UNCHANGED <<req, user_file_list>>
        /\ file_info' = file_info \/ file_info' = CountPlusOne(M(t))
        /\ \E where \in {"reply", "md_lock", "md_count"} :
              pc' = [pc EXCEPT ![t] = where]
    BY DEF Md5, Md5Check, Md5Lock, Md5Timeout, Md5Count, CheckOwned, Acquire,
           Timeout, Goto, Return, tableVars, threadVars
  <1> QED BY <1>0, <1>1, QuietMove DEF PendingPCs, RefCountInv

\* handleSaveFile keeps the counts covering: the reference is counted before
\* its row is inserted, outside the lock.
LEMMA SaveCovers ==
    ASSUME TypeOK, TypeOK', RefCountInv, NEW t \in Threads, Save(t)
    PROVE  RefCountCovers'
  <1> USE DEF RefCountInv
  <1>0. pc[t] # "idle" /\ M(t) \in Md5s
    BY KeyTypes DEF Save, SaveCheck, SaveLock, SaveTimeout, SaveCount,
                    SaveInsert, CheckOwned, Acquire, Timeout
  <1>1. CASE SaveCheck(t) \/ SaveLock(t) \/ SaveTimeout(t)
    <2>1. /\ UNCHANGED <<req, user_file_list, file_info>>
          /\ \E where \in {"reply", "sv_lock", "sv_count"} :
                pc' = [pc EXCEPT ![t] = where]
      BY <1>1 DEF SaveCheck, SaveLock, SaveTimeout, CheckOwned, Acquire,
                  Timeout, Goto, Return, tableVars, threadVars
    <2> QED BY <1>0, <2>1, QuietMove DEF PendingPCs
  <1>2. CASE SaveCount(t)
    <2>1. UNCHANGED <<req, user_file_list>>
      BY <1>2 DEF SaveCount, threadVars
    <2>2. CASE /\ HasInfo(M(t)) /\ file_info' = CountPlusOne(M(t))
               /\ Goto(t, "sv_insert")
      <3>1. /\ file_info'[M(t)].count = file_info[M(t)].count + 1
            /\ \A m \in Md5s : M(t) # m => file_info'[m] = file_info[m]
        BY <1>0, <2>2 DEF TypeOK, CountPlusOne, FileInfo
      <3> QED BY <1>0, <2>1, <2>2, <3>1, TakeReference DEF Goto, PendingPCs
    <2>3. CASE /\ Return(t, 1)
               /\ file_info' = file_info \/ file_info' = CountPlusOne(M(t))
      BY <1>0, <2>1, <2>3, QuietMove DEF Return, Goto, PendingPCs
    <2> QED BY <1>2, <2>2, <2>3 DEF SaveCount
  <1>3. CASE SaveInsert(t)
    <2>1. /\ UNCHANGED <<req, file_info>> /\ pc[t] \in PendingPCs
          /\ pc' = [pc EXCEPT ![t] = "reply"]
      BY <1>3 DEF SaveInsert, threadVars, PendingPCs, Return, Goto
    <2>2. CASE user_file_list' = user_file_list \cup {KeyOf(t)}
      BY <1>0, <2>1, <2>2, StoreReference DEF PendingPCs
    <2>3. CASE UNCHANGED user_file_list
      BY <1>0, <2>1, <2>3, QuietMove DEF PendingPCs
    <2> QED BY <1>3, <2>2, <2>3 DEF SaveInsert, InsertUserRow
  <1> QED BY <1>1, <1>2, <1>3 DEF Save

\* handleDeleteFile keeps the counts covering: the row is dropped before its
\* reference is given up, and a count of 1 means that no other is left.
LEMMA DeleteCovers ==
    ASSUME TypeOK, TypeOK', RefCountInv, NEW t \in Threads, Delete(t)
    PROVE  RefCountCovers'
  <1> USE DEF RefCountInv
  <1>0. pc[t] # "idle" /\ M(t) \in Md5s
    BY KeyTypes DEF Delete, DeleteStatus, DeleteZrem, DeleteHdel, DeleteShare,
                    DeleteUser, DeleteLock, DeleteTimeout, DeleteSelect,
                    DeleteCount, DeleteRemove, Acquire, Timeout
  <1>1. CASE \/ DeleteStatus(t) \/ DeleteZrem(t) \/ DeleteHdel(t)
             \/ DeleteShare(t) \/ DeleteRemove(t)
    <2>1. /\ UNCHANGED <<req, user_file_list, file_info>>
          /\ \E where \in {"reply", "dl_zrem", "dl_hdel", "dl_share",
                           "dl_user"} : pc' = [pc EXCEPT ![t] = where]
      BY <1>1 DEF DeleteStatus, DeleteZrem, DeleteHdel, DeleteShare,
                  DeleteRemove, Goto, Return, tableVars, threadVars
    <2> QED BY <1>0, <2>1, QuietMove DEF PendingPCs
  <1>2. CASE DeleteLock(t) \/ DeleteTimeout(t) \/ DeleteSelect(t)
    <2>1. /\ UNCHANGED <<req, user_file_list, file_info>>
          /\ pc[t] \in PendingPCs
          /\ \E where \in {"reply", "dl_select", "dl_count"} :
                pc' = [pc EXCEPT ![t] = where]
      BY <1>2 DEF DeleteLock, DeleteTimeout, DeleteSelect, Acquire, Timeout,
                  Goto, Return, tableVars, threadVars, PendingPCs
    <2> QED BY <1>0, <2>1, QuietMove
  <1>3. CASE DeleteUser(t)
    <2>1. UNCHANGED <<req, file_info>>
      BY <1>3 DEF DeleteUser, threadVars
    <2>2. CASE DropUserRow(KeyOf(t)) /\ Goto(t, "dl_lock")
      <3>1. KeyOf(t) \in user_file_list
        BY <1>3 DEF RowStillThere, DeleteUser
      <3> QED BY <1>0, <2>1, <2>2, <3>1, FetchReference
              DEF DropUserRow, Goto, PendingPCs
    <2>3. CASE Return(t, 1) /\ user_file_list' \subseteq user_file_list
      <3>1. \A m \in Md5s : file_info[m].count <= file_info'[m].count
        BY <2>1 DEF TypeOK, FileInfo
      <3>2. \A s \in Threads : pc'[s] \in PendingPCs =>
                  pc[s] \in PendingPCs /\ req'[s] = req[s]
        BY <2>1, <2>3 DEF TypeOK, Return, Goto, PendingPCs
      <3> QED BY <2>3, <3>1, <3>2, QuietStep
    <2>4. DropUserRow(KeyOf(t)) => user_file_list' \subseteq user_file_list
      BY DEF DropUserRow
    <2> QED BY <1>3, <2>2, <2>3, <2>4 DEF DeleteUser
  <1>4. CASE DeleteCount(t)
    <2>1. /\ UNCHANGED <<req, user_file_list>> /\ pc[t] \in PendingPCs
          /\ \E where \in {"reply", "dl_remove"} :
                pc' = [pc EXCEPT ![t] = where]
      BY <1>4 DEF DeleteCount, threadVars, PendingPCs, Return, Goto
    <2>2. cnt[t] = file_info[M(t)].count
      BY <1>4 DEF LockedReadsHold, DeleteCount
    <2>3. CASE file_info' = [file_info EXCEPT ![M(t)].count = @ - 1]
      <3>1. /\ file_info'[M(t)].count = file_info[M(t)].count - 1
            /\ \A m \in Md5s : M(t) # m => file_info'[m] = file_info[m]
        BY <1>0, <2>3 DEF TypeOK, FileInfo
      <3> QED BY <1>0, <2>1, <3>1, GiveReference DEF PendingPCs
    <2>4. CASE cnt[t] = 1 /\ file_info' = [file_info EXCEPT ![M(t)] = NoInfo]
      <3>1. /\ file_info'[M(t)].count = file_info[M(t)].count - 1
            /\ \A m \in Md5s : M(t) # m => file_info'[m] = file_info[m]
        BY <1>0, <2>2, <2>4 DEF TypeOK, FileInfo, NoInfo
      <3> QED BY <1>0, <2>1, <3>1, GiveReference DEF PendingPCs
    <2>5. CASE UNCHANGED file_info
      BY <1>0, <2>1, <2>5, QuietMove
    <2> QED BY <1>4, <2>3, <2>4, <2>5 DEF DeleteCount
  <1> QED BY <1>1, <1>2, <1>3, <1>4 DEF Delete

-----------------------------------------------------------------------------
(* The parts of the invariant the counts rest on *)

\* What a statement of an ownership handler may change.
LEMMA OwnershipFrame ==
    ASSUME TypeOK, NEW t \in Threads, Ownership(t)
    PROVE  /\ UNCHANGED req
           /\ pc[t] \in OwnershipPCs
           /\ \E where \in OwnershipPCs \cup {"reply"} :
                 /\ pc' = [pc EXCEPT ![t] = where]
                 /\ where \in DeletePCs => pc[t] \in DeletePCs
                 /\ where \in {"dl_zrem", "dl_hdel", "dl_share", "dl_user"} =>
                       \/ pc[t] \in {"dl_zrem", "dl_hdel", "dl_share"}
                       \/ KeyOf(t) \in user_file_list
           /\ \A s \in Threads : s # t => cnt'[s] = cnt[s]
           /\ file_info' = file_info \/ pc[t] \in LockPCs
           /\ \/ user_file_list \subseteq user_file_list'
              \/ /\ pc[t] = "dl_user"
                 /\ \E where \in {"dl_lock", "reply"} :
                       pc' = [pc EXCEPT ![t] = where]
                 /\ user_file_list' = user_file_list \ {KeyOf(t)}
  <1> USE DEF tableVars, threadVars, Goto, Return, OwnershipPCs, DeletePCs,
              LockPCs
  <1>1. CASE Upload(t)
    BY <1>1 DEF TypeOK, Upload, UploadFile, UploadUrl, UploadLock,
                UploadTimeout, UploadInsertInfo, UploadCount, UploadInsertUser,
                UploadRemove, Acquire, InsertUserRow
  <1>2. CASE Md5(t)
    BY <1>2 DEF TypeOK, Md5, Md5Check, Md5Lock, Md5Timeout, Md5Count,
                CheckOwned, Acquire, Timeout
  <1>3. CASE Save(t)
    BY <1>3 DEF TypeOK, Save, SaveCheck, SaveLock, SaveTimeout, SaveCount,
                SaveInsert, CheckOwned, Acquire, Timeout, InsertUserRow
  <1>4. CASE Delete(t)
    <2>1. CASE \/ DeleteStatus(t) \/ DeleteZrem(t) \/ DeleteHdel(t)
               \/ DeleteShare(t) \/ DeleteUser(t)
      BY <2>1 DEF TypeOK, DeleteStatus, DeleteZrem, DeleteHdel, DeleteShare,
                  DeleteUser, DropUserRow
    <2>2. CASE \/ DeleteLock(t) \/ DeleteTimeout(t) \/ DeleteSelect(t)
               \/ DeleteCount(t) \/ DeleteRemove(t)
      BY <2>2 DEF TypeOK, DeleteLock, DeleteTimeout, DeleteSelect, DeleteCount,
                  DeleteRemove, Acquire, Timeout
    <2> QED BY <1>4, <2>1, <2>2 DEF Delete
  <1> QED
    BY <1>1, <1>2, <1>3, <1>4 DEF Ownership

\* Deletes of one row stay apart: nothing but Receive starts one.
LEMMA OwnershipApart ==
    ASSUME TypeOK, RefCountInv, NEW t \in Threads, Ownership(t)
    PROVE  DeletesApart' /\ RowStillThere'
  <1>1. PICK where \in OwnershipPCs \cup {"reply"} :
          /\ pc' = [pc EXCEPT ![t] = where]
          /\ where \in DeletePCs => pc[t] \in DeletePCs
          /\ where \in {"dl_zrem", "dl_hdel", "dl_share", "dl_user"} =>
                \/ pc[t] \in {"dl_zrem", "dl_hdel", "dl_share"}
                \/ KeyOf(t) \in user_file_list
    BY OwnershipFrame
  <1>2. UNCHANGED req /\ pc \in [Threads -> PCs]
    BY OwnershipFrame DEF TypeOK
  <1>3. DeletesApart'
    BY <1>1, <1>2 DEF RefCountInv, DeletesApart, KeyOf
  <1>4. RowStillThere'
    <2> SUFFICES ASSUME NEW s \in Threads,
                        pc'[s] \in {"dl_zrem", "dl_hdel", "dl_share", "dl_user"}
                 PROVE  KeyOf(s) \in user_file_list'
      BY <1>2 DEF RowStillThere, KeyOf
    <2>1. KeyOf(s) \in user_file_list
      BY <1>1, <1>2 DEF RefCountInv, RowStillThere
    <2>2. CASE user_file_list \subseteq user_file_list'
      BY <2>1, <2>2
    <2>3. CASE /\ pc[t] = "dl_user"
               /\ \E to \in {"dl_lock", "reply"} :
                     pc' = [pc EXCEPT ![t] = to]
               /\ user_file_list' = user_file_list \ {KeyOf(t)}
      <3>1. s # t /\ pc[s] = pc'[s]
        BY <1>2, <2>3
      <3>2. KeyOf(s) # KeyOf(t)
        BY <2>3, <3>1 DEF RefCountInv, DeletesApart, DeletePCs
      <3> QED BY <2>1, <2>3, <3>2
    <2> QED BY <2>2, <2>3, OwnershipFrame
  <1> QED BY <1>3, <1>4

\* What was read inside the lock stays true: only the holder writes.
LEMMA OwnershipReads ==
    ASSUME TypeOK, LockExcludes, RefCountInv, Environment,
           NEW t \in Threads, Ownership(t)
    PROVE  LockedReadsHold'
  <1> USE DEF LockedReadsHold, RefCountInv
  <1>1. UNCHANGED req /\ pc \in [Threads -> PCs] /\ cnt \in [Threads -> Int]
    BY OwnershipFrame DEF TypeOK
  <1>2. ASSUME NEW s \in Threads, s # t
        PROVE  /\ pc'[s] = "up_count" => HasInfo(M(s))'
               /\ pc'[s] = "dl_count" => cnt'[s] = file_info'[M(s)'].count
    <2>1. pc'[s] = pc[s] /\ cnt'[s] = cnt[s] /\ M(s)' = M(s)
      BY <1>1, <1>2, OwnershipFrame DEF M, KeyOf
    <2>2. pc[s] \in {"up_count", "dl_count"} => file_info' = file_info
      BY <1>2, OwnershipFrame DEF LockExcludes, LockPCs
    <2> QED BY <2>1, <2>2 DEF HasInfo
  <1>3. /\ pc'[t] = "up_count" => HasInfo(M(t))'
        /\ pc'[t] = "dl_count" => cnt'[t] = file_info'[M(t)'].count
    <2>1. M(t)' = M(t)
      BY <1>1 DEF M, KeyOf
    <2>2. CASE UploadInsertInfo(t)
      <3>1. M(t) \in Md5s
        BY <2>2, KeyTypes DEF UploadInsertInfo
      <3>2. pc'[t] = "up_count" => HasInfo(M(t)) \/ file_info'[M(t)].count = 1
        BY <1>1, <2>2, <3>1
        DEF UploadInsertInfo, Environment, Fails, Goto, TypeOK
      <3>3. HasInfo(M(t)) => HasInfo(M(t))'
        BY <1>1, <2>1, <2>2
        DEF UploadInsertInfo, Environment, Fails, Goto, HasInfo
      <3>4. pc'[t] # "dl_count"
        BY <1>1, <2>2 DEF UploadInsertInfo, Goto
      <3> QED BY <2>1, <3>2, <3>3, <3>4 DEF HasInfo, NoInfo
    <2>3. CASE DeleteSelect(t)
      BY <1>1, <2>1, <2>3 DEF DeleteSelect, Return, Goto, tableVars
    <2>4. CASE ~ UploadInsertInfo(t) /\ ~ DeleteSelect(t)
      <3> SUFFICES pc'[t] \notin {"up_count", "dl_count"}
        OBVIOUS
      <3> USE <1>1, <2>4 DEF Goto, Return
      <3>1. CASE Upload(t)
        BY <3>1 DEF Upload, UploadFile, UploadUrl, UploadLock, UploadTimeout,
                    UploadCount, UploadInsertUser, UploadRemove, Acquire
      <3>2. CASE Md5(t)
        BY <3>2 DEF Md5, Md5Check, Md5Lock, Md5Timeout, Md5Count, CheckOwned,
                    Acquire, Timeout
      <3>3. CASE Save(t)
        BY <3>3 DEF Save, SaveCheck, SaveLock, SaveTimeout, SaveCount,
                    SaveInsert, CheckOwned, Acquire, Timeout
      <3>4. CASE Delete(t)
        BY <3>4 DEF Delete, DeleteStatus, DeleteZrem, DeleteHdel, DeleteShare,
                    DeleteUser, DeleteLock, DeleteTimeout, DeleteCount,
                    DeleteRemove, Acquire, Timeout
      <3> QED BY <3>1, <3>2, <3>3, <3>4 DEF Ownership
    <2> QED BY <2>2, <2>3, <2>4
  <1> QED BY <1>2, <1>3

-----------------------------------------------------------------------------
(* The steps that do not concern the ownership tables *)

\* The sharing handlers change neither files, rows of users nor the lock.
LEMMA SharingInv ==
    ASSUME TypeOK, TypeOK', RefCountInv, NEW t \in Threads, Sharing(t)
    PROVE  RefCountInv'
  <1>1. PICK where \in SharingPCs \cup {"reply"} :
          pc' = [pc EXCEPT ![t] = where]
    BY SharingFrame
  <1>2. PICK c \in Int : cnt' = [cnt EXCEPT ![t] = c]
    BY SharingFrame
  <1>3. /\ UNCHANGED <<file_info, user_file_list, req>>
        /\ pc[t] \in SharingPCs
        /\ pc \in [Threads -> PCs] /\ cnt \in [Threads -> Int]
    BY SharingFrame DEF TypeOK
  <1>4. \A s \in Threads : pc'[s] \in OwnershipPCs =>
              s # t /\ pc'[s] = pc[s] /\ cnt'[s] = cnt[s]
    BY <1>1, <1>2, <1>3 DEF OwnershipPCs, SharingPCs
  <1>5. DeletesApart' /\ RowStillThere' /\ LockedReadsHold'
    BY <1>3, <1>4 DEF RefCountInv, DeletesApart, RowStillThere,
                      LockedReadsHold, HasInfo, M, KeyOf, DeletePCs,
                      OwnershipPCs
  <1>6. RefCountCovers'
    <2>1. \A m \in Md5s : file_info[m].count <= file_info'[m].count
      BY <1>3, CountedFinite
    <2> QED
      BY <1>3, <1>4, <2>1, QuietStep DEF RefCountInv, PendingPCs, OwnershipPCs
  <1> QED BY <1>5, <1>6 DEF RefCountInv

\* Taking and answering requests keep the invariant, and so does a crash: the
\* references in hand are lost, and the counts only cover too much.
LEMMA LifeInv ==
    ASSUME TypeOK, TypeOK', RefCountInv, Environment,
           \/ \E t \in Threads : Receive(t) \/ Refuse(t) \/ Reply(t)
           \/ Crash
           \/ UNCHANGED vars
    PROVE  RefCountInv'
  <1> USE DEF RefCountInv
  <1>1. UNCHANGED <<file_info, user_file_list>>
    BY DEF Receive, Refuse, Reply, Crash, vars, tableVars
  <1> DEFINE OnlyEntries(s) ==
        pc'[s] \in OwnershipPCs =>
            \/ pc'[s] = pc[s] /\ req'[s] = req[s] /\ cnt'[s] = cnt[s]
            \/ pc'[s] \in {"up_fdfs", "md_check", "sv_check", "dl_status"}
  <1>2. \A s \in Threads : OnlyEntries(s)
    <2>1. ASSUME NEW t \in Threads, Receive(t), NEW s \in Threads
          PROVE  OnlyEntries(s)
      <3>1. PICK r \in Request : /\ req' = [req EXCEPT ![t] = r]
                                 /\ pc' = [pc EXCEPT ![t] = Entry[r.op]]
        BY <2>1, ConstantsAssumption DEF Receive, Request, Goto
      <3>2. Entry[r.op] \in OwnershipPCs =>
              Entry[r.op] \in {"up_fdfs", "md_check", "sv_check", "dl_status"}
        BY DEF Entry, Request, AllCommands, OwnershipPCs
      <3>3. CASE s = t
        BY <3>1, <3>2, <3>3 DEF TypeOK
      <3>4. CASE s # t
        BY <2>1, <3>1, <3>4 DEF TypeOK, Receive
      <3> QED BY <3>3, <3>4
    <2>2. ASSUME NEW t \in Threads, Refuse(t) \/ Reply(t),
                 NEW s \in Threads
          PROVE  OnlyEntries(s)
      BY <2>2 DEF TypeOK, Refuse, Reply, Goto, OwnershipPCs
    <2>3. CASE Crash
      BY <2>3 DEF Crash, OwnershipPCs
    <2>4. CASE UNCHANGED vars
      BY <2>4 DEF vars, threadVars
    <2> QED BY <2>1, <2>2, <2>3, <2>4
  <1>3. RowStillThere' /\ LockedReadsHold'
    BY <1>1, <1>2 DEF RowStillThere, LockedReadsHold, HasInfo, M, KeyOf,
                      OwnershipPCs
  <1>4. RefCountCovers'
    <2>1. \A m \in Md5s : file_info[m].count <= file_info'[m].count
      BY <1>1, CountedFinite
    <2> QED BY <1>1, <1>2, <2>1, QuietStep DEF PendingPCs, OwnershipPCs
  <1>5. DeletesApart'
    <2>1. ASSUME NEW t \in Threads, Receive(t) PROVE DeletesApart'
      <3>1. PICK r \in Request : /\ ~ Withheld(t, r)
                                 /\ req' = [req EXCEPT ![t] = r]
                                 /\ pc' = [pc EXCEPT ![t] = Entry[r.op]]
        BY <2>1, ConstantsAssumption DEF Receive, Request, Goto
      <3>2. Entry[r.op] \in DeletePCs => r.op = "del"
        BY DEF Entry, Request, AllCommands, DeletePCs
      <3>3. ASSUME r.op = "del", NEW s \in Threads, s # t, pc[s] \in DeletePCs
            PROVE  KeyOf(s) # r.key
        BY <3>1, <3>3 DEF Withheld, Environment, DeletesApart, DeletePCs,
                          KeyOf
      <3>4. \A s \in Threads \ {t} : pc'[s] = pc[s] /\ req'[s] = req[s]
        BY <3>1 DEF TypeOK
      <3>5. pc'[t] = Entry[r.op] /\ req'[t] = r
        BY <3>1 DEF TypeOK
      <3>6. \A s \in Threads : pc'[s] \in DeletePCs => req'[s].op = "del"
        BY <3>2, <3>4, <3>5 DEF DeletesApart
      <3>7. ASSUME NEW s \in Threads, s # t, pc'[s] \in DeletePCs,
                   pc'[t] \in DeletePCs
            PROVE  req'[s].key # req'[t].key
        BY <3>2, <3>3, <3>4, <3>5, <3>7 DEF KeyOf
      <3>8. ASSUME NEW s \in Threads \ {t}, NEW q \in Threads \ {t},
                   pc'[s] \in DeletePCs, pc'[q] \in DeletePCs,
                   req'[s].key = req'[q].key
            PROVE  s = q
        BY <3>4, <3>8 DEF DeletesApart, KeyOf
      <3> QED BY <3>6, <3>7, <3>8 DEF DeletesApart, KeyOf
    <2>2. ASSUME NEW t \in Threads, Refuse(t) \/ Reply(t) PROVE DeletesApart'
      <3>1. \A s \in Threads : pc'[s] \in DeletePCs =>
                pc'[s] = pc[s] /\ req'[s] = req[s]
        BY <2>2 DEF TypeOK, Refuse, Reply, Goto, DeletePCs
      <3> QED BY <3>1 DEF DeletesApart, KeyOf
    <2>3. CASE Crash
      BY <2>3 DEF Crash, DeletesApart, DeletePCs
    <2>4. CASE UNCHANGED vars
      BY <2>4 DEF vars, threadVars, DeletesApart, KeyOf
    <2> QED BY <2>1, <2>2, <2>3, <2>4
  <1> QED BY <1>3, <1>4, <1>5

\* The seeded tables are consistent.
LEMMA InitRefCountInv == Init => RefCountInv
  <1> SUFFICES ASSUME Init PROVE RefCountInv
    OBVIOUS
  <1>1. DeletesApart /\ RowStillThere /\ LockedReadsHold
    BY DEF Init, DeletesApart, RowStillThere, LockedReadsHold, DeletePCs
  <1>2. RefCountCovers
    <2> SUFFICES ASSUME NEW m \in Md5s
                 PROVE  Cardinality(Rows(m)) + Cardinality(Pending(m))
                             <= file_info[m].count
      BY DEF RefCountCovers
    <2>1. Pending(m) = {}
      BY DEF Init, Pending, PendingPCs
    <2>2. Cardinality(Rows(m)) \in Nat
      BY InitTypeOK, CountedFinite
    <2>3. file_info[m].count = Cardinality(Rows(m))
      <3>1. Rows(m) = {k \in SeedRows : Md5Of(k) = m}
        BY DEF Init, Rows
      <3>2. CASE m \in SeedMd5s
        BY <3>1, <3>2 DEF Init
      <3>3. CASE m \notin SeedMd5s
        <4>1. Rows(m) = {}
          BY <3>1, <3>3 DEF SeedMd5s
        <4> QED BY <3>3, <4>1, FS_EmptySet DEF Init, NoInfo
      <3> QED BY <3>2, <3>3
    <2> QED BY <2>1, <2>2, <2>3, FS_EmptySet
  <1> QED BY <1>1, <1>2 DEF RefCountInv

\* The invariant holds of every behaviour of the server.
THEOREM RefCountInductive ==
    ASSUME Environment
    PROVE  Spec => []RefCountInv
  <1>1. TypeOK /\ TypeOK' /\ LockExcludes /\ RefCountInv /\ [Next]_vars
            => RefCountInv'
    <2> SUFFICES ASSUME TypeOK, TypeOK', LockExcludes, RefCountInv, [Next]_vars
                 PROVE  RefCountInv'
      OBVIOUS
    <2>1. ASSUME NEW t \in Threads, Ownership(t) PROVE RefCountInv'
      <3>1. RefCountCovers'
        BY <2>1, UploadCovers, Md5Covers, SaveCovers, DeleteCovers
        DEF Ownership
      <3> QED
        BY <2>1, <3>1, OwnershipApart, OwnershipReads DEF RefCountInv
    <2>2. ASSUME NEW t \in Threads, Sharing(t) PROVE RefCountInv'
      BY <2>2, SharingInv
    <2> QED
      BY <2>1, <2>2, LifeInv DEF Next, Work, Done
  <1> QED
    BY <1>1, InitRefCountInv, TypeCorrect, LockSafe, PTL DEF Spec

\* The count of a file is at least the number of users' rows that refer to
\* it and of references in flight: however uploads, instant uploads, saves
\* and deletes of any number of threads interleave, time out, fail or are cut
\* short by a crash, the delete that reads 1 and removes the file is the
\* delete of its last owner.
THEOREM RefCountSafe ==
    ASSUME Environment
    PROVE  Spec => []RefCountCovers
  <1>1. RefCountInv => RefCountCovers
    BY DEF RefCountInv
  <1> QED
    BY <1>1, RefCountInductive, PTL

=============================================================================
