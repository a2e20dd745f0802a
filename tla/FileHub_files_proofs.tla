----------------------- MODULE FileHub_files_proofs -----------------------
(***************************************************************************)
(* Where the data is, for every number of threads, users and files: every  *)
(* FastDFS id that is in use belongs to one file_info record or is in the  *)
(* hands of one thread. From this and the reference counts follows that    *)
(* whoever has a row can download the file, that the handlers implement    *)
(* FileStore, and that no data is orphaned.                                *)
(***************************************************************************)
EXTENDS FileHub_proofs

-----------------------------------------------------------------------------
(* What a handler remembers *)

\* A statement of one thread leaves the locals of the others alone.
LEMMA OwnershipLocals ==
    ASSUME TypeOK, NEW t \in Threads, Ownership(t)
    PROVE  \A s \in Threads : s # t => fid'[s] = fid[s] /\ exsit'[s] = exsit[s]
  <1> USE DEF TypeOK, threadVars
  <1>1. CASE Upload(t)
    BY <1>1 DEF Upload, UploadFile, UploadUrl, UploadLock, UploadTimeout,
                UploadInsertInfo, UploadCount, UploadInsertUser, UploadRemove,
                Acquire
  <1>2. CASE Md5(t)
    BY <1>2 DEF Md5, Md5Check, Md5Lock, Md5Timeout, Md5Count, CheckOwned,
                Acquire, Timeout
  <1>3. CASE Save(t)
    BY <1>3 DEF Save, SaveCheck, SaveLock, SaveTimeout, SaveCount, SaveInsert,
                CheckOwned, Acquire, Timeout
  <1>4. CASE Delete(t)
    BY <1>4 DEF Delete, DeleteStatus, DeleteZrem, DeleteHdel, DeleteShare,
                DeleteUser, DeleteLock, DeleteTimeout, DeleteSelect,
                DeleteCount, DeleteRemove, Acquire, Timeout
  <1> QED BY <1>1, <1>2, <1>3, <1>4 DEF Ownership

\* What one thread remembers is right after a step of its own.
LEMMA OwnLocals ==
    ASSUME TypeOK, LocalsRight, NEW t \in Threads, Ownership(t)
    PROVE  /\ exsit'[t] => pc'[t] \in {"up_insert_user", "up_remove", "reply"}
           /\ pc'[t] = "up_insert_user" /\ ~ exsit'[t] =>
                 file_info'[M(t)] = [count |-> 1, file_id |-> fid'[t]]
           /\ pc'[t] = "dl_count" => file_info'[M(t)].file_id = fid'[t]
  <1> USE DEF TypeOK, LocalsRight, tableVars, threadVars, Goto, Return
  <1>1. CASE UploadInsertInfo(t)
    <2>1. M(t) \in Md5s
      BY <1>1, KeyTypes DEF UploadInsertInfo
    <2> QED BY <1>1, <2>1 DEF UploadInsertInfo
  <1>2. CASE Upload(t) /\ ~ UploadInsertInfo(t)
    <2>1. CASE UploadFile(t)
      BY <2>1 DEF UploadFile
    <2>2. CASE UploadUrl(t)
      BY <2>2 DEF UploadUrl
    <2>3. CASE UploadLock(t)
      BY <2>3 DEF UploadLock, Acquire
    <2>4. CASE UploadTimeout(t)
      BY <2>4 DEF UploadTimeout
    <2>5. CASE UploadCount(t)
      BY <2>5 DEF UploadCount
    <2>6. CASE UploadInsertUser(t)
      BY <2>6 DEF UploadInsertUser
    <2>7. CASE UploadRemove(t)
      BY <2>7 DEF UploadRemove
    <2> QED BY <1>2, <2>1, <2>2, <2>3, <2>4, <2>5, <2>6, <2>7 DEF Upload
  <1>3. CASE Md5(t)
    BY <1>3 DEF Md5, Md5Check, Md5Lock, Md5Timeout, Md5Count, CheckOwned,
                Acquire, Timeout
  <1>4. CASE Save(t)
    BY <1>4 DEF Save, SaveCheck, SaveLock, SaveTimeout, SaveCount, SaveInsert,
                CheckOwned, Acquire, Timeout
  <1>5. CASE DeleteSelect(t)
    BY <1>5 DEF DeleteSelect
  <1>6. CASE Delete(t) /\ ~ DeleteSelect(t)
    BY <1>6 DEF Delete, DeleteStatus, DeleteZrem, DeleteHdel, DeleteShare,
                DeleteUser, DeleteLock, DeleteTimeout, DeleteCount,
                DeleteRemove, Acquire, Timeout
  <1> QED BY <1>1, <1>2, <1>3, <1>4, <1>5, <1>6 DEF Ownership

\* What a request brings with it when it starts or ends: an entry point, and
\* no data in hand.
LEMMA LifeMoves ==
    ASSUME TypeOK,
           \/ \E t \in Threads : Receive(t) \/ Refuse(t) \/ Reply(t)
           \/ Crash
           \/ UNCHANGED vars
    PROVE  /\ UNCHANGED tableVars
           /\ \A s \in Threads :
                 \/ /\ pc'[s] = pc[s] /\ req'[s] = req[s]
                    /\ fid'[s] = fid[s] /\ exsit'[s] = exsit[s]
                 \/ pc[s] = "reply" /\ pc'[s] = "idle" /\ ~ exsit'[s]
                 \/ /\ pc[s] = "idle" /\ exsit'[s] = exsit[s]
                    /\ pc'[s] \notin LockPCs \cup HoldPCs \cup {"idle"}
                 \/ Crashes /\ pc'[s] = "idle" /\ ~ exsit'[s]
  <1>0. UNCHANGED tableVars
    BY DEF Receive, Refuse, Reply, Crash, vars, tableVars
  <1>1. ASSUME NEW t \in Threads, Receive(t), NEW s \in Threads
        PROVE  \/ /\ pc'[s] = pc[s] /\ req'[s] = req[s]
                  /\ fid'[s] = fid[s] /\ exsit'[s] = exsit[s]
               \/ /\ pc[s] = "idle" /\ exsit'[s] = exsit[s]
                  /\ pc'[s] \notin LockPCs \cup HoldPCs \cup {"idle"}
    <2>1. PICK r \in Request : /\ req' = [req EXCEPT ![t] = r]
                               /\ pc' = [pc EXCEPT ![t] = Entry[r.op]]
      BY <1>1, ConstantsAssumption DEF Receive, Request, Goto
    <2>2. Entry[r.op] \notin LockPCs \cup HoldPCs \cup {"idle"}
      BY DEF Entry, Request, AllCommands, LockPCs, HoldPCs
    <2> QED BY <1>1, <2>1, <2>2 DEF TypeOK, Receive
  <1>2. ASSUME NEW t \in Threads, Refuse(t), NEW s \in Threads
        PROVE  \/ /\ pc'[s] = pc[s] /\ req'[s] = req[s]
                  /\ fid'[s] = fid[s] /\ exsit'[s] = exsit[s]
               \/ /\ pc[s] = "idle" /\ exsit'[s] = exsit[s]
                  /\ pc'[s] \notin LockPCs \cup HoldPCs \cup {"idle"}
    BY <1>2 DEF TypeOK, Refuse, Goto, LockPCs, HoldPCs
  <1>3. ASSUME NEW t \in Threads, Reply(t), NEW s \in Threads
        PROVE  \/ /\ pc'[s] = pc[s] /\ req'[s] = req[s]
                  /\ fid'[s] = fid[s] /\ exsit'[s] = exsit[s]
               \/ pc[s] = "reply" /\ pc'[s] = "idle" /\ ~ exsit'[s]
    BY <1>3 DEF TypeOK, Reply, Goto
  <1>4. CASE Crash
    BY <1>0, <1>4 DEF Crash
  <1>5. CASE UNCHANGED vars
    BY <1>0, <1>5 DEF vars, threadVars
  <1> QED BY <1>0, <1>1, <1>2, <1>3, <1>4, <1>5

\* What a handler remembers of its file is right, whatever the other threads
\* do in between and whatever fails.
THEOREM LocalsSafe == Spec => []LocalsRight
  <1>1. Init => LocalsRight
    BY DEF Init, LocalsRight
  <1>2. TypeOK /\ LockExcludes /\ LocalsRight /\ [Next]_vars => LocalsRight'
    <2> SUFFICES ASSUME TypeOK, LockExcludes, LocalsRight, [Next]_vars
                 PROVE  LocalsRight'
      OBVIOUS
    <2>1. ASSUME NEW t \in Threads, Ownership(t) PROVE LocalsRight'
      <3>1. UNCHANGED req /\ pc \in [Threads -> PCs]
        BY <2>1, OwnershipFrame DEF TypeOK
      <3>2. \A s \in Threads : M(s)' = M(s)
        BY <3>1 DEF M, KeyOf
      <3>3. ASSUME NEW s \in Threads, s # t
            PROVE  /\ pc'[s] = pc[s] /\ fid'[s] = fid[s] /\ exsit'[s] = exsit[s]
                   /\ pc[s] \in LockPCs => file_info' = file_info
        BY <2>1, <3>1, <3>3, OwnershipFrame, OwnershipLocals
        DEF LockExcludes
      <3> QED BY <2>1, <3>2, <3>3, OwnLocals DEF LocalsRight, LockPCs
    <2>2. ASSUME NEW t \in Threads, Sharing(t) PROVE LocalsRight'
      <3>1. PICK where \in SharingPCs \cup {"reply"} :
              pc' = [pc EXCEPT ![t] = where]
        BY <2>2, SharingFrame
      <3>2. /\ pc \in [Threads -> PCs] /\ pc[t] \in SharingPCs
            /\ UNCHANGED <<file_info, req, fid, exsit>>
        BY <2>2, SharingFrame DEF TypeOK
      <3>3. ~ exsit[t]
        BY <3>2 DEF LocalsRight, SharingPCs
      <3>4. \A s \in Threads : \/ s # t /\ pc'[s] = pc[s]
                               \/ s = t /\ pc'[s] \in SharingPCs \cup {"reply"}
        BY <3>1, <3>2
      <3> QED
        BY <3>2, <3>3, <3>4 DEF LocalsRight, M, KeyOf, SharingPCs
    <2>3. CASE \/ \E t \in Threads : Receive(t) \/ Refuse(t) \/ Reply(t)
               \/ Crash
               \/ UNCHANGED vars
      BY <2>3, LifeMoves DEF LocalsRight, M, KeyOf, tableVars, LockPCs, HoldPCs
    <2> QED
      BY <2>1, <2>2, <2>3 DEF Next, Work, Done
  <1> QED
    BY <1>1, <1>2, TypeCorrect, LockSafe, PTL DEF Spec

-----------------------------------------------------------------------------
(* Every id that is in use has one place *)

\* Asked of the environment: what RefCountSafe asks, that the row of a first
\* upload can be inserted, and that the handler is told when its record or its
\* row has been. (ApiUpload removes the data after a failure of either, and
\* leaves the record, and the row, that refer to it.)
FilesEnvironment ==
    /\ Environment
    /\ "insert_user_file" \notin Faults
    /\ {"insert_file_info", "insert_user_file"} \cap LostAnswers = {}

\* Steps that record nothing new, take nothing new in hand and remove nothing.
LEMMA FilesQuiet ==
    ASSUME FilesInv,
           \A f \in FileIds : fdfs[f] = "stored" => fdfs'[f] = "stored",
           \A m \in Md5s : HasInfo(m)' =>
              HasInfo(m) /\ file_info'[m].file_id = file_info[m].file_id,
           \A s \in Threads : HoldsFile(s)' =>
              HoldsFile(s) /\ fid'[s] = fid[s]
    PROVE  FilesInv'
  <1> USE DEF FilesInv
  <1>1. RecordsStored' /\ RecordsApart'
    BY DEF RecordsStored, RecordsApart
  <1>2. HeldStored'
    BY DEF HeldStored
  <1>3. HeldApart'
    BY DEF HeldApart
  <1> QED BY <1>1, <1>2, <1>3

\* A thread removes what it has in hand.
LEMMA FilesRemove ==
    ASSUME TypeOK, FilesInv, NEW t \in Threads, HoldsFile(t),
           UNCHANGED <<file_info, fid, exsit>>,
           fdfs' = [fdfs EXCEPT ![fid[t]] = "deleted"],
           pc' = [pc EXCEPT ![t] = "reply"]
    PROVE  FilesInv'
  <1> USE DEF FilesInv
  <1>1. \A s \in Threads : HoldsFile(s)' => s # t /\ HoldsFile(s)
    BY DEF TypeOK, HoldsFile, HoldPCs
  <1>2. \A f \in FileIds : f # fid[t] => fdfs'[f] = fdfs[f]
    BY DEF TypeOK
  <1>3. \A m \in Md5s : HasInfo(m)' => HasInfo(m)
    BY DEF HasInfo
  <1>4. RecordsStored' /\ RecordsApart'
    BY <1>2, <1>3 DEF RecordsStored, RecordsApart, HeldStored
  <1>5. HeldStored' /\ HeldApart'
    BY <1>1, <1>2, <1>3 DEF HeldStored, HeldApart
  <1> QED BY <1>4, <1>5

\* A step of one thread leaves what the others have in hand.
LEMMA OthersHold ==
    ASSUME TypeOK, NEW t \in Threads, Ownership(t), NEW s \in Threads, s # t
    PROVE  (HoldsFile(s)' <=> HoldsFile(s)) /\ fid'[s] = fid[s]
  <1>1. pc'[s] = pc[s]
    BY OwnershipFrame DEF TypeOK
  <1>2. fid'[s] = fid[s] /\ exsit'[s] = exsit[s]
    BY OwnershipLocals
  <1> QED BY <1>1, <1>2 DEF HoldsFile

\* Whoever has the only counted reference of a file in hand: nobody has a row.
LEMMA LastReference ==
    ASSUME TypeOK, RefCountCovers, NEW t \in Threads, pc[t] \in PendingPCs,
           file_info[M(t)].count = 1
    PROVE  \A k \in user_file_list : Md5Of(k) # M(t)
  <1>1. M(t) \in Md5s
    BY KeyTypes DEF PendingPCs
  <1>2. t \in Pending(M(t))
    BY DEF Pending
  <1>3. Cardinality(Pending(M(t))) # 0
    BY <1>1, <1>2, CountedFinite, FS_EmptySet
  <1>4. Cardinality(Rows(M(t))) = 0
    BY <1>1, <1>3, CountedFinite DEF RefCountCovers
  <1>5. Rows(M(t)) = {}
    BY <1>1, <1>4, CountedFinite, FS_EmptySet
  <1> QED BY <1>5 DEF Rows

\* ApiUpload: data goes from FastDFS into the hands of the thread, and from
\* there into a new record or out of FastDFS.
LEMMA UploadFiles ==
    ASSUME TypeOK, RefCountInv, LocalsRight, FilesInv, FilesEnvironment,
           NEW t \in Threads, Upload(t)
    PROVE  FilesInv'
  <1> USE DEF FilesInv
  <1>0. /\ M(t) \in Md5s /\ Ownership(t)
        /\ fid[t] \in FileIds \cup {NoFile}
        /\ fdfs \in [FileIds -> {"unused", "stored", "deleted"}]
        /\ pc \in [Threads -> PCs] /\ fid \in [Threads -> FileIds \cup {NoFile}]
    BY KeyTypes DEF TypeOK, Ownership, Upload, UploadFile, UploadUrl,
                    UploadLock, UploadTimeout, UploadInsertInfo, UploadCount,
                    UploadInsertUser, UploadRemove, Acquire
  <1>1. CASE UploadFile(t)
    <2>1. PICK f \in FileIds :
            /\ fdfs[f] = "unused"
            /\ \/ /\ fdfs' = [fdfs EXCEPT ![f] = "stored"]
                  /\ fid' = [fid EXCEPT ![t] = f]
                  /\ Goto(t, "up_url")
               \/ /\ \/ fdfs' = [fdfs EXCEPT ![f] = "stored"]
                     \/ UNCHANGED fdfs
                  /\ Goto(t, "reply")
                  /\ UNCHANGED fid
      BY <1>1 DEF UploadFile, Return
    <2>2. /\ \A m \in Md5s : HasInfo(m)' <=> HasInfo(m)
          /\ UNCHANGED file_info
      BY <1>1 DEF UploadFile, HasInfo
    <2>3. \A g \in FileIds : fdfs[g] = "stored" => fdfs'[g] = "stored"
      BY <1>0, <2>1
    <2>4. CASE fid' = [fid EXCEPT ![t] = f] /\ fdfs'[f] = "stored"
      <3>1. fid'[t] = f
        BY <1>0, <2>4
      <3>2. \A m \in Md5s : HasInfo(m) => file_info[m].file_id # f
        BY <2>1 DEF RecordsStored
      <3>3. \A s \in Threads : HoldsFile(s) => fid[s] # f
        BY <2>1 DEF HeldStored
      <3>4. RecordsStored' /\ RecordsApart'
        BY <2>2, <2>3 DEF RecordsStored, RecordsApart
      <3>5. HeldStored'
        BY <1>0, <2>2, <2>3, <2>4, <3>1, <3>2, OthersHold DEF HeldStored
      <3>6. HeldApart'
        BY <1>0, <3>1, <3>3, OthersHold DEF HeldApart
      <3> QED BY <3>4, <3>5, <3>6
    <2>5. CASE Goto(t, "reply") /\ UNCHANGED fid
      <3>1. ~ HoldsFile(t)'
        BY <1>0, <2>5 DEF Goto, HoldsFile, HoldPCs
      <3> QED BY <1>0, <2>2, <2>3, <3>1, OthersHold, FilesQuiet
    <2> QED BY <1>0, <2>1, <2>4, <2>5
  <1>2. CASE \/ UploadUrl(t) \/ UploadLock(t) \/ UploadTimeout(t)
             \/ UploadCount(t)
    <2>1. /\ UNCHANGED <<fdfs, fid>>
          /\ file_info' = file_info \/ file_info' = CountPlusOne(M(t))
          /\ HoldsFile(t)
      BY <1>2 DEF UploadUrl, UploadLock, UploadTimeout, UploadCount, Acquire,
                  tableVars, threadVars, HoldsFile, HoldPCs
    <2>2. \A m \in Md5s : HasInfo(m)' =>
              HasInfo(m) /\ file_info'[m].file_id = file_info[m].file_id
      BY <1>0, <2>1 DEF TypeOK, HasInfo, CountPlusOne, FileInfo
    <2> QED BY <1>0, <2>1, <2>2, OthersHold, FilesQuiet
  <1>3. CASE UploadInsertInfo(t)
    <2>1. UNCHANGED <<fdfs, fid, exsit>> /\ HoldsFile(t) /\ ~ exsit[t]
      BY <1>3 DEF UploadInsertInfo, threadVars, HoldsFile, HoldPCs,
                  LocalsRight
    <2>2. CASE /\ ~ HasInfo(M(t))
               /\ file_info' = [file_info EXCEPT ![M(t)] =
                                  [count |-> 1, file_id |-> fid[t]]]
               /\ Goto(t, "up_insert_user")
      <3>1. /\ file_info'[M(t)].file_id = fid[t]
            /\ \A m \in Md5s : M(t) # m => file_info'[m] = file_info[m]
        BY <1>0, <2>2 DEF TypeOK
      <3>2. \A m \in Md5s : M(t) # m /\ HasInfo(m)' => HasInfo(m)
        BY <3>1 DEF HasInfo
      <3>3. ~ HoldsFile(t)'
        BY <1>0, <2>1, <2>2 DEF Goto, HoldsFile
      <3>4. RecordsStored' /\ RecordsApart'
        BY <2>1, <3>1, <3>2 DEF RecordsStored, RecordsApart, HeldStored
      <3>5. \A s \in Threads : HoldsFile(s)' =>
              s # t /\ HoldsFile(s) /\ fid'[s] = fid[s] /\ fid[s] # fid[t]
        BY <1>0, <2>1, <3>3, OthersHold DEF HeldApart
      <3>6. HeldStored' /\ HeldApart'
        BY <2>1, <3>1, <3>2, <3>5 DEF HeldStored, HeldApart
      <3> QED BY <3>4, <3>6
    <2>3. CASE Goto(t, "up_count") /\ UNCHANGED file_info
      BY <1>0, <2>1, <2>3, OthersHold, FilesQuiet DEF HasInfo
    <2>4. ~ AnswerLost("insert_file_info")
      BY DEF FilesEnvironment, AnswerLost
    <2> QED BY <1>3, <2>2, <2>3, <2>4 DEF UploadInsertInfo
  <1>4. CASE UploadInsertUser(t)
    <2>1. UNCHANGED <<file_info, fdfs, fid, exsit>>
      BY <1>4 DEF UploadInsertUser, threadVars
    <2>2. HoldsFile(t)' => HoldsFile(t)
      <3>1. CASE exsit[t]
        BY <1>4, <3>1 DEF UploadInsertUser, HoldsFile, HoldPCs
      <3>2. CASE ~ exsit[t]
        <4>0. pc[t] = "up_insert_user"
          BY <1>4 DEF UploadInsertUser
        <4>1. file_info[M(t)] = [count |-> 1, file_id |-> fid[t]]
          BY <3>2, <4>0 DEF LocalsRight
        <4>6. KeyOf(t) \notin user_file_list
          BY <4>0, <4>1, LastReference DEF PendingPCs, RefCountInv, M
        <4>7. pc'[t] = "reply"
          BY <1>0, <1>4, <3>2, <4>6
          DEF UploadInsertUser, FilesEnvironment, Fails, AnswerLost, Goto
        <4> QED BY <4>7 DEF HoldsFile, HoldPCs
      <3> QED BY <3>1, <3>2
    <2> QED BY <1>0, <2>1, <2>2, OthersHold, FilesQuiet DEF HasInfo
  <1>5. CASE UploadRemove(t)
    <2>1. /\ UNCHANGED <<file_info, fid, exsit>> /\ HoldsFile(t)
          /\ pc' = [pc EXCEPT ![t] = "reply"]
      BY <1>5 DEF UploadRemove, threadVars, HoldsFile, HoldPCs, Goto
    <2>2. CASE RemoveFileFromFastDfs(fid[t])
      BY <2>1, <2>2, FilesRemove DEF RemoveFileFromFastDfs
    <2>3. CASE UNCHANGED fdfs
      BY <1>0, <2>1, <2>3, OthersHold, FilesQuiet DEF HasInfo
    <2> QED BY <1>5, <2>2, <2>3 DEF UploadRemove
  <1> QED BY <1>1, <1>2, <1>3, <1>4, <1>5 DEF Upload

\* handleDealMd5 and handleSaveFile change counts and nothing else.
LEMMA Md5SaveFiles ==
    ASSUME TypeOK, FilesInv, NEW t \in Threads, Md5(t) \/ Save(t)
    PROVE  FilesInv'
  <1>1. /\ UNCHANGED <<fdfs, fid>>
        /\ file_info' = file_info \/ file_info' = CountPlusOne(M(t))
        /\ pc'[t] \notin HoldPCs
    BY DEF TypeOK, Md5, Md5Check, Md5Lock, Md5Timeout, Md5Count, Save,
           SaveCheck, SaveLock, SaveTimeout, SaveCount, SaveInsert, CheckOwned,
           Acquire, Timeout, Goto, Return, tableVars, threadVars, HoldPCs
  <1>2. \A m \in Md5s : HasInfo(m)' =>
            HasInfo(m) /\ file_info'[m].file_id = file_info[m].file_id
    BY <1>1 DEF TypeOK, HasInfo, CountPlusOne, FileInfo
  <1>3. ~ HoldsFile(t)'
    BY <1>1 DEF HoldsFile
  <1> QED BY <1>1, <1>2, <1>3, OthersHold, FilesQuiet DEF Ownership

\* handleDeleteFile: the data of the last reference goes from its record into
\* the hands of the thread, and from there out of FastDFS.
LEMMA DeleteFiles ==
    ASSUME TypeOK, RefCountInv, LocalsRight, FilesInv,
           NEW t \in Threads, Delete(t)
    PROVE  FilesInv'
  <1> USE DEF FilesInv
  <1>0. Ownership(t) /\ pc \in [Threads -> PCs]
    BY DEF TypeOK, Ownership
  <1>1. CASE \/ DeleteStatus(t) \/ DeleteZrem(t) \/ DeleteHdel(t)
             \/ DeleteShare(t) \/ DeleteUser(t) \/ DeleteLock(t)
             \/ DeleteTimeout(t) \/ DeleteSelect(t)
    <2>1. UNCHANGED <<file_info, fdfs>> /\ pc'[t] \notin HoldPCs
      BY <1>0, <1>1 DEF DeleteStatus, DeleteZrem, DeleteHdel, DeleteShare,
                  DeleteUser, DeleteLock, DeleteTimeout, DeleteSelect,
                  Acquire, Timeout, Goto, Return, tableVars, HoldPCs
    <2> QED BY <1>0, <2>1, OthersHold, FilesQuiet DEF HasInfo, HoldsFile
  <1>2. CASE DeleteCount(t)
    <2>0. M(t) \in Md5s
      BY <1>2, KeyTypes DEF DeleteCount
    <2>1. UNCHANGED <<fdfs, fid, exsit>>
      BY <1>2 DEF DeleteCount, threadVars
    <2>2. /\ cnt[t] = file_info[M(t)].count
          /\ file_info[M(t)].file_id = fid[t]
      BY <1>2 DEF DeleteCount, RefCountInv, LockedReadsHold, LocalsRight
    <2>3. CASE /\ cnt[t] = 1
               /\ file_info' = [file_info EXCEPT ![M(t)] = NoInfo]
               /\ Goto(t, "dl_remove")
      <3>0. file_info[M(t)].count = 1
        BY <2>2, <2>3
      <3>1. HasInfo(M(t))
        BY <3>0 DEF HasInfo, NoInfo
      <3>2. \A m \in Md5s : HasInfo(m)' =>
              M(t) # m /\ HasInfo(m) /\ file_info'[m] = file_info[m]
        BY <2>0, <2>3 DEF HasInfo, TypeOK
      <3>3. RecordsStored' /\ RecordsApart'
        BY <2>1, <3>2 DEF RecordsStored, RecordsApart
      <3>4. \A s \in Threads : HoldsFile(s)' => s = t \/ HoldsFile(s)
        BY <1>0, OthersHold
      <3>5. /\ fid[t] \in FileIds /\ fdfs[fid[t]] = "stored"
            /\ \A m \in Md5s : HasInfo(m)' => file_info'[m].file_id # fid[t]
        BY <2>0, <2>2, <3>1, <3>2 DEF RecordsStored, RecordsApart
      <3>6. \A s \in Threads : HoldsFile(s) => fid[s] # fid[t]
        BY <2>0, <2>2, <3>1 DEF HeldStored
      <3>7. HeldStored' /\ HeldApart'
        BY <2>1, <3>2, <3>4, <3>5, <3>6 DEF HeldStored, HeldApart
      <3> QED BY <3>3, <3>7
    <2>4. CASE pc'[t] = "reply"
      <3>1. \A m \in Md5s : HasInfo(m)' =>
              HasInfo(m) /\ file_info'[m].file_id = file_info[m].file_id
        <4>1. CASE UNCHANGED file_info
          BY <4>1 DEF HasInfo
        <4>2. CASE HasInfo(M(t)) /\ file_info' = [file_info EXCEPT
                                                   ![M(t)].count = @ - 1]
          BY <2>0, <4>2 DEF TypeOK, HasInfo, FileInfo
        <4>3. CASE file_info' = [file_info EXCEPT ![M(t)] = NoInfo]
          BY <2>0, <4>3 DEF TypeOK, HasInfo
        <4> QED
          BY <1>0, <1>2, <2>4, <4>1, <4>2, <4>3 DEF DeleteCount, Goto
      <3>2. ~ HoldsFile(t)'
        BY <2>4 DEF HoldsFile, HoldPCs
      <3> QED BY <1>0, <2>1, <3>1, <3>2, OthersHold, FilesQuiet
    <2> QED BY <1>0, <1>2, <2>3, <2>4 DEF DeleteCount, Return, Goto
  <1>3. CASE DeleteRemove(t)
    <2>1. /\ UNCHANGED <<file_info, fid, exsit>> /\ HoldsFile(t)
          /\ pc' = [pc EXCEPT ![t] = "reply"]
      BY <1>3 DEF DeleteRemove, threadVars, HoldsFile, HoldPCs, Goto, Return
    <2>2. CASE RemoveFileFromFastDfs(fid[t])
      BY <2>1, <2>2, FilesRemove DEF RemoveFileFromFastDfs
    <2>3. CASE UNCHANGED fdfs
      BY <1>0, <2>1, <2>3, OthersHold, FilesQuiet DEF HasInfo
    <2> QED BY <1>3, <2>2, <2>3 DEF DeleteRemove
  <1> QED BY <1>1, <1>2, <1>3 DEF Delete

\* The steps that do not concern the files.
LEMMA OtherFiles ==
    ASSUME TypeOK, FilesInv,
           \/ \E t \in Threads : \/ Sharing(t) \/ Receive(t) \/ Refuse(t)
                                 \/ Reply(t)
           \/ Crash
           \/ UNCHANGED vars
    PROVE  FilesInv'
  <1>1. ASSUME NEW t \in Threads, Sharing(t) PROVE FilesInv'
    <2>1. PICK where \in SharingPCs \cup {"reply"} :
            pc' = [pc EXCEPT ![t] = where]
      BY <1>1, SharingFrame
    <2>2. /\ UNCHANGED <<file_info, fdfs, fid, exsit>>
          /\ pc \in [Threads -> PCs]
      BY <1>1, SharingFrame DEF TypeOK
    <2>3. \A s \in Threads : HoldsFile(s)' => HoldsFile(s)
      BY <2>1, <2>2 DEF HoldsFile, HoldPCs, SharingPCs
    <2> QED BY <2>2, <2>3, FilesQuiet DEF HasInfo
  <1>2. CASE \/ \E t \in Threads : Receive(t) \/ Refuse(t) \/ Reply(t)
             \/ Crash
             \/ UNCHANGED vars
    <2>1. UNCHANGED <<file_info, fdfs>>
      BY <1>2, LifeMoves DEF tableVars
    <2>2. \A s \in Threads : HoldsFile(s)' => HoldsFile(s) /\ fid'[s] = fid[s]
      BY <1>2, LifeMoves DEF HoldsFile, HoldPCs
    <2> QED BY <2>1, <2>2, FilesQuiet DEF HasInfo
  <1> QED BY <1>1, <1>2

\* The files that were there at the start have an id each.
LEMMA InitFiles == Init => FilesInv
  <1> SUFFICES ASSUME Init PROVE FilesInv
    OBVIOUS
  <1>1. PICK id \in [SeedMd5s -> FileIds] :
          /\ \A m, n \in SeedMd5s : id[m] = id[n] => m = n
          /\ file_info = [m \in Md5s |->
                IF m \in SeedMd5s
                THEN [count   |-> Cardinality({k \in SeedRows : Md5Of(k) = m}),
                      file_id |-> id[m]]
                ELSE NoInfo]
          /\ fdfs = [f \in FileIds |->
                IF \E m \in SeedMd5s : id[m] = f THEN "stored" ELSE "unused"]
    BY DEF Init
  <1>2. \A m \in Md5s : HasInfo(m) =>
            m \in SeedMd5s /\ file_info[m].file_id = id[m]
    BY <1>1 DEF HasInfo
  <1>3. RecordsStored /\ RecordsApart
    BY <1>1, <1>2 DEF RecordsStored, RecordsApart
  <1>4. \A t \in Threads : ~ HoldsFile(t)
    BY DEF Init, HoldsFile, HoldPCs
  <1> QED BY <1>3, <1>4 DEF FilesInv, HeldStored, HeldApart

\* Every id in use belongs to one record or is in the hands of one thread,
\* in every behaviour of the server.
THEOREM FilesInductive ==
    ASSUME FilesEnvironment
    PROVE  Spec => []FilesInv
  <1>1. TypeOK /\ RefCountInv /\ LocalsRight /\ FilesInv /\ [Next]_vars
            => FilesInv'
    <2> SUFFICES ASSUME TypeOK, RefCountInv, LocalsRight, FilesInv, [Next]_vars
                 PROVE  FilesInv'
      OBVIOUS
    <2>1. ASSUME NEW t \in Threads, Ownership(t) PROVE FilesInv'
      BY <2>1, UploadFiles, Md5SaveFiles, DeleteFiles DEF Ownership
    <2> QED
      BY <2>1, OtherFiles DEF Next, Work, Done
  <1>2. Environment
    BY DEF FilesEnvironment
  <1> QED
    BY <1>1, <1>2, InitFiles, TypeCorrect, RefCountInductive, LocalsSafe, PTL
    DEF Spec

\* Whoever has a row has a file: a row is covered by a count, the count makes
\* a record, and the record's data is stored.
LEMMA RowsAvailable ==
    ASSUME TypeOK, RefCountCovers, RecordsStored, NEW k \in user_file_list
    PROVE  /\ HasInfo(Md5Of(k))
           /\ fdfs[file_info[Md5Of(k)].file_id] = "stored"
  <1>1. Md5Of(k) \in Md5s
    BY DEF TypeOK, Key, Md5Of
  <1>2. k \in Rows(Md5Of(k))
    BY DEF Rows
  <1>3. Cardinality(Rows(Md5Of(k))) # 0
    BY <1>1, <1>2, CountedFinite, FS_EmptySet
  <1>4. file_info[Md5Of(k)].count >= 1
    BY <1>1, <1>3, CountedFinite DEF RefCountCovers
  <1>5. HasInfo(Md5Of(k))
    BY <1>4 DEF HasInfo, NoInfo
  <1> QED BY <1>1, <1>5 DEF RecordsStored

\* A user who has a row of user_file_list can download the file, although
\* uploads of the same contents race for its record, deletes remove data
\* after they have let go of the lock, and the server may crash in between.
THEOREM OwnedAvailable ==
    ASSUME FilesEnvironment
    PROVE  Spec => []OwnedFilesAvailable
  <1>1. TypeOK /\ RefCountInv /\ FilesInv => OwnedFilesAvailable
    BY RowsAvailable DEF OwnedFilesAvailable, RefCountInv, FilesInv
  <1>2. Environment
    BY DEF FilesEnvironment
  <1> QED
    BY <1>1, <1>2, TypeCorrect, RefCountInductive, FilesInductive, PTL

-----------------------------------------------------------------------------
(* The handlers implement FileStore *)

\* Under FilesInv a file can be downloaded when it has a record.
LEMMA AvailableRecorded ==
    ASSUME RecordsStored
    PROVE  Available = {m \in Md5s : HasInfo(m)}
  BY DEF RecordsStored, Available

\* Every statement of an ownership handler stores a file, gives or takes a row
\* of a stored file, discards a file nobody has, or does neither.
LEMMA OwnershipPromise ==
    ASSUME TypeOK, RefCountInv, LocalsRight, FilesInv, FilesInv',
           NEW t \in Threads, Ownership(t)
    PROVE  Promise!Next \/ UNCHANGED <<user_file_list, Available>>
  <1>0. /\ Available = {m \in Md5s : HasInfo(m)}
        /\ Available' = {m \in Md5s : HasInfo(m)'}
        /\ KeyOf(t) \in Key /\ M(t) \in Md5s
        /\ file_info \in [Md5s -> FileInfo]
    BY AvailableRecorded, KeyTypes, OwnershipFrame
    DEF FilesInv, RecordsStored, Available, OwnershipPCs, TypeOK
  <1>1. CASE UploadInsertInfo(t)
    <2>1. UNCHANGED user_file_list
      BY <1>1 DEF UploadInsertInfo
    <2>2. CASE UNCHANGED file_info
      BY <1>0, <2>1, <2>2 DEF HasInfo
    <2>3. CASE /\ ~ HasInfo(M(t))
               /\ file_info' = [file_info EXCEPT ![M(t)] =
                                  [count |-> 1, file_id |-> fid[t]]]
      <3>1. \A m \in Md5s : HasInfo(m)' <=> HasInfo(m) \/ m = M(t)
        BY <1>0, <2>3 DEF HasInfo, NoInfo
      <3>2. Promise!Store(M(t))
        BY <1>0, <2>1, <2>3, <3>1 DEF Promise!Store
      <3> QED BY <1>0, <3>2 DEF Promise!Next
    <2> QED BY <1>1, <2>2, <2>3 DEF UploadInsertInfo
  <1>2. CASE UploadInsertUser(t) \/ SaveInsert(t)
    <2>1. UNCHANGED file_info /\ pc[t] \in PendingPCs
      BY <1>2 DEF UploadInsertUser, SaveInsert, PendingPCs
    <2>2. Available' = Available /\ M(t) \in Available
      BY <1>0, <2>1, PendingHasCount DEF HasInfo, RefCountInv
    <2>3. \/ UNCHANGED user_file_list
          \/ user_file_list' = user_file_list \cup {KeyOf(t)}
      BY <1>2 DEF UploadInsertUser, SaveInsert, InsertUserRow
    <2>4. ASSUME user_file_list' = user_file_list \cup {KeyOf(t)}
          PROVE  Promise!Own(KeyOf(t))
      BY <2>2, <2>4 DEF Promise!Own, M
    <2> QED BY <1>0, <2>2, <2>3, <2>4 DEF Promise!Next
  <1>3. CASE DeleteUser(t)
    <2>1. Available' = Available
      BY <1>0, <1>3 DEF DeleteUser, HasInfo
    <2>2. \/ UNCHANGED user_file_list
          \/ user_file_list' = user_file_list \ {KeyOf(t)}
      BY <1>3 DEF DeleteUser, DropUserRow
    <2>3. ASSUME user_file_list' = user_file_list \ {KeyOf(t)}
          PROVE  Promise!Disown(KeyOf(t))
      BY <2>1, <2>3 DEF Promise!Disown
    <2> QED BY <1>0, <2>1, <2>2, <2>3 DEF Promise!Next
  <1>4. CASE DeleteCount(t)
    <2>1. UNCHANGED user_file_list /\ pc[t] = "dl_count"
      BY <1>4 DEF DeleteCount
    <2>2. /\ cnt[t] = file_info[M(t)].count
          /\ HasInfo(M(t)) /\ file_info[M(t)].file_id \in FileIds
      BY <1>0, <2>1, PendingHasCount
      DEF RefCountInv, LockedReadsHold, PendingPCs, FilesInv, RecordsStored
    <2>3. CASE cnt[t] = 1 /\ file_info' = [file_info EXCEPT ![M(t)] = NoInfo]
      <3>1. \A m \in Md5s : HasInfo(m)' <=> HasInfo(m) /\ m # M(t)
        BY <1>0, <2>3 DEF HasInfo
      <3>2. Promise!Discard(M(t))
        BY <1>0, <2>1, <2>2, <2>3, <3>1, LastReference
        DEF Promise!Discard, RefCountInv, PendingPCs
      <3> QED BY <1>0, <3>2 DEF Promise!Next
    <2>4. CASE UNCHANGED file_info
      BY <1>0, <2>1, <2>4 DEF HasInfo
    <2>5. CASE file_info' = [file_info EXCEPT ![M(t)].count = @ - 1]
      <3>1. \A m \in Md5s : HasInfo(m)' <=> HasInfo(m)
        BY <1>0, <2>2, <2>5, ConstantsAssumption DEF HasInfo, NoInfo, FileInfo
      <3> QED BY <1>0, <2>1, <3>1
    <2> QED BY <1>4, <2>3, <2>4, <2>5 DEF DeleteCount
  <1>5. CASE /\ ~ UploadInsertInfo(t) /\ ~ UploadInsertUser(t)
             /\ ~ SaveInsert(t) /\ ~ DeleteUser(t) /\ ~ DeleteCount(t)
    <2>1. /\ UNCHANGED user_file_list
          /\ file_info' = file_info \/ file_info' = CountPlusOne(M(t))
      <3> USE <1>5 DEF tableVars
      <3>1. CASE Upload(t)
        BY <3>1 DEF Upload, UploadFile, UploadUrl, UploadLock, UploadTimeout,
                    UploadCount, UploadRemove, Acquire
      <3>2. CASE Md5(t)
        BY <3>2 DEF Md5, Md5Check, Md5Lock, Md5Timeout, Md5Count, CheckOwned,
                    Acquire, Timeout
      <3>3. CASE Save(t)
        BY <3>3 DEF Save, SaveCheck, SaveLock, SaveTimeout, SaveCount,
                    CheckOwned, Acquire, Timeout
      <3>4. CASE Delete(t)
        BY <3>4 DEF Delete, DeleteStatus, DeleteZrem, DeleteHdel, DeleteShare,
                    DeleteLock, DeleteTimeout, DeleteSelect, DeleteRemove,
                    Acquire, Timeout
      <3> QED BY <3>1, <3>2, <3>3, <3>4 DEF Ownership
    <2>2. HasInfo(M(t)) => file_info[M(t)].file_id \in FileIds
      BY <1>0 DEF FilesInv, RecordsStored
    <2>3. \A m \in Md5s : HasInfo(m)' <=> HasInfo(m)
      BY <1>0, <2>1, <2>2, ConstantsAssumption
      DEF HasInfo, NoInfo, CountPlusOne, FileInfo
    <2> QED BY <1>0, <2>1, <2>3
  <1> QED BY <1>1, <1>2, <1>3, <1>4, <1>5

\* The handlers keep the promise of FileStore: with any number of threads
\* between the statements of their requests, failing and crashing, a file is
\* stored once, given only to who can then download it, and discarded only
\* when nobody has it.
THEOREM PromiseKept ==
    ASSUME FilesEnvironment
    PROVE  Spec => KeepsPromise
  <1>1. Init => Promise!Init
    <2> SUFFICES ASSUME Init PROVE Promise!Init
      OBVIOUS
    <2>1. PICK id \in [SeedMd5s -> FileIds] :
            file_info = [m \in Md5s |->
                IF m \in SeedMd5s
                THEN [count   |-> Cardinality({k \in SeedRows : Md5Of(k) = m}),
                      file_id |-> id[m]]
                ELSE NoInfo]
      BY DEF Init
    <2>2. \A m \in Md5s : HasInfo(m) <=> m \in SeedMd5s
      BY <2>1, ConstantsAssumption DEF HasInfo, NoInfo
    <2>3. \A k \in SeedRows : Md5Of(k) \in Md5s
      BY ConstantsAssumption DEF Key, Md5Of
    <2>4. Available = SeedMd5s
      BY <2>2, <2>3, InitFiles, AvailableRecorded DEF FilesInv, SeedMd5s
    <2> QED BY <2>4 DEF Init, Promise!Init, SeedMd5s
  <1>2. TypeOK /\ RefCountInv /\ LocalsRight /\ FilesInv /\ FilesInv'
                /\ [Next]_vars
            => [Promise!Next]_<<user_file_list, Available>>
    <2> SUFFICES ASSUME TypeOK, RefCountInv, LocalsRight, FilesInv, FilesInv',
                        [Next]_vars
                 PROVE  \/ Promise!Next
                        \/ UNCHANGED <<user_file_list, Available>>
      OBVIOUS
    <2>1. ASSUME NEW t \in Threads, Ownership(t)
          PROVE  Promise!Next \/ UNCHANGED <<user_file_list, Available>>
      BY <2>1, OwnershipPromise
    <2>2. ASSUME NEW t \in Threads, Sharing(t)
          PROVE  UNCHANGED <<user_file_list, Available>>
      BY <2>2, SharingFrame DEF Available, HasInfo
    <2>3. CASE \/ \E t \in Threads : Receive(t) \/ Refuse(t) \/ Reply(t)
               \/ Crash
               \/ UNCHANGED vars
      BY <2>3, LifeMoves DEF tableVars, Available, HasInfo
    <2> QED
      BY <2>1, <2>2, <2>3 DEF Next, Work, Done
  <1>3. Environment
    BY DEF FilesEnvironment
  <1> QED
    BY <1>1, <1>2, <1>3, TypeCorrect, RefCountInductive, LocalsSafe,
       FilesInductive, PTL
    DEF Spec, KeepsPromise, Promise!Spec

-----------------------------------------------------------------------------
(* No data is orphaned *)

\* Asked of the environment: the process does not die with data in hand, the
\* FastDFS tools do what they are asked to and no thread takes the child of
\* another, and handleDeleteFile is told when its record has been deleted.
\* (MySQL may fail otherwise, with and without effect, and requests may race
\* and time out: the handlers clean up after that.)
OrphansEnvironment ==
    /\ ~ Crashes
    /\ {"fdfs_upload", "get_full_url", "fdfs_delete", "fdfs_wait"}
            \cap Faults = {}
    /\ "drop_file_info" \notin LostAnswers

\* Steps that store nothing, drop no id from a record and let go of none.
LEMMA KnownQuiet ==
    ASSUME StoredKnown,
           \A f \in FileIds : fdfs'[f] = "stored" => fdfs[f] = "stored",
           \A m \in Md5s : file_info[m].file_id \in FileIds =>
              file_info'[m].file_id = file_info[m].file_id,
           \A s \in Threads : pc[s] \in HoldPCs =>
              pc'[s] \in HoldPCs /\ fid'[s] = fid[s]
    PROVE  StoredKnown'
  BY DEF StoredKnown

\* ApiUpload records what it has stored, or removes it.
LEMMA UploadKnown ==
    ASSUME TypeOK, LocalsRight, StoredKnown, OrphansEnvironment,
           NEW t \in Threads, Upload(t)
    PROVE  StoredKnown'
  <1>0. /\ M(t) \in Md5s
        /\ fdfs \in [FileIds -> {"unused", "stored", "deleted"}]
        /\ pc \in [Threads -> PCs] /\ fid \in [Threads -> FileIds \cup {NoFile}]
        /\ file_info \in [Md5s -> FileInfo]
    BY KeyTypes DEF TypeOK, Upload, UploadFile, UploadUrl, UploadLock,
                    UploadTimeout, UploadInsertInfo, UploadCount,
                    UploadInsertUser, UploadRemove, Acquire
  <1>1. CASE UploadFile(t)
    <2>1. PICK f \in FileIds : /\ fdfs' = [fdfs EXCEPT ![f] = "stored"]
                              /\ fid' = [fid EXCEPT ![t] = f]
                              /\ pc' = [pc EXCEPT ![t] = "up_url"]
      BY <1>1 DEF UploadFile, OrphansEnvironment, Fails, Robbed, Goto
    <2>2. UNCHANGED file_info /\ pc[t] \notin HoldPCs
      BY <1>1 DEF UploadFile, HoldPCs
    <2>3. fid'[t] = f /\ pc'[t] \in HoldPCs
      BY <1>0, <2>1 DEF HoldPCs
    <2>4. ASSUME NEW g \in FileIds, fdfs'[g] = "stored", g # f
          PROVE  \/ \E m \in Md5s : file_info'[m].file_id = g
                 \/ \E s \in Threads : fid'[s] = g /\ pc'[s] \in HoldPCs
      <3>1. fdfs[g] = "stored"
        BY <1>0, <2>1, <2>4
      <3> QED BY <1>0, <2>1, <2>2, <3>1 DEF StoredKnown
    <2> QED BY <2>3, <2>4 DEF StoredKnown
  <1>2. CASE \/ UploadUrl(t) \/ UploadLock(t) \/ UploadTimeout(t)
             \/ UploadInsertInfo(t) \/ UploadCount(t)
    <2>1. UNCHANGED <<fdfs, fid>> /\ pc'[t] \in HoldPCs
      BY <1>0, <1>2 DEF UploadUrl, UploadLock, UploadTimeout,
                  UploadInsertInfo, UploadCount, Acquire, Goto, tableVars,
                  threadVars, HoldPCs, OrphansEnvironment, Fails
    <2>2. \A s \in Threads : s # t => pc'[s] = pc[s]
      BY <1>0, <1>2 DEF UploadUrl, UploadLock, UploadTimeout,
                  UploadInsertInfo, UploadCount, Acquire, Goto,
                  OrphansEnvironment, Fails
    <2>3. \/ UNCHANGED file_info
          \/ file_info' = CountPlusOne(M(t))
          \/ /\ ~ HasInfo(M(t))
             /\ file_info' = [file_info EXCEPT ![M(t)] =
                                [count |-> 1, file_id |-> fid[t]]]
      BY <1>2 DEF UploadUrl, UploadLock, UploadTimeout, UploadInsertInfo,
                  UploadCount, Acquire, tableVars
    <2>4. \A m \in Md5s : file_info[m].file_id \in FileIds =>
              file_info'[m].file_id = file_info[m].file_id
      BY <1>0, <2>3, ConstantsAssumption
      DEF HasInfo, NoInfo, CountPlusOne, FileInfo
    <2> QED BY <2>1, <2>2, <2>4, KnownQuiet
  <1>3. CASE UploadInsertUser(t)
    <2>1. UNCHANGED <<file_info, fdfs, fid>> /\ pc[t] = "up_insert_user"
      BY <1>3 DEF UploadInsertUser, threadVars
    <2>2. \A s \in Threads : s # t => pc'[s] = pc[s]
      BY <1>0, <1>3 DEF UploadInsertUser, Goto
    <2>3. CASE exsit[t]
      <3>1. pc'[t] = "up_remove"
        BY <1>0, <1>3, <2>3 DEF UploadInsertUser, Goto
      <3> QED BY <2>1, <2>2, <3>1, KnownQuiet DEF HoldPCs
    <2>4. CASE ~ exsit[t]
      <3>1. file_info[M(t)] = [count |-> 1, file_id |-> fid[t]]
        BY <2>1, <2>4 DEF LocalsRight
      <3>2. file_info'[M(t)].file_id = fid[t]
        BY <2>1, <3>1
      <3> QED BY <1>0, <2>1, <2>2, <3>2 DEF StoredKnown
    <2> QED BY <2>3, <2>4
  <1>4. CASE UploadRemove(t)
    <2>1. /\ UNCHANGED <<file_info, fid>>
          /\ fdfs' = [fdfs EXCEPT ![fid[t]] = "deleted"]
          /\ pc' = [pc EXCEPT ![t] = "reply"]
      BY <1>4 DEF UploadRemove, threadVars, Goto, OrphansEnvironment, Fails,
                  RemoveFileFromFastDfs
    <2> QED BY <1>0, <2>1 DEF StoredKnown
  <1> QED BY <1>1, <1>2, <1>3, <1>4 DEF Upload

\* handleDealMd5 and handleSaveFile neither store nor remove.
LEMMA Md5SaveKnown ==
    ASSUME TypeOK, StoredKnown, NEW t \in Threads, Md5(t) \/ Save(t)
    PROVE  StoredKnown'
  <1>1. /\ UNCHANGED <<fdfs, fid>>
        /\ file_info' = file_info \/ file_info' = CountPlusOne(M(t))
        /\ pc[t] \notin HoldPCs
    BY DEF Md5, Md5Check, Md5Lock, Md5Timeout, Md5Count, Save,
           SaveCheck, SaveLock, SaveTimeout, SaveCount, SaveInsert, CheckOwned,
           Acquire, Timeout, tableVars, threadVars, HoldPCs
  <1>2. \A m \in Md5s : file_info[m].file_id \in FileIds =>
            file_info'[m].file_id = file_info[m].file_id
    BY <1>1 DEF TypeOK, CountPlusOne, FileInfo
  <1>3. \A s \in Threads : s # t => pc'[s] = pc[s]
    BY OwnershipFrame DEF TypeOK, Ownership
  <1> QED BY <1>1, <1>2, <1>3, KnownQuiet

\* handleDeleteFile knows the id of the record it deletes.
LEMMA DeleteKnown ==
    ASSUME TypeOK, LocalsRight, StoredKnown, OrphansEnvironment,
           NEW t \in Threads, Delete(t)
    PROVE  StoredKnown'
  <1>0. /\ pc \in [Threads -> PCs] /\ file_info \in [Md5s -> FileInfo]
        /\ fdfs \in [FileIds -> {"unused", "stored", "deleted"}]
        /\ Ownership(t)
    BY DEF TypeOK, Ownership
  <1>1. \A s \in Threads : s # t => pc'[s] = pc[s] /\ fid'[s] = fid[s]
    BY <1>0, OwnershipFrame, OwnershipLocals DEF TypeOK
  <1>2. CASE \/ DeleteStatus(t) \/ DeleteZrem(t) \/ DeleteHdel(t)
             \/ DeleteShare(t) \/ DeleteUser(t) \/ DeleteLock(t)
             \/ DeleteTimeout(t) \/ DeleteSelect(t)
    <2>1. UNCHANGED <<file_info, fdfs>> /\ pc[t] \notin HoldPCs
      BY <1>2 DEF DeleteStatus, DeleteZrem, DeleteHdel, DeleteShare,
                  DeleteUser, DeleteLock, DeleteTimeout, DeleteSelect,
                  Acquire, Timeout, tableVars, HoldPCs
    <2> QED BY <1>1, <2>1, KnownQuiet
  <1>3. CASE DeleteCount(t)
    <2>0. M(t) \in Md5s
      BY <1>3, KeyTypes DEF DeleteCount
    <2>1. /\ UNCHANGED <<fdfs, fid>> /\ pc[t] \notin HoldPCs
          /\ file_info[M(t)].file_id = fid[t]
      BY <1>3 DEF DeleteCount, threadVars, HoldPCs, LocalsRight
    <2>2. CASE file_info' = [file_info EXCEPT ![M(t)] = NoInfo]
               /\ Goto(t, "dl_remove")
      <3>1. pc'[t] \in HoldPCs
        BY <1>0, <2>2 DEF Goto, HoldPCs
      <3>2. \A m \in Md5s : m # M(t) => file_info'[m] = file_info[m]
        BY <1>0, <2>2
      <3> QED BY <1>1, <2>1, <3>1, <3>2 DEF StoredKnown
    <2>3. CASE UNCHANGED file_info
      BY <1>1, <2>1, <2>3, KnownQuiet
    <2>4. CASE file_info' = [file_info EXCEPT ![M(t)].count = @ - 1]
      <3>1. \A m \in Md5s : file_info'[m].file_id = file_info[m].file_id
        BY <1>0, <2>0, <2>4 DEF FileInfo
      <3> QED BY <1>1, <2>1, <3>1, KnownQuiet
    <2> QED
      BY <1>3, <2>2, <2>3, <2>4 DEF DeleteCount, OrphansEnvironment, AnswerLost
  <1>4. CASE DeleteRemove(t)
    <2>1. /\ UNCHANGED <<file_info, fid>>
          /\ fdfs' = [fdfs EXCEPT ![fid[t]] = "deleted"]
      BY <1>4 DEF DeleteRemove, threadVars, OrphansEnvironment, Fails,
                  RemoveFileFromFastDfs
    <2> QED BY <1>0, <1>1, <2>1 DEF StoredKnown
  <1> QED BY <1>2, <1>3, <1>4 DEF Delete

\* No data stays in FastDFS that nobody could ever delete: on every path out
\* of the handlers, the timeouts and the failing statements included, what
\* was uploaded is recorded or removed.
THEOREM OrphanFree ==
    ASSUME OrphansEnvironment
    PROVE  Spec => []NoOrphans
  <1>1. Init => StoredKnown
    <2> SUFFICES ASSUME Init PROVE StoredKnown
      OBVIOUS
    <2>1. PICK id \in [SeedMd5s -> FileIds] :
            /\ file_info = [m \in Md5s |->
                  IF m \in SeedMd5s
                  THEN [count   |->
                           Cardinality({k \in SeedRows : Md5Of(k) = m}),
                        file_id |-> id[m]]
                  ELSE NoInfo]
            /\ fdfs = [f \in FileIds |->
                  IF \E m \in SeedMd5s : id[m] = f THEN "stored" ELSE "unused"]
      BY DEF Init
    <2>2. SeedMd5s \subseteq Md5s
      BY ConstantsAssumption DEF Key, Md5Of, SeedMd5s
    <2> QED BY <2>1, <2>2 DEF StoredKnown
  <1>2. TypeOK /\ LocalsRight /\ StoredKnown /\ [Next]_vars => StoredKnown'
    <2> SUFFICES ASSUME TypeOK, LocalsRight, StoredKnown, [Next]_vars
                 PROVE  StoredKnown'
      OBVIOUS
    <2>1. ASSUME NEW t \in Threads, Ownership(t) PROVE StoredKnown'
      BY <2>1, UploadKnown, Md5SaveKnown, DeleteKnown DEF Ownership
    <2>2. ASSUME NEW t \in Threads, Sharing(t) PROVE StoredKnown'
      <3>1. PICK where \in SharingPCs \cup {"reply"} :
              pc' = [pc EXCEPT ![t] = where]
        BY <2>2, SharingFrame
      <3>2. /\ UNCHANGED <<file_info, fdfs, fid>> /\ pc \in [Threads -> PCs]
            /\ pc[t] \notin HoldPCs
        BY <2>2, SharingFrame DEF TypeOK, SharingPCs, HoldPCs
      <3> QED BY <3>1, <3>2, KnownQuiet
    <2>3. CASE \/ \E t \in Threads : Receive(t) \/ Refuse(t) \/ Reply(t)
               \/ Crash
               \/ UNCHANGED vars
      <3>1. UNCHANGED <<file_info, fdfs>>
        BY <2>3, LifeMoves DEF tableVars
      <3>2. \A s \in Threads : pc[s] \in HoldPCs =>
              pc'[s] \in HoldPCs /\ fid'[s] = fid[s]
        BY <2>3, LifeMoves DEF HoldPCs, OrphansEnvironment
      <3> QED BY <3>1, <3>2, KnownQuiet
    <2> QED
      BY <2>1, <2>2, <2>3 DEF Next, Work, Done
  <1>3. StoredKnown => NoOrphans
    BY DEF StoredKnown, NoOrphans, HoldPCs
  <1> QED
    BY <1>1, <1>2, <1>3, TypeCorrect, LocalsSafe, PTL DEF Spec
=============================================================================
