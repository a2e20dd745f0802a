-------------------------- MODULE UserPages_proofs --------------------------
(***************************************************************************)
(* Registration, tokens and shared pictures are right for any number of    *)
(* workers, names and requests, whichever statements fail and however      *)
(* often the process is started again.                                     *)
(***************************************************************************)
EXTENDS UserPages, FiniteSetTheorems, SequenceTheorems, TLAPS

-----------------------------------------------------------------------------
(* What a worker does to its request *)

\* The other workers' requests stay.
OthersStay(w) == \A v \in Workers : v # w => req'[v] = req[v]

\* Continue goes to another step of the same request.
LEMMA ContinueEffect ==
    ASSUME RequestsRight, NEW w \in Workers, NEW step,
           req[w] # Idle, Continue(w, step)
    PROVE  /\ req' = [v \in Workers |-> req'[v]] /\ OthersStay(w)
           /\ req'[w] = [op |-> req[w].op, at |-> step,
                         in |-> req[w].in, seen |-> req[w].seen]
  <1>1. /\ req = [v \in Workers |-> req[v]]
        /\ req[w] = [op |-> req[w].op, at |-> req[w].at,
                     in |-> req[w].in, seen |-> req[w].seen]
    BY DEF RequestsRight
  <1>2. req' = [req EXCEPT ![w] = [req[w] EXCEPT !.at = step]]
    BY DEF Continue
  <1>3. req'[w] = [req[w] EXCEPT !.at = step]
    BY <1>1, <1>2
  <1>4. req' = [v \in Workers |-> req'[v]] /\ OthersStay(w)
    BY <1>1, <1>2 DEF OthersStay
  <1> QED BY <1>1, <1>3, <1>4

\* Goto takes something with it.
LEMMA GotoEffect ==
    ASSUME RequestsRight, NEW w \in Workers, NEW step, NEW seen,
           req[w] # Idle, Goto(w, step, seen)
    PROVE  /\ req' = [v \in Workers |-> req'[v]] /\ OthersStay(w)
           /\ req'[w] = [op |-> req[w].op, at |-> step,
                         in |-> req[w].in, seen |-> seen]
  <1>1. /\ req = [v \in Workers |-> req[v]]
        /\ req[w] = [op |-> req[w].op, at |-> req[w].at,
                     in |-> req[w].in, seen |-> req[w].seen]
    BY DEF RequestsRight
  <1> DEFINE r == [req EXCEPT ![w] = [req[w] EXCEPT !.at = step]]
  <1>2. req' = [r EXCEPT ![w] = [r[w] EXCEPT !.seen = seen]]
    BY DEF Goto
  <1>3. /\ r = [v \in Workers |-> r[v]]
        /\ r[w] = [req[w] EXCEPT !.at = step]
        /\ \A v \in Workers : v # w => r[v] = req[v]
    BY <1>1
  <1>4. r[w] = [op |-> req[w].op, at |-> step,
                in |-> req[w].in, seen |-> req[w].seen]
    BY <1>1, <1>3
  <1> HIDE DEF r
  <1>5. req'[w] = [r[w] EXCEPT !.seen = seen]
    BY <1>2, <1>3
  <1>6. req' = [v \in Workers |-> req'[v]] /\ OthersStay(w)
    BY <1>2, <1>3 DEF OthersStay
  <1> QED BY <1>4, <1>5, <1>6

\* Either of them.
LEMMA GoEffect ==
    ASSUME RequestsRight, NEW w \in Workers, NEW step, req[w] # Idle,
           Continue(w, step) \/ \E seen : Goto(w, step, seen)
    PROVE  /\ OthersStay(w)
           /\ req'[w].op = req[w].op /\ req'[w].at = step
           /\ req'[w].in = req[w].in
  <1>1. CASE Continue(w, step)
    <2>1. /\ OthersStay(w)
          /\ req'[w] = [op |-> req[w].op, at |-> step,
                        in |-> req[w].in, seen |-> req[w].seen]
      BY <1>1, ContinueEffect
    <2> QED BY <2>1
  <1>2. CASE \E seen : Goto(w, step, seen)
    <2>1. PICK seen : Goto(w, step, seen)
      BY <1>2
    <2>2. /\ OthersStay(w)
          /\ req'[w] = [op |-> req[w].op, at |-> step,
                        in |-> req[w].in, seen |-> seen]
      BY <2>1, GotoEffect
    <2> QED BY <2>2
  <1> QED BY <1>1, <1>2

\* Answer ends the request.
LEMMA AnswerEffect ==
    ASSUME RequestsRight, NEW w \in Workers, NEW code, NEW more,
           Answer(w, code, more)
    PROVE  /\ req' = [v \in Workers |-> req'[v]] /\ OthersStay(w)
           /\ req'[w] = Idle
  <1>1. req = [v \in Workers |-> req[v]]
    BY DEF RequestsRight
  <1>2. req' = [req EXCEPT ![w] = Idle]
    BY DEF Answer
  <1> QED BY <1>1, <1>2 DEF OthersStay

\* Begin starts one.
LEMMA BeginEffect ==
    ASSUME RequestsRight, NEW w \in Workers, NEW op, NEW Json, NEW step,
           Begin(w, op, Json, step)
    PROVE  \/ /\ req' = [v \in Workers |-> req'[v]] /\ OthersStay(w)
              /\ \E in \in Json : req'[w] = [op |-> op, at |-> step,
                                             in |-> in, seen |-> <<>>]
              /\ UNCHANGED history
           \/ /\ req' = req /\ last'.code = 1
              /\ UNCHANGED <<issued, registered, views>>
  <1>1. req = [v \in Workers |-> req[v]]
    BY DEF RequestsRight
  <1>2. CASE /\ \E in \in Json : req' = [req EXCEPT ![w] =
                     [op |-> op, at |-> step, in |-> in, seen |-> <<>>]]
             /\ UNCHANGED history
    <2>1. PICK in \in Json : req' = [req EXCEPT ![w] =
                     [op |-> op, at |-> step, in |-> in, seen |-> <<>>]]
      BY <1>2
    <2>2. /\ req' = [v \in Workers |-> req'[v]] /\ OthersStay(w)
          /\ req'[w] = [op |-> op, at |-> step, in |-> in, seen |-> <<>>]
      BY <1>1, <2>1 DEF OthersStay
    <2> QED BY <1>2, <2>2
  <1>3. CASE /\ last' = [op |-> op, in |-> 0, code |-> 1, more |-> 0]
             /\ UNCHANGED <<req, issued, registered, views>>
    BY <1>3
  <1> QED BY <1>2, <1>3 DEF Begin

\* A failed statement is counted; there are never too many.
LEMMA FaultsEffect ==
    ASSUME CountersRight, Works \/ \E step \in Faults : Fails(step)
    PROVE  faults' \in 0..MaxFaults /\ faults' >= faults
  BY UserPagesAssumption DEF CountersRight, Works, Fails

-----------------------------------------------------------------------------
(* Requests and counters *)

\* A worker's request is over or at a step of its operation.
LEMMA RequestStep ==
    ASSUME RequestsRight, NEW w \in Workers,
           req' = [v \in Workers |-> req'[v]], OthersStay(w),
           \/ req'[w] = Idle
           \/ /\ req'[w] = [op |-> req'[w].op, at |-> req'[w].at,
                            in |-> req'[w].in, seen |-> req'[w].seen]
              /\ StepOf(req'[w])
    PROVE  RequestsRight'
  <1>1. ASSUME NEW v \in Workers, req'[v] # Idle
        PROVE  /\ req'[v] = [op |-> req'[v].op, at |-> req'[v].at,
                             in |-> req'[v].in, seen |-> req'[v].seen]
               /\ StepOf(req'[v])
    <2>1. CASE v = w
      BY <1>1, <2>1
    <2>2. CASE v # w
      BY <1>1, <2>2 DEF RequestsRight, OthersStay
    <2> QED BY <2>1, <2>2
  <1>2. \A v \in Workers : StepOf(req'[v]) => StepOf(req[v])'
    BY DEF StepOf, RegisterJson, LoginJson
  <1> QED BY <1>1, <1>2 DEF RequestsRight

LEMMA ContinueStep ==
    ASSUME RequestsRight, NEW w \in Workers, NEW step, NEW seen,
           req[w] # Idle, Continue(w, step) \/ Goto(w, step, seen),
           StepOf([op |-> req[w].op, at |-> step, in |-> req[w].in])
    PROVE  RequestsRight'
  <1>1. /\ req' = [v \in Workers |-> req'[v]] /\ OthersStay(w)
        /\ \/ req'[w] = [op |-> req[w].op, at |-> step,
                         in |-> req[w].in, seen |-> req[w].seen]
           \/ req'[w] = [op |-> req[w].op, at |-> step,
                         in |-> req[w].in, seen |-> seen]
    BY ContinueEffect, GotoEffect
  <1>2. StepOf(req'[w])
    <2>1. /\ req'[w].op = req[w].op /\ req'[w].at = step
          /\ req'[w].in = req[w].in
      BY <1>1
    <2> QED BY <2>1 DEF StepOf
  <1>3. req'[w] = [op |-> req'[w].op, at |-> req'[w].at,
                   in |-> req'[w].in, seen |-> req'[w].seen]
    BY <1>1
  <1> QED BY <1>1, <1>2, <1>3, RequestStep

LEMMA AnswerStep ==
    ASSUME RequestsRight, NEW w \in Workers, NEW code, NEW more,
           Answer(w, code, more)
    PROVE  RequestsRight'
  BY AnswerEffect, RequestStep

LEMMA BeginStep ==
    ASSUME RequestsRight, NEW w \in Workers, NEW op, NEW Json, NEW step,
           Begin(w, op, Json, step),
           \A in \in Json : StepOf([op |-> op, at |-> step,
                                    in |-> in, seen |-> <<>>])
    PROVE  RequestsRight'
  <1>1. CASE UNCHANGED req
    <2>1. \A v \in Workers : StepOf(req'[v]) => StepOf(req[v])'
      BY DEF StepOf, RegisterJson, LoginJson
    <2> QED BY <1>1, <2>1 DEF RequestsRight
  <1>2. CASE /\ req' = [v \in Workers |-> req'[v]] /\ OthersStay(w)
             /\ \E in \in Json : req'[w] = [op |-> op, at |-> step,
                                            in |-> in, seen |-> <<>>]
    <2>1. PICK in \in Json : req'[w] = [op |-> op, at |-> step,
                                        in |-> in, seen |-> <<>>]
      BY <1>2
    <2>2. StepOf(req'[w])
      BY <2>1
    <2>3. req'[w] = [op |-> req'[w].op, at |-> req'[w].at,
                     in |-> req'[w].in, seen |-> req'[w].seen]
      BY <2>1
    <2> QED BY <1>2, <2>2, <2>3, RequestStep
  <1> QED BY <1>1, <1>2, BeginEffect

\* Every step of a worker leaves it with nothing or at a step of its request.
LEMMA RequestsStep == RequestsRight /\ [Next]_userVars => RequestsRight'
  <1> SUFFICES ASSUME RequestsRight, [Next]_userVars PROVE RequestsRight'
    OBVIOUS
  <1> DEFINE To(w, step) == [op |-> req[w].op, at |-> step, in |-> req[w].in]
  <1>1. ASSUME NEW w \in Workers, Api(w) PROVE RequestsRight'
    <2>1. CASE Begin(w, "register", RegisterJson, "select")
      <3>1. \A in \in RegisterJson : StepOf([op |-> "register", at |-> "select",
                                       in |-> in, seen |-> <<>>])
        BY DEF StepOf
      <3> QED BY <2>1, <3>1, BeginStep
    <2>2. CASE Begin(w, "login", LoginJson, "password")
      <3>1. \A in \in LoginJson : StepOf([op |-> "login", at |-> "password",
                                       in |-> in, seen |-> <<>>])
        BY DEF StepOf
      <3> QED BY <2>2, <3>1, BeginStep
    <2>3. CASE Begin(w, "mycount", CountJson, "get")
      <3>1. \A in \in CountJson : StepOf([op |-> "mycount", at |-> "get",
                                       in |-> in, seen |-> <<>>])
        BY DEF StepOf
      <3> QED BY <2>3, <3>1, BeginStep
    <2>4. CASE Begin(w, "myfiles", FileslistJson, "get")
      <3>1. \A in \in FileslistJson : StepOf([op |-> "myfiles", at |-> "get",
                                       in |-> in, seen |-> <<>>])
        BY DEF StepOf
      <3> QED BY <2>4, <3>1, BeginStep
    <2>5. CASE Begin(w, "sharecount", ShareFileslistJson, "sharefiles count")
      <3>1. \A in \in ShareFileslistJson : StepOf([op |-> "sharecount", at |-> "sharefiles count",
                                       in |-> in, seen |-> <<>>])
        BY DEF StepOf
      <3> QED BY <2>5, <3>1, BeginStep
    <2>6. CASE Begin(w, "sharefiles", ShareFileslistJson, "sharefiles count")
      <3>1. \A in \in ShareFileslistJson : StepOf([op |-> "sharefiles", at |-> "sharefiles count",
                                       in |-> in, seen |-> <<>>])
        BY DEF StepOf
      <3> QED BY <2>6, <3>1, BeginStep
    <2>7. CASE Begin(w, "share", SharePictureJson, "share")
      <3>1. \A in \in SharePictureJson : StepOf([op |-> "share", at |-> "share",
                                       in |-> in, seen |-> <<>>])
        BY DEF StepOf
      <3> QED BY <2>7, <3>1, BeginStep
    <2>8. CASE Begin(w, "browse", BrowsePictureJson, "picture")
      <3>1. \A in \in BrowsePictureJson : StepOf([op |-> "browse", at |-> "picture",
                                       in |-> in, seen |-> <<>>])
        BY DEF StepOf
      <3> QED BY <2>8, <3>1, BeginStep
    <2>9. CASE Begin(w, "pictures", PictureListJson, "pictures count")
      <3>1. \A in \in PictureListJson : StepOf([op |-> "pictures", at |-> "pictures count",
                                       in |-> in, seen |-> <<>>])
        BY DEF StepOf
      <3> QED BY <2>9, <3>1, BeginStep
    <2>10. CASE Begin(w, "cancel", CancelPictureJson, "cancel")
      <3>1. \A in \in CancelPictureJson : StepOf([op |-> "cancel", at |-> "cancel",
                                       in |-> in, seen |-> <<>>])
        BY DEF StepOf
      <3> QED BY <2>10, <3>1, BeginStep
    <2> QED
      BY <1>1, <2>1, <2>2, <2>3, <2>4, <2>5, <2>6, <2>7, <2>8, <2>9, <2>10
      DEF Api, ApiRegisterUser, ApiUserLogin, ApiMyfiles, ApiSharefiles,
          ApiSharepicture
  <1>2. ASSUME NEW w \in Workers, Select(w) PROVE RequestsRight'
    <2>1. req[w] # Idle /\ StepOf(To(w, "prepare"))
      BY <1>2 DEF Select, At, RequestsRight, StepOf
    <2>2. \/ \E code, more : Answer(w, code, more)
          \/ Continue(w, "prepare")
          \/ \E seen : Goto(w, "prepare", seen)
      BY <1>2 DEF Select
    <2> QED BY <2>1, <2>2, AnswerStep, ContinueStep
  <1>3. ASSUME NEW w \in Workers, Prepare(w) PROVE RequestsRight'
    <2>1. req[w] # Idle /\ StepOf(To(w, "insert"))
      BY <1>3 DEF Prepare, At, RequestsRight, StepOf
    <2>2. \/ \E code, more : Answer(w, code, more)
          \/ Continue(w, "insert")
          \/ \E seen : Goto(w, "insert", seen)
      BY <1>3 DEF Prepare
    <2> QED BY <2>1, <2>2, AnswerStep, ContinueStep
  <1>4. ASSUME NEW w \in Workers, VerifyUserPassword(w) PROVE RequestsRight'
    <2>1. req[w] # Idle /\ StepOf(To(w, "setex"))
      BY <1>4 DEF VerifyUserPassword, At, RequestsRight, StepOf
    <2>2. \/ \E code, more : Answer(w, code, more)
          \/ Continue(w, "setex")
          \/ \E seen : Goto(w, "setex", seen)
      BY <1>4 DEF VerifyUserPassword
    <2> QED BY <2>1, <2>2, AnswerStep, ContinueStep
  <1>5. ASSUME NEW w \in Workers, VerifyToken(w) PROVE RequestsRight'
    <2>1. req[w] # Idle /\ StepOf(To(w, "files count"))
      BY <1>5 DEF VerifyToken, At, RequestsRight, StepOf
    <2>2. \/ \E code, more : Answer(w, code, more)
          \/ Continue(w, "files count")
          \/ \E seen : Goto(w, "files count", seen)
      BY <1>5 DEF VerifyToken
    <2> QED BY <2>1, <2>2, AnswerStep, ContinueStep
  <1>6. ASSUME NEW w \in Workers, UserFilesCount(w) PROVE RequestsRight'
    <2>1. req[w] # Idle /\ StepOf(To(w, "files"))
      BY <1>6 DEF UserFilesCount, At, RequestsRight, StepOf
    <2>2. \/ \E code, more : Answer(w, code, more)
          \/ Continue(w, "files")
          \/ \E seen : Goto(w, "files", seen)
      BY <1>6 DEF UserFilesCount
    <2> QED BY <2>1, <2>2, AnswerStep, ContinueStep
  <1>7. ASSUME NEW w \in Workers, SharefilesCount(w) PROVE RequestsRight'
    <2>1. req[w] # Idle /\ StepOf(To(w, "sharefiles"))
      BY <1>7 DEF SharefilesCount, At, RequestsRight, StepOf
    <2>2. \/ \E code, more : Answer(w, code, more)
          \/ Continue(w, "sharefiles")
          \/ \E seen : Goto(w, "sharefiles", seen)
      BY <1>7 DEF SharefilesCount
    <2> QED BY <2>1, <2>2, AnswerStep, ContinueStep
  <1>8. ASSUME NEW w \in Workers, SharePicturesCount(w) PROVE RequestsRight'
    <2>1. req[w] # Idle /\ StepOf(To(w, "pictures"))
      BY <1>8 DEF SharePicturesCount, At, RequestsRight, StepOf
    <2>2. \/ \E code, more : Answer(w, code, more)
          \/ Continue(w, "pictures")
          \/ \E seen : Goto(w, "pictures", seen)
      BY <1>8 DEF SharePicturesCount
    <2> QED BY <2>1, <2>2, AnswerStep, ContinueStep
  <1>9. ASSUME NEW w \in Workers, BrowsePicture(w) PROVE RequestsRight'
    <2>1. req[w] # Idle /\ StepOf(To(w, "url"))
      BY <1>9 DEF BrowsePicture, At, RequestsRight, StepOf
    <2>2. \/ \E code, more : Answer(w, code, more)
          \/ Continue(w, "url")
          \/ \E seen : Goto(w, "url", seen)
      BY <1>9 DEF BrowsePicture
    <2> QED BY <2>1, <2>2, AnswerStep, ContinueStep
  <1>10. ASSUME NEW w \in Workers, BrowseUrl(w) PROVE RequestsRight'
    <2>1. req[w] # Idle /\ StepOf(To(w, "pv"))
      BY <1>10 DEF BrowseUrl, At, RequestsRight, StepOf
    <2>2. \/ \E code, more : Answer(w, code, more)
          \/ Continue(w, "pv")
          \/ \E seen : Goto(w, "pv", seen)
      BY <1>10 DEF BrowseUrl
    <2> QED BY <2>1, <2>2, AnswerStep, ContinueStep
  <1>11. ASSUME NEW w \in Workers, InsertUser(w) PROVE RequestsRight'
    <2>1. \E code, more : Answer(w, code, more)
      BY <1>11 DEF InsertUser
    <2> QED BY <2>1, AnswerStep
  <1>12. ASSUME NEW w \in Workers, SetToken(w) PROVE RequestsRight'
    <2>1. \E code, more : Answer(w, code, more)
      BY <1>12 DEF SetToken
    <2> QED BY <2>1, AnswerStep
  <1>13. ASSUME NEW w \in Workers, UserFileList(w) PROVE RequestsRight'
    <2>1. \E code, more : Answer(w, code, more)
      BY <1>13 DEF UserFileList
    <2> QED BY <2>1, AnswerStep
  <1>14. ASSUME NEW w \in Workers, ShareFilelist(w) PROVE RequestsRight'
    <2>1. \E code, more : Answer(w, code, more)
      BY <1>14 DEF ShareFilelist
    <2> QED BY <2>1, AnswerStep
  <1>15. ASSUME NEW w \in Workers, SharePicturesList(w) PROVE RequestsRight'
    <2>1. \E code, more : Answer(w, code, more)
      BY <1>15 DEF SharePicturesList
    <2> QED BY <2>1, AnswerStep
  <1>16. ASSUME NEW w \in Workers, SharePicture(w) PROVE RequestsRight'
    <2>1. \E code, more : Answer(w, code, more)
      BY <1>16 DEF SharePicture
    <2> QED BY <2>1, AnswerStep
  <1>17. ASSUME NEW w \in Workers, BrowsePv(w) PROVE RequestsRight'
    <2>1. \E code, more : Answer(w, code, more)
      BY <1>17 DEF BrowsePv
    <2> QED BY <2>1, AnswerStep
  <1>18. ASSUME NEW w \in Workers, CancelPicture(w) PROVE RequestsRight'
    <2>1. \E code, more : Answer(w, code, more)
      BY <1>18 DEF CancelPicture
    <2> QED BY <2>1, AnswerStep
  <1>19. CASE Restart
    BY <1>19 DEF Restart, RequestsRight
  <1>20. CASE UNCHANGED req
    <2>1. \A v \in Workers : StepOf(req'[v]) => StepOf(req[v])'
      BY DEF StepOf, RegisterJson, LoginJson
    <2> QED BY <1>20, <2>1 DEF RequestsRight
  <1> QED
    BY <1>1, <1>2, <1>3, <1>4, <1>5, <1>6, <1>7, <1>8, <1>9, <1>10, <1>11, <1>12, <1>13, <1>14, <1>15, <1>16, <1>17, <1>18, <1>19, <1>20
    DEF Next, Statement, Expire, OtherRequests, userVars

\* What no statement does.
LEMMA StatementFrame ==
    ASSUME NEW w \in Workers, Statement(w)
    PROVE  /\ Works \/ \E step \in Faults : Fails(step)
           /\ UNCHANGED <<files, requests, restarts>>
           /\ drawn' = drawn \/ drawn' = drawn + 1
  <1>1. CASE \/ Select(w) \/ Prepare(w) \/ InsertUser(w)
            \/ VerifyUserPassword(w) \/ SetToken(w) \/ VerifyToken(w)
    BY <1>1 DEF Select, Prepare, InsertUser, VerifyUserPassword, SetToken, VerifyToken,
         Fails, Rest, tables
  <1>2. CASE \/ UserFilesCount(w) \/ UserFileList(w) \/ SharefilesCount(w)
            \/ ShareFilelist(w) \/ SharePicturesCount(w) \/ SharePicturesList(w)
    BY <1>2 DEF UserFilesCount, UserFileList, SharefilesCount, ShareFilelist, SharePicturesCount, SharePicturesList,
         Fails, Rest, tables
  <1>3. CASE \/ SharePicture(w) \/ BrowsePicture(w) \/ BrowseUrl(w)
            \/ BrowsePv(w) \/ CancelPicture(w)
    BY <1>3 DEF SharePicture, BrowsePicture, BrowseUrl, BrowsePv, CancelPicture,
         Fails, Rest, tables
  <1> QED BY <1>1, <1>2, <1>3 DEF Statement

\* Taking a request.
LEMMA ApiFrame ==
    ASSUME NEW w \in Workers, Api(w)
    PROVE  /\ requests < MaxRequests /\ requests' = requests + 1
           /\ UNCHANGED <<tables, drawn, faults, restarts>>
  BY DEF Api, ApiRegisterUser, ApiUserLogin, ApiMyfiles, ApiSharefiles,
         ApiSharepicture, Begin, Free

LEMMA CountersStep ==
    CountersRight /\ [Next]_userVars => CountersRight' /\ faults' >= faults
  <1> SUFFICES ASSUME CountersRight, [Next]_userVars
               PROVE  CountersRight' /\ faults' >= faults
    OBVIOUS
  <1> USE UserPagesAssumption DEF CountersRight
  <1>1. ASSUME NEW w \in Workers, Api(w)
        PROVE  CountersRight' /\ faults' >= faults
    BY <1>1, ApiFrame
  <1>2. ASSUME NEW w \in Workers, Statement(w)
        PROVE  CountersRight' /\ faults' >= faults
    BY <1>2, StatementFrame, FaultsEffect
  <1>3. CASE Expire \/ OtherRequests \/ Restart \/ UNCHANGED userVars
    BY <1>3 DEF Expire, OtherRequests, Restart, Rest, userVars
  <1> QED BY <1>1, <1>2, <1>3 DEF Next

\* A row of user_file_list has its file, and a share its owner's row.
LEMMA ListsStep == ListsRight /\ [Next]_userVars => ListsRight'
  <1> SUFFICES ASSUME ListsRight, [Next]_userVars PROVE ListsRight'
    OBVIOUS
  <1> USE DEF ListsRight
  <1>1. ASSUME NEW n \in Names, NEW f \in Files, Publish(n, f)
        PROVE  ListsRight'
    BY <1>1 DEF Publish
  <1>2. ASSUME NEW n \in Names, NEW f \in Files, ShareFile(n, f)
        PROVE  ListsRight'
    BY <1>2 DEF ShareFile
  <1>3. ASSUME NEW n \in Names, NEW f \in Files, Withdraw(n, f)
        PROVE  ListsRight'
    <2>1. /\ user_file_list' = user_file_list \ {<<n, f>>}
          /\ share_file_list' = share_file_list \ {<<n, f>>}
          /\ file_info' = {g \in file_info :
                              \E m \in Names : <<m, g>> \in user_file_list'}
      BY <1>3 DEF Withdraw
    <2>2. ASSUME NEW x \in user_file_list' PROVE x \in Names \X file_info'
      <3>1. PICK m \in Names, g \in file_info : x = <<m, g>>
        BY <2>1, <2>2
      <3> QED BY <2>1, <2>2, <3>1
    <2> QED BY <2>1, <2>2
  <1>4. CASE UNCHANGED files
    BY <1>4 DEF files
  <1>5. ASSUME NEW w \in Workers, Api(w) \/ Statement(w) PROVE ListsRight'
    BY <1>4, <1>5, StatementFrame, ApiFrame DEF tables
  <1>6. CASE Expire \/ Restart \/ UNCHANGED userVars
    BY <1>4, <1>6 DEF Expire, Restart, tables, userVars
  <1> QED BY <1>1, <1>2, <1>3, <1>5, <1>6 DEF Next, OtherRequests

-----------------------------------------------------------------------------
(* Registration *)

\* The histories an answer leaves alone.
LEMMA AnswerHistory ==
    ASSUME NEW w \in Workers, NEW code, NEW more, Answer(w, code, more)
    PROVE  /\ code # 0 \/ req[w].op # "register" => registered' = registered
           /\ code # 0 \/ req[w].op # "login" => issued' = issued
           /\ code # 0 \/ req[w].op # "browse" => views' = views
           /\ last' = [op |-> req[w].op, in |-> req[w].in, code |-> code,
                       more |-> more]
  BY DEF Answer

\* Which operation a step belongs to.
LEMMA OpOfStep ==
    ASSUME RequestsRight, NEW w \in Workers
    PROVE  /\ At(w, "select") \/ At(w, "prepare") \/ At(w, "insert") =>
                 req[w].op = "register" /\ In(w) \in RegisterJson
           /\ At(w, "password") \/ At(w, "setex") =>
                 req[w].op = "login" /\ In(w) \in LoginJson
           /\ At(w, "get") \/ At(w, "files count") \/ At(w, "files") =>
                 req[w].op \in {"mycount", "myfiles"}
           /\ At(w, "picture") \/ At(w, "url") \/ At(w, "pv") =>
                 req[w].op = "browse"
           /\ At(w, "sharefiles count") \/ At(w, "sharefiles") =>
                 req[w].op \in {"sharecount", "sharefiles"}
           /\ At(w, "pictures count") \/ At(w, "pictures") =>
                 req[w].op = "pictures"
           /\ At(w, "share") => req[w].op = "share"
           /\ At(w, "cancel") => req[w].op = "cancel"
  BY DEF RequestsRight, StepOf, At, In

LEMMA UsersSame ==
    ASSUME UsersInv, CountersRight, CountersRight', faults' >= faults,
           user_info' = user_info, registered' = registered
    PROVE  UsersInv'
  <1>1. \A n \in Names : HasRow(n)' <=> HasRow(n)
    BY DEF HasRow
  <1> QED BY <1>1 DEF UsersInv, CountersRight

\* A registration that is answered with 0 has inserted its row, which no
\* unique key forbade, or failed without being told so.
LEMMA UsersStep ==
    ASSUME UsersInv, CountersRight, CountersRight', RequestsRight,
           faults' >= faults, [Next]_userVars
    PROVE  UsersInv'
  <1>1. ASSUME NEW w \in Workers, Prepare(w) PROVE UsersInv'
    <2>1. req[w].op = "register" /\ In(w) \in RegisterJson
      BY <1>1, OpOfStep DEF Prepare
    <2>2. CASE UNCHANGED history
      BY <1>1, <2>2, UsersSame DEF Prepare, tables, history
    <2>3. CASE Fails("prepare") /\ Answer(w, 0, 0)
      <3> PICK n : n = In(w).user
        OBVIOUS
      <3>1. n \in Names /\ registered' = [registered EXCEPT ![n] = @ + 1]
        BY <2>1, <2>3 DEF Answer, In, RegisterJson
      <3>2. faults' = faults + 1 /\ user_info' = user_info
        BY <1>1, <2>3 DEF Fails, Prepare, tables
      <3>3. \A m \in Names : HasRow(m)' <=> HasRow(m)
        BY <3>2 DEF HasRow
      <3>4. registered' \in [Names -> Nat]
        BY <3>1 DEF UsersInv
      <3>5. \A m \in Names :
               registered'[m] <= (IF HasRow(m)' THEN 1 ELSE 0) + faults'
        BY <3>1, <3>2, <3>3 DEF UsersInv, CountersRight
      <3> QED BY <3>2, <3>4, <3>5 DEF UsersInv
    <2> QED BY <1>1, <2>2, <2>3 DEF Prepare
  <1>2. ASSUME NEW w \in Workers, InsertUser(w) PROVE UsersInv'
    <2>1. req[w].op = "register" /\ In(w) \in RegisterJson
      BY <1>2, OpOfStep DEF InsertUser
    <2>2. CASE UNCHANGED user_info /\ Answer(w, 1, 0)
      BY <2>2, AnswerHistory, UsersSame
    <2> DEFINE row == NewUser(In(w))
    <2>3. CASE /\ Works /\ ~ Taken(In(w)) /\ Answer(w, 0, 0)
               /\ user_info' = user_info \cup {row}
      <3> PICK n : n = In(w).user
        OBVIOUS
      <3>1. /\ n \in Names
            /\ registered' = [registered EXCEPT ![n] = @ + 1]
        BY <2>1, <2>3 DEF Answer, In, RegisterJson
      <3>2. row.user = n /\ row.nick = In(w).nick /\ row.pwd = In(w).pwd
        BY DEF NewUser
      <3>3. row.nick \in Names /\ row.pwd \in Passwords
        BY <2>1, <3>2 DEF RegisterJson
      <3>4. \A r \in user_info : r.user # row.user /\ r.nick # row.nick
        BY <2>3, <3>2 DEF Taken
      <3> HIDE DEF row
      <3>5. faults' = faults
        BY <2>3 DEF Works
      <3>6. /\ ~ HasRow(n) /\ HasRow(n)'
            /\ \A m \in Names : HasRow(m) => HasRow(m)'
        <4>1. \A r \in user_info : r.user # n
          BY <3>2, <3>4
        <4>2. row \in user_info' /\ user_info \subseteq user_info'
          BY <2>3
        <4> QED BY <3>2, <4>1, <4>2 DEF HasRow
      <3>7. \A r \in user_info' :
               r.user \in Names /\ r.nick \in Names /\ r.pwd \in Passwords
        BY <2>3, <3>1, <3>2, <3>3 DEF UsersInv
      <3>8. \A r, s \in user_info' :
               r.user = s.user \/ r.nick = s.nick => r = s
        BY <2>3, <3>4 DEF UsersInv
      <3>9. registered' \in [Names -> Nat]
        BY <3>1 DEF UsersInv
      <3>10. \A m \in Names :
                registered'[m] <= (IF HasRow(m)' THEN 1 ELSE 0) + faults'
        <4>1. ASSUME NEW m \in Names
              PROVE  registered'[m] <= (IF HasRow(m)' THEN 1 ELSE 0) + faults'
          <5>1. registered[m] \in Nat /\ faults \in Nat
            BY DEF UsersInv, CountersRight
          <5>2. registered[m] <= (IF HasRow(m) THEN 1 ELSE 0) + faults
            BY DEF UsersInv
          <5>3. CASE m = n
            <6>1. registered'[m] = registered[m] + 1
              BY <3>1, <5>3 DEF UsersInv
            <6>2. registered[m] <= faults
              BY <3>6, <5>1, <5>2, <5>3
            <6>3. registered'[m] <= 1 + faults'
              BY <3>5, <5>1, <6>1, <6>2
            <6> QED BY <3>6, <5>3, <6>3
          <5>4. CASE m # n
            <6>1. registered'[m] = registered[m]
              BY <3>1, <5>4 DEF UsersInv
            <6>2. CASE HasRow(m)
              BY <3>5, <3>6, <5>2, <6>1, <6>2
            <6>3. CASE ~ HasRow(m)
              <7>1. registered'[m] <= faults'
                BY <3>5, <5>1, <5>2, <6>1, <6>3
              <7> QED BY <3>5, <5>1, <6>1, <7>1
            <6> QED BY <6>2, <6>3
          <5> QED BY <5>3, <5>4
        <4> QED BY <4>1
      <3> QED BY <3>7, <3>8, <3>9, <3>10 DEF UsersInv
    <2>4. CASE /\ Fails("insert") /\ ~ Taken(In(w)) /\ Answer(w, 1, 0)
               /\ user_info' = user_info \cup {row}
      <3>1. /\ row.user \in Names /\ row.nick \in Names /\ row.pwd \in Passwords
            /\ \A r \in user_info : r.user # row.user /\ r.nick # row.nick
        BY <2>1, <2>4 DEF NewUser, RegisterJson, Taken
      <3> HIDE DEF row
      <3>2. registered' = registered
        BY <2>4, AnswerHistory
      <3>3. \A m \in Names : HasRow(m) => HasRow(m)'
        BY <2>4 DEF HasRow
      <3>4. \A m \in Names :
               registered'[m] <= (IF HasRow(m)' THEN 1 ELSE 0) + faults'
        BY <3>2, <3>3 DEF UsersInv, CountersRight
      <3> QED BY <2>4, <3>1, <3>2, <3>4 DEF UsersInv
    <2> QED BY <1>2, <2>2, <2>3, <2>4 DEF InsertUser
  <1>3. ASSUME NEW w \in Workers, Api(w) PROVE UsersInv'
    <2>1. registered' = registered
      BY <1>3 DEF Api, ApiRegisterUser, ApiUserLogin, ApiMyfiles,
                  ApiSharefiles, ApiSharepicture, Begin, history
    <2> QED BY <1>3, <2>1, ApiFrame, UsersSame DEF tables
  <1>4. ASSUME NEW w \in Workers, Statement(w), ~ Prepare(w), ~ InsertUser(w)
        PROVE  UsersInv'
    <2>1. user_info' = user_info
      BY <1>4 DEF Statement, Select, VerifyUserPassword, SetToken, VerifyToken,
           UserFilesCount, UserFileList, SharefilesCount, ShareFilelist,
           SharePicturesCount, SharePicturesList, SharePicture, BrowsePicture,
           BrowseUrl, BrowsePv, CancelPicture, tables
    <2>2. registered' = registered
      <3>1. CASE UNCHANGED history
        BY <3>1 DEF history
      <3>2. CASE Select(w)
        BY <3>2, <3>1, AnswerHistory DEF Select
      <3>3. CASE VerifyUserPassword(w) \/ SetToken(w)
        BY <3>3, <3>1, AnswerHistory, OpOfStep DEF VerifyUserPassword, SetToken
      <3>4. CASE VerifyToken(w) \/ UserFilesCount(w) \/ UserFileList(w)
        BY <3>4, <3>1, AnswerHistory, OpOfStep
        DEF VerifyToken, UserFilesCount, UserFileList
      <3>5. CASE \/ SharefilesCount(w) \/ ShareFilelist(w)
                 \/ SharePicturesCount(w) \/ SharePicturesList(w)
        BY <3>5, <3>1, AnswerHistory, OpOfStep
        DEF SharefilesCount, ShareFilelist, SharePicturesCount, SharePicturesList
      <3>6. CASE \/ SharePicture(w) \/ CancelPicture(w) \/ BrowsePicture(w)
                 \/ BrowseUrl(w) \/ BrowsePv(w)
        BY <3>6, <3>1, AnswerHistory, OpOfStep
        DEF SharePicture, CancelPicture, BrowsePicture, BrowseUrl, BrowsePv
      <3> QED BY <1>4, <3>2, <3>3, <3>4, <3>5, <3>6 DEF Statement
    <2> QED BY <2>1, <2>2, UsersSame
  <1>5. CASE Expire \/ Restart \/ OtherRequests \/ UNCHANGED userVars
    BY <1>5, UsersSame DEF Expire, Restart, OtherRequests, tables, history, userVars
  <1> QED BY <1>1, <1>2, <1>3, <1>4, <1>5 DEF Next

-----------------------------------------------------------------------------
(* Tokens *)

\* Where a request relies on a login.
Relying == {"setex", "get", "files count", "files"}

\* Nothing that a token relies on goes away, and nobody begins to rely on one.
LEMMA TokensSame ==
    ASSUME TokensInv, user_info \subseteq user_info', tokens' \subseteq tokens,
           issued' = issued,
           \A v \in Workers : \/ req'[v] = req[v] \/ req'[v] = Idle
                              \/ req'[v].at \notin Relying
    PROVE  TokensInv'
  <1>1. \A n, pwd : LoggedIn(n, pwd) => \E r \in user_info' : r.user = n /\ r.pwd = pwd
    BY DEF LoggedIn
  <1>2. \A i \in issued' : /\ i[1] \in 1..Cardinality(issued') /\ i[2] \in Names
                           /\ LoggedIn(i[2], i[3])'
    BY <1>1 DEF TokensInv, LoggedIn
  <1>3. \A t \in tokens' : Vouched(t[1], t[2])'
    BY DEF TokensInv, Vouched
  <1>4. ASSUME NEW v \in Workers PROVE Backed(v)'
    <2>1. CASE req'[v] = Idle \/ req'[v].at \notin Relying
      BY <2>1 DEF Backed, At, Relying
    <2>2. CASE req'[v] = req[v]
      <3>1. Backed(v)
        BY DEF TokensInv
      <3>2. \A n, pwd : LoggedIn(n, pwd) => \E r \in user_info' : r.user = n /\ r.pwd = pwd
        BY <1>1
      <3> QED BY <2>2, <3>1, <3>2 DEF Backed, Entitled, At, In, LoggedIn, Vouched
    <2> QED BY <2>1, <2>2
  <1> QED BY <1>2, <1>3, <1>4 DEF TokensInv

\* The same for the answer given last.
LEMMA VouchesSame ==
    ASSUME TokenVouches, user_info \subseteq user_info', issued \subseteq issued',
           \/ last' = last \/ last'.code # 0
           \/ last'.op \notin {"mycount", "myfiles"}
    PROVE  TokenVouches'
  BY DEF TokenVouches

\* A request whose token is vouched for may be answered.
LEMMA VouchedAnswer ==
    ASSUME TokensInv, NEW w \in Workers, NEW code, NEW more,
           Answer(w, code, more), issued' = issued, user_info' = user_info,
           Entitled(In(w))
    PROVE  TokenVouches'
  <1>0. last'.in = In(w)
    BY DEF Answer, In
  <1> SUFFICES ASSUME In(w).user # NoName PROVE TokenVouches'
    BY <1>0 DEF TokenVouches
  <1>1. PICK i \in issued : i[1] = In(w).token /\ i[2] = In(w).user
    BY DEF Vouched, Entitled
  <1>2. \E r \in user_info : r.user = i[2] /\ r.pwd = i[3]
    BY <1>1 DEF TokensInv, LoggedIn
  <1> QED BY <1>0, <1>1, <1>2 DEF TokenVouches, Entitled

\* SETEX stores a token that no login had before it.
LEMMA NewTokenStep ==
    ASSUME TokensInv, TokenVouches, RequestsRight, NEW w \in Workers, SetToken(w),
           ~ Answer(w, 1, 0)
    PROVE  TokensInv' /\ TokenVouches'
  <1> PICK c : c = Cardinality(issued)
    OBVIOUS
  <1> PICK n, pwd : n = In(w).user /\ pwd = In(w).pwd
    OBVIOUS
  <1>1. /\ At(w, "setex") /\ Answer(w, 0, 1 + c) /\ user_info' = user_info
        /\ tokens' \subseteq tokens \cup {<<1 + c, n>>}
    BY DEF SetToken, NewToken
  <1>2. /\ req[w].op = "login" /\ In(w) \in LoginJson
        /\ req' = [v \in Workers |-> req'[v]] /\ OthersStay(w)
        /\ req'[w] = Idle
    BY <1>1, OpOfStep, AnswerEffect
  <1>3. issued' = issued \cup {<<1 + c, n, pwd>>}
    BY <1>1, <1>2 DEF Answer, In
  <1>4. c \in Nat /\ IsFiniteSet(issued) /\ \A i \in issued : i[1] \in 1..c
    BY FS_CardinalityType DEF TokensInv
  <1>5. IsFiniteSet(issued') /\ Cardinality(issued') = c + 1
    <2>1. <<1 + c, n, pwd>> \notin issued
      BY <1>4
    <2> QED BY <1>3, <1>4, <2>1, FS_AddElement
  <1>6. LoggedIn(n, pwd) /\ n \in Names
    BY <1>1, <1>2 DEF TokensInv, Backed, LoginJson
  <1>7. ASSUME NEW i \in issued'
        PROVE  /\ i[1] \in 1..Cardinality(issued') /\ i[2] \in Names
               /\ LoggedIn(i[2], i[3])'
    <2>1. CASE i \in issued
      <3>1. i[1] \in 1..(c + 1)
        BY <1>4, <2>1
      <3>2. i[2] \in Names /\ LoggedIn(i[2], i[3])
        BY <2>1 DEF TokensInv
      <3> QED BY <1>1, <1>5, <3>1, <3>2 DEF LoggedIn
    <2>2. CASE i = <<1 + c, n, pwd>>
      <3>1. i[1] = 1 + c /\ i[2] = n /\ i[3] = pwd
        BY <2>2
      <3>2. 1 + c \in 1..(c + 1)
        BY <1>4
      <3> QED BY <1>1, <1>5, <1>6, <3>1, <3>2 DEF LoggedIn
    <2> QED BY <1>3, <2>1, <2>2
  <1>8. ASSUME NEW t \in tokens' PROVE Vouched(t[1], t[2])'
    <2>1. CASE t \in tokens
      BY <1>3, <2>1 DEF TokensInv, Vouched
    <2>2. CASE t = <<1 + c, n>>
      <3> DEFINE i == <<1 + c, n, pwd>>
      <3>1. i \in issued' /\ i[1] = t[1] /\ i[2] = t[2]
        BY <1>3, <2>2
      <3> HIDE DEF i
      <3> QED BY <3>1 DEF Vouched
    <2> QED BY <1>1, <2>1, <2>2
  <1>9. ASSUME NEW v \in Workers PROVE Backed(v)'
    <2>1. CASE v = w
      BY <1>2, <2>1 DEF Backed, At
    <2>2. CASE v # w
      <3>1. req'[v] = req[v] /\ Backed(v)
        BY <1>2, <2>2 DEF OthersStay, TokensInv
      <3>2. \A m, word : LoggedIn(m, word) => \E r \in user_info' : r.user = m /\ r.pwd = word
        BY <1>1 DEF LoggedIn
      <3>3. \A k, m : Vouched(k, m) => \E i \in issued' : i[1] = k /\ i[2] = m
        BY <1>3 DEF Vouched
      <3>4. ASSUME At(v, "get")
            PROVE  /\ In(v).token \in 0..Cardinality(issued')
                   /\ <<In(v).token, In(v).user>> \in tokens' => In(v).user \in In(v).owners
        <4> PICK k, m : k = In(v).token /\ m = In(v).user
          OBVIOUS
        <4>1. k \in 0..c /\ (<<k, m>> \in tokens => In(v).user \in In(v).owners)
          BY <3>1, <3>4 DEF Backed
        <4>2. k \in 0..(c + 1) /\ k # 1 + c
          BY <1>4, <4>1
        <4>3. <<k, m>> \in tokens' => <<k, m>> \in tokens
          BY <1>1, <4>2
        <4> QED BY <1>5, <4>1, <4>2, <4>3
      <3>5. At(v, "setex")' => LoggedIn(In(v).user, In(v).pwd)'
        BY <3>1, <3>2 DEF Backed, At, In, LoggedIn
      <3>6. (At(v, "files count") \/ At(v, "files"))' => Entitled(In(v))'
        <4>1. In(v)' = In(v) /\ (Vouched(In(v).token, In(v).user)
                                     => Vouched(In(v).token, In(v).user)')
          BY <3>1, <3>3 DEF In, Vouched
        <4>2. Entitled(In(v)) => Entitled(In(v))'
          BY <4>1 DEF Entitled
        <4> QED BY <3>1, <4>2 DEF Backed, At
      <3>7. At(v, "get")' =>
               /\ In(v)'.token \in 0..Cardinality(issued')
               /\ <<In(v)'.token, In(v)'.user>> \in tokens' => In(v)'.user \in In(v)'.owners
        BY <3>1, <3>4 DEF At, In
      <3> QED BY <3>5, <3>6, <3>7 DEF Backed
    <2> QED BY <2>1, <2>2
  <1>10. TokensInv'
    BY <1>5, <1>7, <1>8, <1>9 DEF TokensInv
  <1>11. TokenVouches'
    <2>1. last'.op = "login"
      BY <1>1, <1>2, AnswerHistory
    <2> QED BY <1>1, <1>3, <2>1, VouchesSame
  <1> QED BY <1>10, <1>11

\* A request that has nothing to do with tokens.
LEMMA Uninvolved ==
    ASSUME TokensInv, TokenVouches, RequestsRight, NEW w \in Workers,
           user_info \subseteq user_info', tokens' = tokens, req[w] # Idle,
           req[w].op \notin {"login", "mycount", "myfiles"},
           \/ \E code, more : Answer(w, code, more)
           \/ /\ UNCHANGED history
              /\ \E step : /\ step \notin Relying
                           /\ \/ Continue(w, step)
                              \/ \E seen : Goto(w, step, seen)
    PROVE  TokensInv' /\ TokenVouches'
  <1>1. CASE \E code, more : Answer(w, code, more)
    <2>1. PICK code, more : Answer(w, code, more)
      BY <1>1
    <2>2. OthersStay(w) /\ req'[w] = Idle
      BY <2>1, AnswerEffect
    <2>3. issued' = issued /\ last'.op \notin {"mycount", "myfiles"}
      BY <2>1, AnswerHistory
    <2>4. TokensInv'
      BY <2>2, <2>3, TokensSame DEF OthersStay
    <2> QED BY <2>3, <2>4, VouchesSame
  <1>2. CASE /\ UNCHANGED history
             /\ \E step : /\ step \notin Relying
                          /\ \/ Continue(w, step)
                             \/ \E seen : Goto(w, step, seen)
    <2>1. PICK step : /\ step \notin Relying
                      /\ \/ Continue(w, step)
                         \/ \E seen : Goto(w, step, seen)
      BY <1>2
    <2>2. OthersStay(w) /\ req'[w].at \notin Relying
      BY <2>1, GoEffect
    <2>3. issued' = issued /\ last' = last
      BY <1>2 DEF history
    <2>4. TokensInv'
      BY <2>2, <2>3, TokensSame DEF OthersStay
    <2> QED BY <2>3, <2>4, VouchesSame
  <1> QED BY <1>1, <1>2

\* One that a token or a password lets go on.
LEMMA LetOn ==
    ASSUME TokensInv, TokenVouches, RequestsRight, NEW w \in Workers,
           UNCHANGED <<user_info, tokens, history>>, req[w] # Idle, NEW step,
           Continue(w, step) \/ \E seen : Goto(w, step, seen),
           step = "setex" => LoggedIn(In(w).user, In(w).pwd),
           step # "get",
           step \in {"files count", "files"} => Entitled(In(w))
    PROVE  TokensInv' /\ TokenVouches'
  <1>1. /\ OthersStay(w) /\ req'[w].at = step /\ req'[w].in = req[w].in
    BY GoEffect
  <1>2. issued' = issued /\ last' = last
    BY DEF history
  <1>3. /\ \A i \in issued' : /\ i[1] \in 1..Cardinality(issued')
                              /\ i[2] \in Names /\ LoggedIn(i[2], i[3])'
        /\ \A t \in tokens' : Vouched(t[1], t[2])'
    BY <1>2 DEF TokensInv, LoggedIn, Vouched
  <1>4. ASSUME NEW v \in Workers PROVE Backed(v)'
    <2>1. req'[v].in = req[v].in /\ Backed(v)
      BY <1>1 DEF OthersStay, TokensInv
    <2>2. CASE v = w
      BY <1>1, <1>2, <2>1, <2>2 DEF Backed, Entitled, At, In, LoggedIn, Vouched
    <2>3. CASE v # w
      <3>1. req'[v] = req[v]
        BY <1>1, <2>3 DEF OthersStay
      <3> QED BY <1>2, <2>1, <3>1 DEF Backed, Entitled, At, In, LoggedIn, Vouched
    <2> QED BY <2>2, <2>3
  <1>5. TokensInv'
    BY <1>2, <1>3, <1>4 DEF TokensInv
  <1> QED BY <1>2, <1>5, VouchesSame

\* One that is refused.
LEMMA Refused ==
    ASSUME TokensInv, TokenVouches, RequestsRight, NEW w \in Workers,
           UNCHANGED <<user_info, tokens>>, NEW code, NEW more,
           code # 0, Answer(w, code, more)
    PROVE  TokensInv' /\ TokenVouches'
  <1>1. OthersStay(w) /\ req'[w] = Idle
    BY AnswerEffect
  <1>2. issued' = issued /\ last'.code # 0
    BY AnswerHistory
  <1>3. TokensInv'
    BY <1>1, <1>2, TokensSame DEF OthersStay
  <1> QED BY <1>2, <1>3, VouchesSame

\* A request for files comes with a token that was issued, or with none.
LEMMA Presented ==
    ASSUME TokensInv, TokenVouches, RequestsRight, NEW w \in Workers, NEW op,
           Begin(w, op, CountJson, "get")
    PROVE  TokensInv' /\ TokenVouches'
  <1>1. UNCHANGED <<user_info, tokens, issued>>
    BY DEF Begin, tables, history
  <1>2. last' = last \/ last'.code # 0
    BY BeginEffect DEF history
  <1>3. CASE req' = req
    BY <1>1, <1>2, <1>3, TokensSame, VouchesSame
  <1>4. CASE OthersStay(w) /\ \E in \in CountJson : req'[w] =
                 [op |-> op, at |-> "get", in |-> in, seen |-> <<>>]
    <2>1. PICK in \in CountJson : req'[w] =
                 [op |-> op, at |-> "get", in |-> in, seen |-> <<>>]
      BY <1>4
    <2>2. req'[w].at = "get" /\ req'[w].in = in
      BY <2>1
    <2>3. PICK k \in Token, n \in Names :
                 in = [user |-> n, token |-> k, owners |-> Owners(k)]
      BY DEF CountJson, Owners
    <2>4. Cardinality(issued) \in Nat
      BY FS_CardinalityType DEF TokensInv
    <2>5. k \in 0..Cardinality(issued)
      <3> PICK c : c = Cardinality(issued)
        OBVIOUS
      <3>1. \A i \in issued : i[1] \in 1..c
        BY DEF TokensInv
      <3>2. k = 0 \/ k \in 1..c
        BY <3>1 DEF Token
      <3> QED BY <2>4, <3>2
    <2>6. ASSUME NEW v \in Workers PROVE Backed(v)'
      <3>1. CASE v = w
        <4>1. in.user = n /\ in.token = k /\ in.owners = Owners(k)
          BY <2>3
        <4>2. <<k, n>> \in tokens' => n \in Owners(k)
          BY <1>1 DEF Owners
        <4>3. /\ ~ At(v, "setex")' /\ ~ At(v, "files count")' /\ ~ At(v, "files")'
              /\ In(v)' = in
          BY <2>2, <3>1 DEF At, In
        <4>4. /\ In(v)'.token \in 0..Cardinality(issued')
              /\ <<In(v)'.token, In(v)'.user>> \in tokens' => In(v)'.user \in In(v)'.owners
          BY <1>1, <2>5, <4>1, <4>2, <4>3
        <4> QED BY <4>3, <4>4 DEF Backed
      <3>2. CASE v # w
        <4>1. req'[v] = req[v] /\ Backed(v)
          BY <1>4, <3>2 DEF OthersStay, TokensInv
        <4> QED BY <1>1, <4>1 DEF Backed, Entitled, At, In, LoggedIn, Vouched
      <3> QED BY <3>1, <3>2
    <2>7. /\ \A i \in issued' : /\ i[1] \in 1..Cardinality(issued')
                                /\ i[2] \in Names /\ LoggedIn(i[2], i[3])'
          /\ \A t \in tokens' : Vouched(t[1], t[2])'
      BY <1>1 DEF TokensInv, LoggedIn, Vouched
    <2>8. TokensInv'
      BY <1>1, <2>6, <2>7 DEF TokensInv
    <2> QED BY <1>1, <1>2, <2>8, VouchesSame
  <1> QED BY <1>3, <1>4, BeginEffect

\* What tokens vouch for stays vouched for.
LEMMA TokensStep ==
    ASSUME TokensInv, TokenVouches, RequestsRight, [Next]_userVars
    PROVE  TokensInv' /\ TokenVouches'
  <1>1. ASSUME NEW w \in Workers, VerifyUserPassword(w)
        PROVE  TokensInv' /\ TokenVouches'
    <2>1. /\ req[w] # Idle /\ UNCHANGED <<user_info, tokens>>
      BY <1>1 DEF VerifyUserPassword, At, tables
    <2>2. CASE /\ Continue(w, "setex") /\ UNCHANGED history
               /\ \E r \in user_info : r.user = In(w).user /\ r.pwd = In(w).pwd
      BY <2>1, <2>2, LetOn DEF LoggedIn
    <2>3. CASE Answer(w, 1, 0)
      BY <2>1, <2>3, Refused
    <2> QED BY <1>1, <2>2, <2>3 DEF VerifyUserPassword
  <1>2. ASSUME NEW w \in Workers, VerifyToken(w)
        PROVE  TokensInv' /\ TokenVouches'
    <2>1. /\ req[w] # Idle /\ UNCHANGED <<user_info, tokens>>
      BY <1>2 DEF VerifyToken, At, tables
    <2>2. CASE /\ Continue(w, "files count") /\ UNCHANGED history
               /\ In(w).user = NoName
      BY <2>1, <2>2, LetOn DEF Entitled
    <2>3. CASE /\ Continue(w, "files count") /\ UNCHANGED history
               /\ <<In(w).token, In(w).user>> \in tokens
      <3>1. Vouched(In(w).token, In(w).user)
        <4> DEFINE t == <<In(w).token, In(w).user>>
        <4>1. Vouched(t[1], t[2])
          BY <2>3 DEF TokensInv
        <4>2. t[1] = In(w).token /\ t[2] = In(w).user
          OBVIOUS
        <4> QED BY <4>1, <4>2
      <3>2. In(w).user \in In(w).owners
        BY <1>2, <2>3 DEF TokensInv, Backed, VerifyToken
      <3> QED BY <2>1, <2>3, <3>1, <3>2, LetOn DEF Entitled
    <2>4. CASE Answer(w, 1, 0)
      BY <2>1, <2>4, Refused
    <2> QED BY <1>2, <2>2, <2>3, <2>4 DEF VerifyToken
  <1>3. ASSUME NEW w \in Workers, UserFilesCount(w) \/ UserFileList(w)
        PROVE  TokensInv' /\ TokenVouches'
    <2>1. /\ req[w] # Idle /\ UNCHANGED <<user_info, tokens>>
          /\ Entitled(In(w))
          /\ req[w].op \in {"mycount", "myfiles"}
      BY <1>3, OpOfStep DEF UserFilesCount, UserFileList, At, tables, TokensInv, Backed
    <2>2. CASE \E code, more : Answer(w, code, more)
      <3>1. PICK code, more : Answer(w, code, more)
        BY <2>2
      <3>2. issued' = issued /\ OthersStay(w) /\ req'[w] = Idle
        BY <2>1, <3>1, AnswerHistory, AnswerEffect
      <3>3. TokensInv'
        BY <2>1, <3>2, TokensSame DEF OthersStay
      <3> QED BY <2>1, <3>1, <3>2, <3>3, VouchedAnswer
    <2>3. CASE UNCHANGED history /\ \E seen : Goto(w, "files", seen)
      BY <2>1, <2>3, LetOn
    <2> QED BY <1>3, <2>2, <2>3 DEF UserFilesCount, UserFileList
  <1>4. ASSUME NEW w \in Workers, Select(w) \/ Prepare(w) \/ InsertUser(w)
        PROVE  TokensInv' /\ TokenVouches'
    <2>1. /\ req[w] # Idle /\ user_info \subseteq user_info'
          /\ tokens' = tokens
          /\ req[w].op \notin {"login", "mycount", "myfiles"}
      BY <1>4, OpOfStep
      DEF Select, Prepare, InsertUser, At, tables
    <2>2. \/ \E code, more : Answer(w, code, more)
          \/ /\ UNCHANGED history
             /\ \E step : /\ step \notin Relying
                          /\ \/ Continue(w, step)
                             \/ \E seen : Goto(w, step, seen)
      BY <1>4 DEF Select, Prepare, InsertUser, Relying
    <2> QED BY <2>1, <2>2, Uninvolved
  <1>5. ASSUME NEW w \in Workers, SharefilesCount(w) \/ ShareFilelist(w)
        PROVE  TokensInv' /\ TokenVouches'
    <2>1. /\ req[w] # Idle /\ user_info \subseteq user_info'
          /\ tokens' = tokens
          /\ req[w].op \notin {"login", "mycount", "myfiles"}
      BY <1>5, OpOfStep
      DEF SharefilesCount, ShareFilelist, At, tables
    <2>2. \/ \E code, more : Answer(w, code, more)
          \/ /\ UNCHANGED history
             /\ \E step : /\ step \notin Relying
                          /\ \/ Continue(w, step)
                             \/ \E seen : Goto(w, step, seen)
      BY <1>5 DEF SharefilesCount, ShareFilelist, Relying
    <2> QED BY <2>1, <2>2, Uninvolved
  <1>6. ASSUME NEW w \in Workers, SharePicturesCount(w) \/ SharePicturesList(w)
        PROVE  TokensInv' /\ TokenVouches'
    <2>1. /\ req[w] # Idle /\ user_info \subseteq user_info'
          /\ tokens' = tokens
          /\ req[w].op \notin {"login", "mycount", "myfiles"}
      BY <1>6, OpOfStep
      DEF SharePicturesCount, SharePicturesList, At, tables
    <2>2. \/ \E code, more : Answer(w, code, more)
          \/ /\ UNCHANGED history
             /\ \E step : /\ step \notin Relying
                          /\ \/ Continue(w, step)
                             \/ \E seen : Goto(w, step, seen)
      BY <1>6 DEF SharePicturesCount, SharePicturesList, Relying
    <2> QED BY <2>1, <2>2, Uninvolved
  <1>7. ASSUME NEW w \in Workers, SharePicture(w) \/ CancelPicture(w)
        PROVE  TokensInv' /\ TokenVouches'
    <2>1. /\ req[w] # Idle /\ user_info \subseteq user_info'
          /\ tokens' = tokens
          /\ req[w].op \notin {"login", "mycount", "myfiles"}
      BY <1>7, OpOfStep
      DEF SharePicture, CancelPicture, At, tables
    <2>2. \/ \E code, more : Answer(w, code, more)
          \/ /\ UNCHANGED history
             /\ \E step : /\ step \notin Relying
                          /\ \/ Continue(w, step)
                             \/ \E seen : Goto(w, step, seen)
      BY <1>7 DEF SharePicture, CancelPicture, Relying
    <2> QED BY <2>1, <2>2, Uninvolved
  <1>8. ASSUME NEW w \in Workers, BrowsePicture(w) \/ BrowseUrl(w) \/ BrowsePv(w)
        PROVE  TokensInv' /\ TokenVouches'
    <2>1. /\ req[w] # Idle /\ user_info \subseteq user_info'
          /\ tokens' = tokens
          /\ req[w].op \notin {"login", "mycount", "myfiles"}
      BY <1>8, OpOfStep
      DEF BrowsePicture, BrowseUrl, BrowsePv, At, tables
    <2>2. \/ \E code, more : Answer(w, code, more)
          \/ /\ UNCHANGED history
             /\ \E step : /\ step \notin Relying
                          /\ \/ Continue(w, step)
                             \/ \E seen : Goto(w, step, seen)
      BY <1>8 DEF BrowsePicture, BrowseUrl, BrowsePv, Relying
    <2> QED BY <2>1, <2>2, Uninvolved
  <1>9. ASSUME NEW w \in Workers, NEW op, NEW Json, NEW step,
               Begin(w, op, Json, step), step \notin Relying
        PROVE  TokensInv' /\ TokenVouches'
    <2>1. UNCHANGED <<user_info, tokens, issued>>
      BY <1>9 DEF Begin, tables, history
    <2>2. last' = last \/ last'.code # 0
      BY <1>9, BeginEffect DEF history
    <2>3. \A v \in Workers : req'[v] = req[v] \/ req'[v].at \notin Relying
      <3>1. CASE req' = req
        BY <3>1
      <3>2. CASE OthersStay(w) /\ \E in \in Json : req'[w] =
                     [op |-> op, at |-> step, in |-> in, seen |-> <<>>]
        <4>1. PICK in \in Json : req'[w] =
                     [op |-> op, at |-> step, in |-> in, seen |-> <<>>]
          BY <3>2
        <4>2. req'[w].at = step
          BY <4>1
        <4> QED BY <1>9, <3>2, <4>2 DEF OthersStay
      <3> QED BY <1>9, <3>1, <3>2, BeginEffect
    <2> QED BY <2>1, <2>2, <2>3, TokensSame, VouchesSame
  <1>10. ASSUME NEW w \in Workers, Api(w) PROVE TokensInv' /\ TokenVouches'
    <2>1. CASE ApiMyfiles(w)
      BY <2>1, Presented DEF ApiMyfiles, FileslistJson
    <2>2. CASE \/ ApiRegisterUser(w) \/ ApiUserLogin(w)
               \/ ApiSharefiles(w) \/ ApiSharepicture(w)
      BY <1>9, <2>2 DEF ApiRegisterUser, ApiUserLogin,
                        ApiSharefiles, ApiSharepicture, Relying
    <2> QED BY <1>10, <2>1, <2>2 DEF Api
  <1>11. CASE Expire \/ OtherRequests \/ Restart \/ UNCHANGED userVars
    <2>1. /\ user_info' = user_info /\ tokens' \subseteq tokens
          /\ issued' = issued /\ last' = last
          /\ \A v \in Workers : req'[v] = req[v] \/ req'[v] = Idle
      BY <1>11 DEF Expire, OtherRequests, Restart, tables, history, userVars
    <2> QED BY <2>1, TokensSame, VouchesSame
  <1>12. ASSUME NEW w \in Workers, SetToken(w) PROVE TokensInv' /\ TokenVouches'
    <2>1. CASE Answer(w, 1, 0) /\ UNCHANGED tokens
      BY <1>12, <2>1, Refused DEF SetToken
    <2>2. CASE \E more : Answer(w, 0, more)
      <3>1. ~ Answer(w, 1, 0)
        BY <2>2 DEF Answer
      <3> QED BY <1>12, <3>1, NewTokenStep
    <2> QED BY <1>12, <2>1, <2>2 DEF SetToken
  <1> QED
    BY <1>1, <1>2, <1>3, <1>4, <1>5, <1>6, <1>7, <1>8, <1>10, <1>11, <1>12
    DEF Next, Statement

-----------------------------------------------------------------------------
(* Views of shared pictures *)

\* Drawn strings stay drawn.
NextDrawn(url, run) ==
    /\ url \in Nat /\ run \in Nat
    /\ run < restarts' \/ (run = restarts' /\ url <= drawn')

LEMMA DrawnStays ==
    ASSUME CountersRight, CountersRight',
           \/ restarts' = restarts /\ drawn' >= drawn
           \/ restarts' = restarts + 1
    PROVE  \A url, run : Drawn(url, run) => NextDrawn(url, run)
  BY DEF Drawn, NextDrawn, CountersRight

\* One more view of one link.
LEMMA OneMoreView ==
    ASSUME NEW S, views \in Seq(S), NEW v \in S, views' = Append(views, v)
    PROVE  \A url, run :
              /\ Cardinality(ViewsOf(url, run)) \in Nat
              /\ Cardinality(ViewsOf(url, run)') =
                    IF v = <<url, run>> THEN Cardinality(ViewsOf(url, run)) + 1
                                        ELSE Cardinality(ViewsOf(url, run))
  <1> TAKE url, run
  <1> PICK n : n = Len(views)
    OBVIOUS
  <1>1. /\ n \in Nat /\ DOMAIN views = 1..n /\ DOMAIN views' = 1..(n + 1)
        /\ \A i \in 1..n : views'[i] = views[i]
        /\ views'[n + 1] = v
    OBVIOUS
  <1>2. IsFiniteSet(ViewsOf(url, run))
    <2>1. IsFiniteSet(1..n)
      BY <1>1, FS_Interval
    <2> QED BY <1>1, <2>1, FS_Subset DEF ViewsOf
  <1>3. Cardinality(ViewsOf(url, run)) \in Nat
    BY <1>2, FS_CardinalityType
  <1>4. CASE v = <<url, run>>
    <2>1. ViewsOf(url, run)' = ViewsOf(url, run) \cup {n + 1}
      BY <1>1, <1>4 DEF ViewsOf
    <2>2. n + 1 \notin ViewsOf(url, run)
      BY <1>1 DEF ViewsOf
    <2>3. Cardinality(ViewsOf(url, run) \cup {n + 1}) =
             Cardinality(ViewsOf(url, run)) + 1
      BY <1>2, <2>2, FS_AddElement
    <2> QED BY <1>3, <1>4, <2>1, <2>3
  <1>5. CASE v # <<url, run>>
    <2>1. \A i \in 1..(n + 1) : i \in 1..n \/ i = n + 1
      BY <1>1
    <2>2. ASSUME NEW i PROVE i \in ViewsOf(url, run)' <=> i \in ViewsOf(url, run)
      <3>1. i \in ViewsOf(url, run)' <=>
               i \in 1..(n + 1) /\ views'[i] = <<url, run>>
        BY <1>1 DEF ViewsOf
      <3>2. i \in ViewsOf(url, run) <=> i \in 1..n /\ views[i] = <<url, run>>
        BY <1>1 DEF ViewsOf
      <3>3. CASE i \in 1..n
        BY <1>1, <3>1, <3>2, <3>3
      <3>4. CASE i \notin 1..n
        BY <1>1, <1>5, <2>1, <3>1, <3>2, <3>4
      <3> QED BY <3>3, <3>4
    <2>3. ViewsOf(url, run)' = ViewsOf(url, run)
      BY <2>2
    <2> QED BY <1>3, <1>5, <2>3
  <1> QED BY <1>4, <1>5

\* A row has the views of its link, and no more of them than were answered or lost.
LEMMA CountedViews ==
    ASSUME ViewsInv, ViewsCounted, CountersRight, CountersRight', faults' >= faults
    PROVE  \A p \in share_picture_list :
              LET n == Cardinality(ViewsOf(p.url, p.run))
              IN  /\ n \in Nat /\ p.pv \in Nat /\ p.pv >= n
                  /\ restarts = 0 => p.pv <= n + faults /\ p.pv <= n + faults'
  <1> TAKE p \in share_picture_list
  <1> PICK n : n = Cardinality(ViewsOf(p.url, p.run))
    OBVIOUS
  <1>1. n \in Nat
    <2> PICK k : k = Len(views)
      OBVIOUS
    <2>1. k \in Nat /\ DOMAIN views = 1..k
      BY DEF ViewsInv
    <2>2. IsFiniteSet(ViewsOf(p.url, p.run))
      <3>1. IsFiniteSet(1..k)
        BY <2>1, FS_Interval
      <3> QED BY <2>1, <3>1, FS_Subset DEF ViewsOf
    <2> QED BY <2>2, FS_CardinalityType
  <1>2. p.pv >= n /\ (restarts = 0 => p.pv <= n + faults)
    BY DEF ViewsCounted, ViewsOf
  <1>3. p.pv \in Nat
    BY DEF ViewsInv
  <1>4. faults \in Nat /\ faults' \in Nat
    BY UserPagesAssumption DEF CountersRight
  <1>5. p.pv <= n + faults => p.pv <= n + faults'
    BY <1>1, <1>3, <1>4
  <1> QED BY <1>1, <1>2, <1>3, <1>5

\* ViewsCounted in the next state, when no more was answered.
LEMMA NextCounted ==
    ASSUME views' = views, restarts' = 0 => restarts = 0,
           \A p \in share_picture_list' :
              /\ p.pv >= Cardinality(ViewsOf(p.url, p.run))
              /\ restarts = 0 => p.pv <= Cardinality(ViewsOf(p.url, p.run)) + faults'
    PROVE  ViewsCounted'
  BY DEF ViewsCounted, ViewsOf

\* What the next state has to satisfy.
LEMMA NextViews ==
    ASSUME views' \in Seq(Nat \X Nat),
           \A i \in DOMAIN views' : NextDrawn(views'[i][1], views'[i][2]),
           \A p \in share_picture_list' :
              /\ p = [user |-> p.user, md5 |-> p.md5, url |-> p.url,
                      pv |-> p.pv, run |-> p.run]
              /\ NextDrawn(p.url, p.run) /\ p.pv \in Nat,
           \A v \in Workers : At(v, "url")' \/ At(v, "pv")' =>
              /\ req'[v].seen[1].url = req'[v].in.url
              /\ NextDrawn(req'[v].seen[1].url, req'[v].seen[1].run)
    PROVE  ViewsInv'
  BY DEF ViewsInv, Drawn, NextDrawn, In

\* A step that shows nobody a picture.
Showing == {"url", "pv"}

LEMMA ViewsSame ==
    ASSUME ViewsInv, ViewsCounted, CountersRight, CountersRight',
           faults' >= faults, share_picture_list' \subseteq share_picture_list, views' = views,
           \/ restarts' = restarts /\ drawn' >= drawn
           \/ restarts' = restarts + 1,
           \A v \in Workers : \/ req'[v] = req[v] \/ req'[v] = Idle
                              \/ req'[v].at \notin Showing
    PROVE  ViewsInv' /\ ViewsCounted'
  <1>1. \A url, run : Drawn(url, run) => NextDrawn(url, run)
    BY DrawnStays
  <1>2. /\ views' \in Seq(Nat \X Nat)
        /\ \A i \in DOMAIN views' : NextDrawn(views'[i][1], views'[i][2])
    BY <1>1 DEF ViewsInv
  <1>3. \A p \in share_picture_list' :
           /\ p = [user |-> p.user, md5 |-> p.md5, url |-> p.url, pv |-> p.pv,
                   run |-> p.run]
           /\ NextDrawn(p.url, p.run) /\ p.pv \in Nat
    BY <1>1 DEF ViewsInv
  <1>4. ASSUME NEW v \in Workers, At(v, "url")' \/ At(v, "pv")'
        PROVE  /\ req'[v].seen[1].url = req'[v].in.url
               /\ NextDrawn(req'[v].seen[1].url, req'[v].seen[1].run)
    <2>1. req'[v] = req[v] /\ (At(v, "url") \/ At(v, "pv"))
      BY <1>4 DEF At, Showing
    <2>2. /\ req[v].seen[1].url = req[v].in.url
          /\ Drawn(req[v].seen[1].url, req[v].seen[1].run)
      BY <2>1 DEF ViewsInv, In
    <2> QED BY <1>1, <2>1, <2>2
  <1>5. ViewsInv'
    BY <1>2, <1>3, <1>4, NextViews
  <1>6. ViewsCounted'
    <2>1. restarts' = 0 => restarts = 0
      BY DEF CountersRight
    <2> QED BY <2>1, CountedViews, NextCounted
  <1> QED BY <1>5, <1>6

\* Sharing a picture draws a link that nobody has seen in this run.
LEMMA ShareStep ==
    ASSUME ViewsInv, ViewsCounted, CountersRight, CountersRight',
           faults' >= faults, RequestsRight,
           NEW w \in Workers, SharePicture(w)
    PROVE  ViewsInv' /\ ViewsCounted'
  <1>1. /\ drawn' = drawn + 1 /\ restarts' = restarts
        /\ req[w].op = "share" /\ \E code, more : Answer(w, code, more)
    BY OpOfStep DEF SharePicture, Rest
  <1>2. views' = views /\ OthersStay(w) /\ req'[w] = Idle
    BY <1>1, AnswerHistory, AnswerEffect
  <1>3. CASE UNCHANGED share_picture_list
    BY <1>1, <1>2, <1>3, ViewsSame DEF OthersStay, CountersRight
  <1> DEFINE row == [user |-> In(w).user, md5 |-> In(w).md5, url |-> drawn',
                     pv |-> 0, run |-> restarts]
  <1>4. CASE share_picture_list' = share_picture_list \cup {row}
    <2> PICK p : p = row
      OBVIOUS
    <2>1. /\ p = [user |-> p.user, md5 |-> p.md5, url |-> p.url, pv |-> p.pv,
                  run |-> p.run]
          /\ p.pv = 0 /\ p.url = drawn + 1 /\ p.run = restarts
      BY <1>1
    <2> HIDE DEF row
    <2>2. \A url, run : Drawn(url, run) => NextDrawn(url, run)
      BY <1>1, DrawnStays DEF CountersRight
    <2>3. NextDrawn(p.url, p.run)
      BY <1>1, <2>1 DEF NextDrawn, CountersRight
    <2>4. ViewsInv'
      <3>1. /\ views' \in Seq(Nat \X Nat)
            /\ \A i \in DOMAIN views' : NextDrawn(views'[i][1], views'[i][2])
        BY <1>2, <2>2 DEF ViewsInv
      <3>2. \A q \in share_picture_list' :
               /\ q = [user |-> q.user, md5 |-> q.md5, url |-> q.url,
                       pv |-> q.pv, run |-> q.run]
               /\ NextDrawn(q.url, q.run) /\ q.pv \in Nat
        BY <1>4, <2>1, <2>2, <2>3 DEF ViewsInv
      <3>3. ASSUME NEW v \in Workers, At(v, "url")' \/ At(v, "pv")'
            PROVE  /\ req'[v].seen[1].url = req'[v].in.url
                   /\ NextDrawn(req'[v].seen[1].url, req'[v].seen[1].run)
        <4>1. req'[v] = req[v] /\ (At(v, "url") \/ At(v, "pv"))
          BY <1>2, <3>3 DEF At, OthersStay
        <4>2. /\ req[v].seen[1].url = req[v].in.url
              /\ Drawn(req[v].seen[1].url, req[v].seen[1].run)
          BY <4>1 DEF ViewsInv, In
        <4> QED BY <2>2, <4>1, <4>2
      <3> QED BY <3>1, <3>2, <3>3, NextViews
    <2>5. ViewsCounted'
      <3>1. Cardinality(ViewsOf(p.url, p.run)) = 0
        <4>1. ASSUME NEW i \in DOMAIN views PROVE views[i] # <<p.url, p.run>>
          <5>1. Drawn(views[i][1], views[i][2])
            BY DEF ViewsInv
          <5> QED BY <2>1, <5>1 DEF Drawn, CountersRight
        <4>2. ViewsOf(p.url, p.run) = {}
          BY <4>1 DEF ViewsOf
        <4> QED BY <4>2, FS_EmptySet
      <3>2. faults' \in Nat
        BY UserPagesAssumption DEF CountersRight
      <3>3. ASSUME NEW q \in share_picture_list'
            PROVE  /\ q.pv >= Cardinality(ViewsOf(q.url, q.run))
                   /\ restarts = 0 =>
                        q.pv <= Cardinality(ViewsOf(q.url, q.run)) + faults'
        <4>1. CASE q = p
          BY <2>1, <3>1, <3>2, <4>1
        <4>2. CASE q \in share_picture_list
          BY <4>2, CountedViews
        <4> QED BY <1>4, <4>1, <4>2
      <3> QED BY <1>1, <1>2, <3>3, NextCounted
    <2> QED BY <2>4, <2>5
  <1> QED BY <1>1, <1>3, <1>4 DEF SharePicture, InsertPicture

\* Looking a link up, and its file.
LEMMA LookStep ==
    ASSUME ViewsInv, ViewsCounted, CountersRight, CountersRight',
           faults' >= faults, RequestsRight,
           NEW w \in Workers, BrowsePicture(w) \/ BrowseUrl(w)
    PROVE  ViewsInv' /\ ViewsCounted'
  <1>1. /\ UNCHANGED <<share_picture_list, drawn, restarts>>
        /\ req[w] # Idle
    BY DEF BrowsePicture, BrowseUrl, tables, Rest, At
  <1>2. CASE Answer(w, 1, 0)
    <2>1. views' = views /\ OthersStay(w) /\ req'[w] = Idle
      BY <1>2, AnswerHistory, AnswerEffect
    <2> QED BY <1>1, <2>1, ViewsSame DEF OthersStay, CountersRight
  <1>3. ASSUME UNCHANGED history, OthersStay(w), NEW row,
               req'[w].in = req[w].in, req'[w].seen[1] = row,
               row.url = In(w).url, Drawn(row.url, row.run)
        PROVE  ViewsInv' /\ ViewsCounted'
    <2>1. views' = views
      BY <1>3 DEF history
    <2>2. \A url, run : Drawn(url, run) => NextDrawn(url, run)
      BY <1>1, DrawnStays DEF CountersRight
    <2>3. ASSUME NEW v \in Workers, At(v, "url")' \/ At(v, "pv")'
          PROVE  /\ req'[v].seen[1].url = req'[v].in.url
                 /\ NextDrawn(req'[v].seen[1].url, req'[v].seen[1].run)
      <3>1. CASE v = w
        BY <1>3, <2>2, <3>1 DEF In
      <3>2. CASE v # w
        <4>1. req'[v] = req[v] /\ (At(v, "url") \/ At(v, "pv"))
          BY <1>3, <2>3, <3>2 DEF At, OthersStay
        <4>2. /\ req[v].seen[1].url = req[v].in.url
              /\ Drawn(req[v].seen[1].url, req[v].seen[1].run)
          BY <4>1 DEF ViewsInv, In
        <4> QED BY <2>2, <4>1, <4>2
      <3> QED BY <3>1, <3>2
    <2>4. ViewsInv'
      <3>1. /\ views' \in Seq(Nat \X Nat)
            /\ \A i \in DOMAIN views' : NextDrawn(views'[i][1], views'[i][2])
        BY <2>1, <2>2 DEF ViewsInv
      <3>2. \A q \in share_picture_list' :
               /\ q = [user |-> q.user, md5 |-> q.md5, url |-> q.url,
                       pv |-> q.pv, run |-> q.run]
               /\ NextDrawn(q.url, q.run) /\ q.pv \in Nat
        BY <1>1, <2>2 DEF ViewsInv
      <3> QED BY <2>3, <3>1, <3>2, NextViews
    <2>5. ViewsCounted'
      BY <1>1, <2>1, CountedViews, NextCounted
    <2> QED BY <2>4, <2>5
  <1>4. CASE UNCHANGED history /\ \E p \in RowsOf(In(w).url) : Goto(w, "url", <<p>>)
    <2>1. PICK p \in share_picture_list : p.url = In(w).url /\ Goto(w, "url", <<p>>)
      BY <1>4 DEF RowsOf
    <2>2. /\ OthersStay(w)
          /\ req'[w] = [op |-> req[w].op, at |-> "url",
                        in |-> req[w].in, seen |-> <<p>>]
      BY <1>1, <2>1, GotoEffect
    <2>3. req'[w].in = req[w].in /\ req'[w].seen[1] = p
      BY <2>2
    <2>4. Drawn(p.url, p.run)
      BY DEF ViewsInv
    <2> QED BY <1>3, <1>4, <2>1, <2>2, <2>3, <2>4
  <1>5. CASE BrowseUrl(w) /\ UNCHANGED history /\ Continue(w, "pv")
    <2>1. /\ OthersStay(w)
          /\ req'[w] = [op |-> req[w].op, at |-> "pv",
                        in |-> req[w].in, seen |-> req[w].seen]
      BY <1>1, <1>5, ContinueEffect
    <2>2. req'[w].in = req[w].in /\ req'[w].seen[1] = req[w].seen[1]
      BY <2>1
    <2> PICK row : row = req[w].seen[1]
      OBVIOUS
    <2>3. row.url = In(w).url /\ Drawn(row.url, row.run)
      BY <1>5 DEF ViewsInv, BrowseUrl
    <2> QED BY <1>3, <1>5, <2>1, <2>2, <2>3
  <1> QED BY <1>2, <1>4, <1>5 DEF BrowsePicture, BrowseUrl

\* The row of a link with one more view.
LEMMA ViewedRow ==
    ASSUME NEW w, NEW p, p.pv \in Nat,
           p = [user |-> p.user, md5 |-> p.md5, url |-> p.url, pv |-> p.pv,
                run |-> p.run]
    PROVE  Viewed(p, w) = [user |-> p.user, md5 |-> p.md5, url |-> p.url,
                           pv |-> p.pv + 1, run |-> p.run]
  BY DEF Viewed

\* What the server counts is one more view in every row of the link.
OneMore(q, p, url) ==
    /\ q.url = p.url /\ q.run = p.run
    /\ q = [user |-> q.user, md5 |-> q.md5, url |-> q.url, pv |-> q.pv, run |-> q.run]
    /\ q.pv = IF p.url = url THEN p.pv + 1 ELSE p.pv

LEMMA CountedRows ==
    ASSUME ViewsInv, NEW w, CountView(w), NEW q \in share_picture_list'
    PROVE  \E p \in share_picture_list : OneMore(q, p, In(w).url)
  <1>1. \A p \in share_picture_list :
           /\ p = [user |-> p.user, md5 |-> p.md5, url |-> p.url,
                   pv |-> p.pv, run |-> p.run]
           /\ p.pv \in Nat
    BY DEF ViewsInv
  <1>2. CASE q \in share_picture_list \ RowsOf(In(w).url)
    BY <1>1, <1>2 DEF RowsOf, OneMore
  <1>3. CASE q \in {Viewed(p, w) : p \in RowsOf(In(w).url)}
    <2>1. PICK p \in share_picture_list : p.url = In(w).url /\ q = Viewed(p, w)
      BY <1>3 DEF RowsOf
    <2>2. q = [user |-> p.user, md5 |-> p.md5, url |-> p.url,
               pv |-> p.pv + 1, run |-> p.run]
      BY <1>1, <2>1, ViewedRow
    <2> QED BY <2>1, <2>2 DEF OneMore
  <1> QED BY <1>2, <1>3 DEF CountView

\* The views are counted though the answer of the statement is lost.
LEMMA LostViewStep ==
    ASSUME ViewsInv, ViewsCounted, CountersRight, CountersRight',
           faults' = faults + 1, RequestsRight, NEW w \in Workers,
           UNCHANGED <<drawn, restarts>>, req[w].op = "browse",
           Answer(w, 1, 0), CountView(w)
    PROVE  ViewsInv' /\ ViewsCounted'
  <1>1. views' = views /\ OthersStay(w) /\ req'[w] = Idle
    BY AnswerHistory, AnswerEffect
  <1>2. \A u, r : Drawn(u, r) => NextDrawn(u, r)
    BY DrawnStays DEF CountersRight
  <1>3. ViewsInv'
    <2>1. /\ views' \in Seq(Nat \X Nat)
          /\ \A i \in DOMAIN views' : NextDrawn(views'[i][1], views'[i][2])
      BY <1>1, <1>2 DEF ViewsInv
    <2>2. ASSUME NEW q \in share_picture_list'
          PROVE  /\ q = [user |-> q.user, md5 |-> q.md5, url |-> q.url,
                         pv |-> q.pv, run |-> q.run]
                 /\ NextDrawn(q.url, q.run) /\ q.pv \in Nat
      <3>1. PICK p \in share_picture_list : OneMore(q, p, In(w).url)
        BY CountedRows
      <3> QED BY <1>2, <3>1 DEF ViewsInv, OneMore
    <2>3. ASSUME NEW v \in Workers, At(v, "url")' \/ At(v, "pv")'
          PROVE  /\ req'[v].seen[1].url = req'[v].in.url
                 /\ NextDrawn(req'[v].seen[1].url, req'[v].seen[1].run)
      <3>1. req'[v] = req[v] /\ (At(v, "url") \/ At(v, "pv"))
        BY <1>1, <2>3 DEF At, OthersStay
      <3>2. /\ req[v].seen[1].url = req[v].in.url
            /\ Drawn(req[v].seen[1].url, req[v].seen[1].run)
        BY <3>1 DEF ViewsInv, In
      <3> QED BY <1>2, <3>1, <3>2
    <2> QED BY <2>1, <2>2, <2>3, NextViews
  <1>4. faults \in Nat /\ faults' >= faults
    BY DEF CountersRight
  <1>5. ASSUME NEW q \in share_picture_list'
        PROVE  /\ q.pv >= Cardinality(ViewsOf(q.url, q.run))
               /\ restarts = 0 =>
                    q.pv <= Cardinality(ViewsOf(q.url, q.run)) + faults'
    <2>1. PICK p \in share_picture_list : OneMore(q, p, In(w).url)
      BY CountedRows
    <2> PICK n : n = Cardinality(ViewsOf(p.url, p.run))
      OBVIOUS
    <2>2. /\ n \in Nat /\ p.pv \in Nat /\ p.pv >= n
          /\ restarts = 0 => p.pv <= n + faults
      BY <1>4, CountedViews
    <2>3. /\ n = Cardinality(ViewsOf(q.url, q.run))
          /\ q.pv = p.pv \/ q.pv = p.pv + 1
      BY <2>1 DEF OneMore
    <2>4. q.pv >= n /\ (restarts = 0 => q.pv <= n + (faults + 1))
      BY <1>4, <2>2, <2>3
    <2> QED BY <2>3, <2>4
  <1>6. ViewsCounted'
    BY <1>1, <1>5, NextCounted
  <1> QED BY <1>3, <1>6

\* Answering a view counts it in every row of its link.
LEMMA ViewStep ==
    ASSUME ViewsInv, ViewsCounted, CountersRight, CountersRight',
           faults' >= faults, RequestsRight,
           NEW w \in Workers, BrowsePv(w)
    PROVE  ViewsInv' /\ ViewsCounted'
  <1>1. /\ drawn' = drawn /\ restarts' = restarts /\ At(w, "pv")
        /\ req[w].op = "browse"
    BY OpOfStep DEF BrowsePv, Rest
  <1>2. CASE UNCHANGED share_picture_list /\ Answer(w, 1, 0)
    <2>1. views' = views /\ OthersStay(w) /\ req'[w] = Idle
      BY <1>2, AnswerHistory, AnswerEffect
    <2> QED BY <1>1, <1>2, <2>1, ViewsSame DEF OthersStay, CountersRight
  <1>3. CASE Answer(w, 0, req[w].seen[1].pv + 1) /\ CountView(w)
    <2> PICK url, run : url = req[w].seen[1].url /\ run = req[w].seen[1].run
      OBVIOUS
    <2>1. /\ OthersStay(w) /\ req'[w] = Idle
          /\ views' = Append(views, <<url, run>>)
      BY <1>1, <1>3, AnswerEffect DEF Answer
    <2>2. url = In(w).url /\ Drawn(url, run) /\ <<url, run>> \in Nat \X Nat
      BY <1>1 DEF ViewsInv, Drawn
    <2>3. \A u, r : Drawn(u, r) => NextDrawn(u, r)
      BY <1>1, DrawnStays DEF CountersRight
    <2>4. \A p \in share_picture_list :
             /\ p = [user |-> p.user, md5 |-> p.md5, url |-> p.url,
                     pv |-> p.pv, run |-> p.run]
             /\ NextDrawn(p.url, p.run) /\ p.pv \in Nat
      BY <2>3 DEF ViewsInv
    <2>5. ASSUME NEW q \in share_picture_list'
          PROVE  \E p \in share_picture_list : OneMore(q, p, url)
      BY <1>3, <2>2, CountedRows
    <2>6. ViewsInv'
      <3>1. views' \in Seq(Nat \X Nat)
        BY <2>1, <2>2 DEF ViewsInv
      <3>2. ASSUME NEW i \in DOMAIN views'
            PROVE  NextDrawn(views'[i][1], views'[i][2])
        <4>1. \/ i \in DOMAIN views /\ views'[i] = views[i]
              \/ views'[i] = <<url, run>>
          BY <2>1, <2>2 DEF ViewsInv
        <4>2. CASE i \in DOMAIN views /\ views'[i] = views[i]
          BY <2>3, <4>2 DEF ViewsInv
        <4>3. CASE views'[i] = <<url, run>>
          <5>1. views'[i][1] = url /\ views'[i][2] = run
            BY <4>3
          <5> QED BY <2>2, <2>3, <5>1
        <4> QED BY <4>1, <4>2, <4>3
      <3>3. ASSUME NEW q \in share_picture_list'
            PROVE  /\ q = [user |-> q.user, md5 |-> q.md5, url |-> q.url,
                           pv |-> q.pv, run |-> q.run]
                   /\ NextDrawn(q.url, q.run) /\ q.pv \in Nat
        <4>1. PICK p \in share_picture_list : OneMore(q, p, url)
          BY <2>5
        <4> QED BY <2>4, <4>1 DEF OneMore
      <3>4. ASSUME NEW v \in Workers, At(v, "url")' \/ At(v, "pv")'
            PROVE  /\ req'[v].seen[1].url = req'[v].in.url
                   /\ NextDrawn(req'[v].seen[1].url, req'[v].seen[1].run)
        <4>1. req'[v] = req[v] /\ (At(v, "url") \/ At(v, "pv"))
          BY <2>1, <3>4 DEF At, OthersStay
        <4>2. /\ req[v].seen[1].url = req[v].in.url
              /\ Drawn(req[v].seen[1].url, req[v].seen[1].run)
          BY <4>1 DEF ViewsInv, In
        <4> QED BY <2>3, <4>1, <4>2
      <3> QED BY <3>1, <3>2, <3>3, <3>4, NextViews
    <2>7. ViewsCounted'
      <3>1. \A u, r : /\ Cardinality(ViewsOf(u, r)) \in Nat
                      /\ Cardinality(ViewsOf(u, r)') =
                            IF <<url, run>> = <<u, r>>
                            THEN Cardinality(ViewsOf(u, r)) + 1
                            ELSE Cardinality(ViewsOf(u, r))
        <4> PICK S, v : S = Nat \X Nat /\ v = <<url, run>>
          OBVIOUS
        <4>1. /\ views \in Seq(S) /\ v \in S /\ views' = Append(views, v)
          BY <2>1, <2>2 DEF ViewsInv
        <4>2. \A u, r : /\ Cardinality(ViewsOf(u, r)) \in Nat
                        /\ Cardinality(ViewsOf(u, r)') =
                              IF v = <<u, r>>
                              THEN Cardinality(ViewsOf(u, r)) + 1
                              ELSE Cardinality(ViewsOf(u, r))
          BY ONLY <4>1, OneMoreView
        <4> QED BY <4>2
      <3>2. ASSUME NEW q \in share_picture_list'
            PROVE  /\ q.pv >= Cardinality(ViewsOf(q.url, q.run)')
                   /\ restarts' = 0 =>
                        q.pv <= Cardinality(ViewsOf(q.url, q.run)') + faults'
        <4>1. PICK p \in share_picture_list : OneMore(q, p, url)
          BY <2>5
        <4> PICK u, r, n : /\ u = p.url /\ r = p.run
                           /\ n = Cardinality(ViewsOf(u, r))
          OBVIOUS
        <4>2. /\ n \in Nat /\ p.pv \in Nat /\ p.pv >= n
              /\ restarts = 0 => p.pv <= n + faults'
          BY CountedViews
        <4>6. /\ q.url = u /\ q.run = r
              /\ q.pv = IF u = url THEN p.pv + 1 ELSE p.pv
          BY <4>1 DEF OneMore
        <4>3. Cardinality(ViewsOf(u, r)') =
                 IF url = u /\ run = r THEN n + 1 ELSE n
          BY <3>1
        <4>4. restarts = 0 => (url = u => run = r)
          <5>1. Drawn(u, r)
            BY DEF ViewsInv
          <5> QED BY <2>2, <5>1 DEF Drawn, CountersRight
        <4>5. /\ q.pv >= Cardinality(ViewsOf(u, r)')
              /\ restarts' = 0 => q.pv <= Cardinality(ViewsOf(u, r)') + faults'
          <5>1. faults' \in Nat
            BY UserPagesAssumption DEF CountersRight
          <5>2. CASE url = u /\ run = r
            BY <1>1, <4>2, <4>3, <4>6, <5>1, <5>2
          <5>3. CASE url # u
            BY <1>1, <4>2, <4>3, <4>6, <5>1, <5>3
          <5>4. CASE url = u /\ run # r
            <6>1. restarts # 0
              BY <4>4, <5>4
            <6> QED BY <1>1, <4>2, <4>3, <4>6, <5>1, <5>4, <6>1
          <5> QED BY <5>2, <5>3, <5>4
        <4> QED BY <4>5, <4>6
      <3> QED BY <3>2 DEF ViewsCounted, ViewsOf
    <2> QED BY <2>6, <2>7
  <1>4. CASE Fails("pv") /\ Answer(w, 1, 0) /\ CountView(w)
    BY <1>1, <1>4, LostViewStep DEF Fails
  <1> QED BY <1>2, <1>3, <1>4 DEF BrowsePv

\* A request that shows nothing and answers no view.
LEMMA Unshown ==
    ASSUME ViewsInv, ViewsCounted, CountersRight, CountersRight',
           faults' >= faults, RequestsRight,
           NEW w \in Workers, UNCHANGED <<share_picture_list, drawn, restarts>>,
           req[w] # Idle, req[w].op # "browse",
           \/ \E code, more : Answer(w, code, more)
           \/ /\ UNCHANGED history
              /\ \E step : /\ step \notin Showing
                           /\ \/ Continue(w, step)
                              \/ \E seen : Goto(w, step, seen)
    PROVE  ViewsInv' /\ ViewsCounted'
  <1>1. /\ views' = views /\ OthersStay(w)
        /\ req'[w] = Idle \/ req'[w].at \notin Showing
    <2>1. CASE \E code, more : Answer(w, code, more)
      BY <2>1, AnswerHistory, AnswerEffect
    <2>2. CASE /\ UNCHANGED history
               /\ \E step : /\ step \notin Showing
                            /\ \/ Continue(w, step)
                               \/ \E seen : Goto(w, step, seen)
      <3>1. PICK step : /\ step \notin Showing
                        /\ \/ Continue(w, step)
                           \/ \E seen : Goto(w, step, seen)
        BY <2>2
      <3> QED BY <2>2, <3>1, GoEffect DEF history
    <2> QED BY <2>1, <2>2
  <1> QED BY <1>1, ViewsSame DEF OthersStay, CountersRight

\* Every step keeps the views counted.
LEMMA ViewsStep ==
    ASSUME ViewsInv, ViewsCounted, CountersRight, CountersRight',
           faults' >= faults, RequestsRight,
           [Next]_userVars
    PROVE  ViewsInv' /\ ViewsCounted'
  <1>1. ASSUME NEW w \in Workers, Select(w) \/ Prepare(w) \/ InsertUser(w)
        PROVE  ViewsInv' /\ ViewsCounted'
    <2>1. /\ UNCHANGED <<share_picture_list, drawn, restarts>>
          /\ req[w] # Idle /\ req[w].op # "browse"
      BY <1>1, OpOfStep
      DEF Select, Prepare, InsertUser, At, tables, Rest
    <2>2. \/ \E code, more : Answer(w, code, more)
          \/ /\ UNCHANGED history
             /\ \E step : /\ step \notin Showing
                          /\ \/ Continue(w, step)
                             \/ \E seen : Goto(w, step, seen)
      BY <1>1 DEF Select, Prepare, InsertUser, Showing
    <2> QED BY <2>1, <2>2, Unshown
  <1>2. ASSUME NEW w \in Workers, VerifyUserPassword(w) \/ SetToken(w)
        PROVE  ViewsInv' /\ ViewsCounted'
    <2>1. /\ UNCHANGED <<share_picture_list, drawn, restarts>>
          /\ req[w] # Idle /\ req[w].op # "browse"
      BY <1>2, OpOfStep
      DEF VerifyUserPassword, SetToken, At, tables, Rest
    <2>2. \/ \E code, more : Answer(w, code, more)
          \/ /\ UNCHANGED history
             /\ \E step : /\ step \notin Showing
                          /\ \/ Continue(w, step)
                             \/ \E seen : Goto(w, step, seen)
      BY <1>2 DEF VerifyUserPassword, SetToken, Showing
    <2> QED BY <2>1, <2>2, Unshown
  <1>3. ASSUME NEW w \in Workers, VerifyToken(w) \/ UserFilesCount(w) \/ UserFileList(w)
        PROVE  ViewsInv' /\ ViewsCounted'
    <2>1. /\ UNCHANGED <<share_picture_list, drawn, restarts>>
          /\ req[w] # Idle /\ req[w].op # "browse"
      BY <1>3, OpOfStep
      DEF VerifyToken, UserFilesCount, UserFileList, At, tables, Rest
    <2>2. \/ \E code, more : Answer(w, code, more)
          \/ /\ UNCHANGED history
             /\ \E step : /\ step \notin Showing
                          /\ \/ Continue(w, step)
                             \/ \E seen : Goto(w, step, seen)
      BY <1>3 DEF VerifyToken, UserFilesCount, UserFileList, Showing
    <2> QED BY <2>1, <2>2, Unshown
  <1>4. ASSUME NEW w \in Workers, SharefilesCount(w) \/ ShareFilelist(w)
        PROVE  ViewsInv' /\ ViewsCounted'
    <2>1. /\ UNCHANGED <<share_picture_list, drawn, restarts>>
          /\ req[w] # Idle /\ req[w].op # "browse"
      BY <1>4, OpOfStep
      DEF SharefilesCount, ShareFilelist, At, tables, Rest
    <2>2. \/ \E code, more : Answer(w, code, more)
          \/ /\ UNCHANGED history
             /\ \E step : /\ step \notin Showing
                          /\ \/ Continue(w, step)
                             \/ \E seen : Goto(w, step, seen)
      BY <1>4 DEF SharefilesCount, ShareFilelist, Showing
    <2> QED BY <2>1, <2>2, Unshown
  <1>5. ASSUME NEW w \in Workers, SharePicturesCount(w) \/ SharePicturesList(w)
        PROVE  ViewsInv' /\ ViewsCounted'
    <2>1. /\ UNCHANGED <<share_picture_list, drawn, restarts>>
          /\ req[w] # Idle /\ req[w].op # "browse"
      BY <1>5, OpOfStep
      DEF SharePicturesCount, SharePicturesList, At, tables, Rest
    <2>2. \/ \E code, more : Answer(w, code, more)
          \/ /\ UNCHANGED history
             /\ \E step : /\ step \notin Showing
                          /\ \/ Continue(w, step)
                             \/ \E seen : Goto(w, step, seen)
      BY <1>5 DEF SharePicturesCount, SharePicturesList, Showing
    <2> QED BY <2>1, <2>2, Unshown
  <1>6. ASSUME NEW w \in Workers, CancelPicture(w)
        PROVE  ViewsInv' /\ ViewsCounted'
    <2>1. /\ share_picture_list' \subseteq share_picture_list
          /\ UNCHANGED <<drawn, restarts>>
          /\ \E code, more : Answer(w, code, more)
          /\ req[w].op = "cancel"
      BY <1>6, OpOfStep DEF CancelPicture, DropPicture, Rest
    <2>2. views' = views /\ OthersStay(w) /\ req'[w] = Idle
      BY <2>1, AnswerHistory, AnswerEffect
    <2> QED BY <2>1, <2>2, ViewsSame DEF OthersStay, CountersRight
  <1>7. ASSUME NEW w \in Workers, NEW op, NEW Json, NEW step,
               Begin(w, op, Json, step), step \notin Showing
        PROVE  ViewsInv' /\ ViewsCounted'
    <2>1. UNCHANGED <<share_picture_list, views, drawn, restarts>>
      BY <1>7 DEF Begin, tables, history
    <2>2. ASSUME NEW v \in Workers
          PROVE  req'[v] = req[v] \/ req'[v].at \notin Showing
      <3>1. CASE req' = req
        BY <3>1
      <3>2. CASE OthersStay(w) /\ \E in \in Json : req'[w] =
                     [op |-> op, at |-> step, in |-> in, seen |-> <<>>]
        <4>1. PICK in \in Json : req'[w] =
                     [op |-> op, at |-> step, in |-> in, seen |-> <<>>]
          BY <3>2
        <4>2. req'[w].at = step
          BY <4>1
        <4> QED BY <1>7, <3>2, <4>2 DEF OthersStay
      <3> QED BY <1>7, <3>1, <3>2, BeginEffect
    <2> QED BY <2>1, <2>2, ViewsSame DEF CountersRight
  <1>8. ASSUME NEW w \in Workers, Api(w) PROVE ViewsInv' /\ ViewsCounted'
    <2>1. CASE ApiRegisterUser(w) \/ ApiUserLogin(w) \/ ApiMyfiles(w)
      BY <1>7, <2>1 DEF ApiRegisterUser, ApiUserLogin, ApiMyfiles, Showing
    <2>2. CASE ApiSharefiles(w)
      <3>1. "sharefiles count" \notin Showing
        BY DEF Showing
      <3>2. CASE Begin(w, "sharecount", ShareFileslistJson, "sharefiles count")
        BY <1>7, <3>1, <3>2
      <3>3. CASE Begin(w, "sharefiles", ShareFileslistJson, "sharefiles count")
        BY <1>7, <3>1, <3>3
      <3> QED BY <2>2, <3>2, <3>3 DEF ApiSharefiles
    <2>3. CASE ApiSharepicture(w)
      <3>1. {"share", "picture", "pictures count", "cancel"} \cap Showing = {}
        BY DEF Showing
      <3>2. CASE \/ Begin(w, "share", SharePictureJson, "share")
                 \/ Begin(w, "browse", BrowsePictureJson, "picture")
        BY <1>7, <3>1, <3>2
      <3>3. CASE \/ Begin(w, "pictures", PictureListJson, "pictures count")
                 \/ Begin(w, "cancel", CancelPictureJson, "cancel")
        BY <1>7, <3>1, <3>3
      <3> QED BY <2>3, <3>2, <3>3 DEF ApiSharepicture
    <2> QED BY <1>8, <2>1, <2>2, <2>3 DEF Api
  <1>9. CASE Expire \/ OtherRequests \/ Restart \/ UNCHANGED userVars
    <2>1. /\ share_picture_list' = share_picture_list /\ views' = views
          /\ \A v \in Workers : req'[v] = req[v] \/ req'[v] = Idle
          /\ \/ restarts' = restarts /\ drawn' = drawn
             \/ restarts' = restarts + 1
      BY <1>9 DEF Expire, OtherRequests, Restart, Rest, tables, history, userVars
    <2> QED BY <2>1, ViewsSame DEF CountersRight
  <1> QED
    BY <1>1, <1>2, <1>3, <1>4, <1>5, <1>6, <1>8, <1>9, ShareStep, LookStep,
       ViewStep
    DEF Next, Statement

-----------------------------------------------------------------------------
(* The theorems *)

LEMMA PagesInit == Init => PagesInv
  <1> SUFFICES ASSUME Init PROVE PagesInv
    OBVIOUS
  <1>1. CountersRight /\ ListsRight
    BY UserPagesAssumption DEF Init, CountersRight, ListsRight
  <1>2. \A w \in Workers : req[w] = Idle
    BY DEF Init
  <1>3. RequestsRight
    BY <1>2 DEF Init, RequestsRight
  <1>4. UsersInv
    BY DEF Init, UsersInv
  <1>5. TokensInv /\ TokenVouches
    BY <1>2, FS_EmptySet DEF Init, TokensInv, Backed, TokenVouches, At, Idle
  <1>6. ViewsInv /\ ViewsCounted
    BY <1>2, EmptySeq DEF Init, ViewsInv, ViewsCounted, At
  <1> QED BY <1>1, <1>3, <1>4, <1>5, <1>6 DEF PagesInv

\* What the requests about users and pages preserve: every request is at a
\* step of its operation, user_info has unique keys, a token comes from a
\* login with a password that is right, and what is drawn and seen is counted.
THEOREM PagesInductive == Spec => []PagesInv
  <1>1. PagesInv /\ [Next]_userVars => PagesInv'
    <2> SUFFICES ASSUME PagesInv, [Next]_userVars PROVE PagesInv'
      OBVIOUS
    <2> USE DEF PagesInv
    <2>1. CountersRight' /\ faults' >= faults
      BY CountersStep
    <2>2. RequestsRight' /\ ListsRight'
      BY RequestsStep, ListsStep
    <2>3. UsersInv'
      BY <2>1, UsersStep
    <2>4. TokensInv' /\ TokenVouches'
      BY TokensStep
    <2>5. ViewsInv' /\ ViewsCounted'
      BY <2>1, ViewsStep
    <2> QED BY <2>1, <2>2, <2>3, <2>4, <2>5
  <1> QED BY <1>1, PagesInit, PTL DEF Spec

\* Registration: however many requests for a name or a nick name run at the
\* same time, at most one row is inserted, and no more of them are answered
\* with 0 than that row and the statements that could not be prepared explain.
THEOREM RegisteredRight == Spec => []RegisteredOnce
  <1>1. PagesInv => RegisteredOnce
    <2> SUFFICES ASSUME PagesInv PROVE RegisteredOnce
      OBVIOUS
    <2>1. TypeOK
      <3>1. ASSUME NEW t \in tokens
            PROVE  t[1] \in 1..Cardinality(issued) /\ t[2] \in Names
        BY DEF PagesInv, TokensInv, Vouched
      <3>2. \A f \in user_file_list : f[2] \in file_info
        BY DEF PagesInv, ListsRight
      <3> QED BY <3>1, <3>2
              DEF PagesInv, TypeOK, UsersInv, ListsRight, CountersRight
    <2>2. ASSUME NEW n \in Names PROVE registered[n] <= 1 + faults
      BY DEF PagesInv, UsersInv, CountersRight
    <2>3. ASSUME NEW S \in SUBSET user_info, \A r, s \in S : r = s
          PROVE  Cardinality(S) <= 1
      <3>1. CASE S = {}
        BY <3>1, FS_EmptySet
      <3>2. CASE S # {}
        <4>1. PICK r \in S : TRUE
          BY <3>2
        <4>2. S = {r}
          BY <2>3, <4>1
        <4>3. Cardinality({r}) = 1
          BY FS_Singleton
        <4> QED BY <4>2, <4>3
      <3> QED BY <3>1, <3>2
    <2>4. ASSUME NEW n \in Names
          PROVE  /\ Cardinality({r \in user_info : r.user = n}) <= 1
                 /\ Cardinality({r \in user_info : r.nick = n}) <= 1
      BY <2>3 DEF PagesInv, UsersInv
    <2> QED BY <2>1, <2>2, <2>4 DEF RegisteredOnce
  <1> QED BY <1>1, PagesInductive, PTL

\* Tokens: VerifyToken lets nobody see the files of a user who has a name, but
\* with a token that a login with the right password issued to that user and
\* that Redis had when the request came.
THEOREM TokensRight == Spec => []TokenVouches
  <1>1. PagesInv => TokenVouches
    BY DEF PagesInv
  <1> QED BY <1>1, PagesInductive, PTL

\* Views: "pv = pv + 1" on the server loses no view of a picture, however
\* many browse it at once, and counts none that was not answered but those
\* whose answer was lost.
THEOREM ViewsRight == Spec => []ViewsCounted
  <1>1. PagesInv => ViewsCounted
    BY DEF PagesInv
  <1> QED BY <1>1, PagesInductive, PTL
=============================================================================
