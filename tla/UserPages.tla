------------------------------ MODULE UserPages ------------------------------
(***************************************************************************)
(* The requests about users and their pages: register, login, "my files",  *)
(* the share list and shared pictures.  Each SQL statement and each Redis  *)
(* command is one step; any of them may fail (Faults says which), and a    *)
(* statement that changes a table may have been executed when its answer   *)
(* is lost.  Files and shares come and go through the requests of FileHub: *)
(* Publish and Withdraw stand for them.                                    *)
(*                                                                         *)
(* The strings of RandomString come from rand(), which nobody seeds: they  *)
(* are numbered in the order drawn since the process was started, so a     *)
(* restart draws the same ones again.                                      *)
(***************************************************************************)
EXTENDS Naturals, Sequences, FiniteSets

CONSTANTS
    Workers,        \* worker threads
    Names,          \* user and nick names
    Passwords,
    Files,          \* md5 sums
    Wanted,         \* the operations requests may ask for
    Faults,         \* the statements that may fail
    MaxFaults,
    MaxRequests,
    MaxRestarts

ASSUME UserPagesAssumption ==
    /\ MaxFaults \in Nat /\ MaxRequests \in Nat /\ MaxRestarts \in Nat
    /\ Faults \subseteq {"select", "prepare", "insert", "password", "cache", "setex", "get",
                         "count", "rows", "share", "picture", "url", "pv", "cancel"}

VARIABLES
    user_info,          \* rows of user_info
    tokens,             \* Redis: <<token, user>>
    share_picture_list, \* rows of share_picture_list
    file_info,          \* md5 sums with a row in file_info
    user_file_list,     \* <<user, md5>> with a row in user_file_list
    share_file_list,    \* <<user, md5>> with a row in share_file_list
    req,                \* the request each worker handles
    last,               \* the request answered last, with its answer
    issued,             \* history: <<token, user, password>> of answered logins
    registered,         \* history: registrations answered with 0, by name
    views,              \* history: <<url, run>> of browses answered with 0, counted
    drawn,              \* strings drawn from rand() since the start
    faults, requests, restarts

files == <<file_info, user_file_list, share_file_list>>
tables == <<user_info, tokens, share_picture_list, files>>
history == <<last, issued, registered, views>>
userVars == <<tables, req, history, drawn, faults, requests, restarts>>

Idle == [op |-> "none"]

Init ==
    /\ user_info = {} /\ tokens = {} /\ share_picture_list = {}
    /\ file_info = {} /\ user_file_list = {} /\ share_file_list = {}
    /\ req = [w \in Workers |-> Idle]
    /\ last = Idle /\ issued = {} /\ registered = [n \in Names |-> 0] /\ views = <<>>
    /\ drawn = 0 /\ faults = 0 /\ requests = 0 /\ restarts = 0

-----------------------------------------------------------------------------
(* What the JSON of a request holds; token 0 is one never issued.  "" is a user
   name like others.  owners is history: whose token Redis says it is
   when the request comes. *)
NoName == ""
Token == {i[1] : i \in issued} \cup {0}
Urlmd5 == {p.url : p \in share_picture_list}
RegisterJson == [user : Names, nick : Names, pwd : Passwords]
LoginJson == [user : Names, pwd : Passwords]
Owners(k) == {n \in Names : <<k, n>> \in tokens}
CountJson == {[user |-> n, token |-> k, owners |-> Owners(k)] : n \in Names, k \in Token}
FileslistJson == CountJson
ShareFileslistJson == [start : {0}]
SharePictureJson == [user : Names, md5 : Files]
BrowsePictureJson == [url : Urlmd5]
PictureListJson == [user : Names]
CancelPictureJson == [user : Names, url : Urlmd5]

(* A worker takes a request; one whose JSON lacks something is answered 1 at once.
   The count of shared files needs none. *)
Begin(w, op, Json, step) ==
    /\ op \in Wanted
    /\ requests' = requests + 1
    /\ \/ /\ \E in \in Json : req' = [req EXCEPT ![w] = [op |-> op, at |-> step, in |-> in, seen |-> <<>>]]
          /\ UNCHANGED history
       \/ /\ op # "sharecount"
          /\ last' = [op |-> op, in |-> 0, code |-> 1, more |-> 0]
          /\ UNCHANGED <<req, issued, registered, views>>
    /\ UNCHANGED <<tables, drawn, faults, restarts>>

Free(w) == req[w] = Idle /\ requests < MaxRequests
ApiRegisterUser(w) == Free(w) /\ Begin(w, "register", RegisterJson, "select")
ApiUserLogin(w) == Free(w) /\ Begin(w, "login", LoginJson, "password")
ApiMyfiles(w) ==
    /\ Free(w)
    /\ \/ Begin(w, "mycount", CountJson, "get")
       \/ Begin(w, "myfiles", FileslistJson, "get")
ApiSharefiles(w) ==
    /\ Free(w)
    /\ \/ Begin(w, "sharecount", ShareFileslistJson, "sharefiles count")
       \/ Begin(w, "sharefiles", ShareFileslistJson, "sharefiles count")
ApiSharepicture(w) ==
    /\ Free(w)
    /\ \/ Begin(w, "share", SharePictureJson, "share")
       \/ Begin(w, "browse", BrowsePictureJson, "picture")
       \/ Begin(w, "pictures", PictureListJson, "pictures count")
       \/ Begin(w, "cancel", CancelPictureJson, "cancel")

At(w, step) == req[w] # Idle /\ req[w].at = step
In(w) == req[w].in

(* A statement fails, and is then counted, or does not. *)
Fails(step) == step \in Faults /\ faults < MaxFaults /\ faults' = faults + 1
Works == UNCHANGED faults

Goto(w, step, seen) == req' = [req EXCEPT ![w].at = step, ![w].seen = seen]
Continue(w, step) == req' = [req EXCEPT ![w].at = step]
Answer(w, code, more) ==
    LET r == req[w]
    IN  /\ last' = [op |-> r.op, in |-> r.in, code |-> code, more |-> more]
        /\ req' = [req EXCEPT ![w] = Idle]
        /\ issued' = IF r.op = "login" /\ code = 0
                     THEN issued \cup {<<more, r.in.user, r.in.pwd>>} ELSE issued
        /\ registered' = IF r.op = "register" /\ code = 0
                         THEN [registered EXCEPT ![r.in.user] = @ + 1] ELSE registered
        /\ views' = IF r.op = "browse" /\ code = 0
                    THEN Append(views, <<r.seen[1].url, r.seen[1].run>>) ELSE views
Rest == UNCHANGED <<requests, restarts>>

-----------------------------------------------------------------------------
(* registerUser: a failed query counts as "not there". *)
Select(w) ==
    /\ At(w, "select")
    /\ \/ Works /\ (\E r \in user_info : r.user = In(w).user) /\ Answer(w, 2, 0)
       \/ Works /\ ~ (\E r \in user_info : r.user = In(w).user)
            /\ Continue(w, "prepare") /\ UNCHANGED history
       \/ Fails("select") /\ Continue(w, "prepare") /\ UNCHANGED history
    /\ UNCHANGED <<tables, drawn>> /\ Rest

(* A statement that cannot be prepared leaves ret at 0. *)
Prepare(w) ==
    /\ At(w, "prepare")
    /\ \/ Works /\ Continue(w, "insert") /\ UNCHANGED history
       \/ Fails("prepare") /\ Answer(w, 0, 0)
    /\ UNCHANGED <<tables, drawn>> /\ Rest

(* user_name and nick_name are unique keys. *)
Taken(in) == \E r \in user_info : r.user = in.user \/ r.nick = in.nick
NewUser(in) == [user |-> in.user, nick |-> in.nick, pwd |-> in.pwd, id |-> Cardinality(user_info)]

\* Mutant: the unique keys are missing.
InsertUserTwice(w) ==
    /\ At(w, "insert")
    /\ Works /\ user_info' = user_info \cup {NewUser(In(w))}
    /\ Answer(w, 0, 0)
    /\ UNCHANGED <<tokens, share_picture_list, files, drawn>> /\ Rest

InsertUser(w) ==
    /\ At(w, "insert")
    /\ \/ Works /\ ~ Taken(In(w)) /\ Answer(w, 0, 0)
            /\ user_info' = user_info \cup {NewUser(In(w))}
       \/ Works /\ Taken(In(w)) /\ Answer(w, 1, 0) /\ UNCHANGED user_info
       \/ /\ Fails("insert") /\ Answer(w, 1, 0)
          /\ \/ UNCHANGED user_info
             \/ ~ Taken(In(w)) /\ user_info' = user_info \cup {NewUser(In(w))}
    /\ UNCHANGED <<tokens, share_picture_list, files, drawn>> /\ Rest

-----------------------------------------------------------------------------
(* verifyUserPassword. *)
VerifyUserPassword(w) ==
    LET right == \E r \in user_info : r.user = In(w).user /\ r.pwd = In(w).pwd
    IN  /\ At(w, "password")
        /\ \/ Works /\ right /\ Continue(w, "setex") /\ UNCHANGED history
           \/ Works /\ ~ right /\ Answer(w, 1, 0)
           \/ Fails("password") /\ Answer(w, 1, 0)
        /\ UNCHANGED <<tables, drawn>> /\ Rest

(* setToken: a new UUID; what SETEX answers is not looked at, but without a
   connection to Redis the login fails. *)
NewToken == 1 + Cardinality(issued)

SetToken(w) ==
    /\ At(w, "setex")
    /\ \/ Works /\ tokens' = tokens \cup {<<NewToken, In(w).user>>} /\ Answer(w, 0, NewToken)
       \/ Fails("setex") /\ UNCHANGED tokens /\ Answer(w, 0, NewToken)
       \/ Fails("cache") /\ UNCHANGED tokens /\ Answer(w, 1, 0)
    /\ UNCHANGED <<user_info, share_picture_list, files, drawn>> /\ Rest

(* Redis drops a token after 86400 seconds. *)
Expire ==
    /\ \E t \in tokens : tokens' = tokens \ {t}
    /\ UNCHANGED <<user_info, share_picture_list, files, req, history, drawn, faults>> /\ Rest

\* Mutant: any token will do.
VerifyTokenExists(w) ==
    LET right == \E t \in tokens : t[1] = In(w).token
    IN  /\ At(w, "get") /\ Works
        /\ \/ right /\ Continue(w, "files count") /\ UNCHANGED history
           \/ ~ right /\ Answer(w, 1, 0)
        /\ UNCHANGED <<tables, drawn>> /\ Rest

(* VerifyToken: GET gives "" for a token that is not there, and when it fails; that
   is compared with the user name all the same. *)
VerifyToken(w) ==
    LET there == \E t \in tokens : t[1] = In(w).token
        right == IF there THEN <<In(w).token, In(w).user>> \in tokens ELSE In(w).user = NoName
    IN  /\ At(w, "get")
        /\ \/ Works /\ right /\ Continue(w, "files count") /\ UNCHANGED history
           \/ Works /\ ~ right /\ Answer(w, 1, 0)
           \/ /\ Fails("get") /\ In(w).user = NoName
              /\ Continue(w, "files count") /\ UNCHANGED history
           \/ Fails("get") /\ In(w).user # NoName /\ Answer(w, 1, 0)
           \/ Fails("cache") /\ Answer(w, 1, 0)
        /\ UNCHANGED <<tables, drawn>> /\ Rest

-----------------------------------------------------------------------------
(* The three lists: the number of rows, then the rows joined with file_info.  A
   failed list of pictures is answered by an object without a code. *)
Nothing == 9
MyFiles(w) == {f \in user_file_list : f[1] = In(w).user}
UserFilesCount(w) ==
    /\ At(w, "files count")
    /\ \/ /\ Works /\ (req[w].op = "mycount" \/ MyFiles(w) = {})
          /\ Answer(w, 0, Cardinality(MyFiles(w)))
       \/ /\ Works /\ req[w].op = "myfiles" /\ MyFiles(w) # {}
          /\ Goto(w, "files", <<Cardinality(MyFiles(w))>>) /\ UNCHANGED history
       \/ Fails("count") /\ Answer(w, 1, 0)
    /\ UNCHANGED <<tables, drawn>> /\ Rest
UserFileList(w) ==
    /\ At(w, "files")
    /\ \/ Works /\ Answer(w, 0, {f \in MyFiles(w) : f[2] \in file_info})
       \/ Fails("rows") /\ Answer(w, 1, {})
    /\ UNCHANGED <<tables, drawn>> /\ Rest

SharefilesCount(w) ==
    /\ At(w, "sharefiles count")
    /\ \/ Works /\ req[w].op = "sharecount" /\ Answer(w, 0, Cardinality(share_file_list))
       \/ Works /\ req[w].op = "sharefiles"
            /\ Goto(w, "sharefiles", <<Cardinality(share_file_list)>>) /\ UNCHANGED history
       \/ Fails("count") /\ Answer(w, 1, 0)
    /\ UNCHANGED <<tables, drawn>> /\ Rest
ShareFilelist(w) ==
    /\ At(w, "sharefiles")
    /\ \/ Works /\ Answer(w, 0, {f \in share_file_list : f[2] \in file_info})
       \/ Fails("rows") /\ Answer(w, 1, {})
    /\ UNCHANGED <<tables, drawn>> /\ Rest

MyPictures(w) == {p \in share_picture_list : p.user = In(w).user}
SharePicturesCount(w) ==
    /\ At(w, "pictures count")
    /\ \/ Works /\ Goto(w, "pictures", <<Cardinality(MyPictures(w))>>) /\ UNCHANGED history
       \/ Fails("count") /\ Answer(w, Nothing, {})
    /\ UNCHANGED <<tables, drawn>> /\ Rest
SharePicturesList(w) ==
    /\ At(w, "pictures")
    /\ \/ Works /\ Answer(w, 0, {p \in MyPictures(w) : p.md5 \in file_info})
       \/ Fails("rows") /\ Answer(w, Nothing, {})
    /\ UNCHANGED <<tables, drawn>> /\ Rest

(* Uploads, shares and deletes of FileHub, as far as the lists see them. *)
Publish(n, f) ==
    /\ <<n, f>> \notin user_file_list
    /\ file_info' = file_info \cup {f}
    /\ user_file_list' = user_file_list \cup {<<n, f>>}
    /\ UNCHANGED share_file_list
ShareFile(n, f) ==
    /\ <<n, f>> \in user_file_list \ share_file_list
    /\ share_file_list' = share_file_list \cup {<<n, f>>}
    /\ UNCHANGED <<file_info, user_file_list>>
Withdraw(n, f) ==
    /\ <<n, f>> \in user_file_list
    /\ user_file_list' = user_file_list \ {<<n, f>>}
    /\ share_file_list' = share_file_list \ {<<n, f>>}
    /\ file_info' = {g \in file_info : \E m \in Names : <<m, g>> \in user_file_list'}
OtherRequests ==
    /\ \E n \in Names, f \in Files : Publish(n, f) \/ ShareFile(n, f) \/ Withdraw(n, f)
    /\ UNCHANGED <<user_info, tokens, share_picture_list, req, history, drawn, faults>> /\ Rest

-----------------------------------------------------------------------------
(* handleSharePicture: whether there is such a file is not asked. *)
InsertPicture(w) ==
    share_picture_list' = share_picture_list
        \cup {[user |-> In(w).user, md5 |-> In(w).md5, url |-> drawn', pv |-> 0, run |-> restarts]}
SharePicture(w) ==
    /\ At(w, "share")
    /\ drawn' = drawn + 1
    /\ \/ Works /\ Answer(w, 0, drawn') /\ InsertPicture(w)
       \/ Fails("share") /\ Answer(w, 1, 0) /\ (UNCHANGED share_picture_list \/ InsertPicture(w))
    /\ UNCHANGED <<user_info, tokens, files>> /\ Rest

(* handleBrowsePicture: the row, the file's url, then one more view. *)
RowsOf(url) == {p \in share_picture_list : p.url = url}
BrowsePicture(w) ==
    /\ At(w, "picture")
    /\ \/ /\ Works /\ UNCHANGED history
          /\ \E p \in RowsOf(In(w).url) : Goto(w, "url", <<p>>)
       \/ Works /\ RowsOf(In(w).url) = {} /\ Answer(w, 1, 0)
       \/ Fails("picture") /\ Answer(w, 1, 0)
    /\ UNCHANGED <<tables, drawn>> /\ Rest

BrowseUrl(w) ==
    /\ At(w, "url")
    /\ \/ Works /\ req[w].seen[1].md5 \in file_info /\ Continue(w, "pv") /\ UNCHANGED history
       \/ Works /\ req[w].seen[1].md5 \notin file_info /\ Answer(w, 1, 0)
       \/ Fails("url") /\ Answer(w, 1, 0)
    /\ UNCHANGED <<tables, drawn>> /\ Rest

\* Mutant: the pv that was read is incremented.
ViewedSince(p, w) == [p EXCEPT !.pv = req[w].seen[1].pv + 1]

(* update ... set pv = pv+1 counts on the server; no row changed is a failure. *)
Viewed(p, w) == [p EXCEPT !.pv = @ + 1]
CountView(w) ==
    share_picture_list' = (share_picture_list \ RowsOf(In(w).url))
                             \cup {Viewed(p, w) : p \in RowsOf(In(w).url)}
BrowsePv(w) ==
    /\ At(w, "pv")
    /\ \/ /\ Works /\ RowsOf(In(w).url) # {}
          /\ Answer(w, 0, req[w].seen[1].pv + 1) /\ CountView(w)
       \/ /\ Works /\ RowsOf(In(w).url) = {}
          /\ Answer(w, 1, 0) /\ UNCHANGED share_picture_list
       \/ Fails("pv") /\ Answer(w, 1, 0) /\ (UNCHANGED share_picture_list \/ CountView(w))
    /\ UNCHANGED <<user_info, tokens, files, drawn>> /\ Rest

(* handleCancelSharePicture. *)
DropPicture(w) ==
    share_picture_list' = {p \in share_picture_list : ~ (p.url = In(w).url /\ p.user = In(w).user)}
CancelPicture(w) ==
    /\ At(w, "cancel")
    /\ \/ Works /\ Answer(w, 0, 0) /\ DropPicture(w)
       \/ Fails("cancel") /\ Answer(w, 1, 0) /\ (UNCHANGED share_picture_list \/ DropPicture(w))
    /\ UNCHANGED <<user_info, tokens, files, drawn>> /\ Rest

(* The process ends and is started again: requests are lost, rand() starts over. *)
Restart ==
    /\ restarts < MaxRestarts
    /\ restarts' = restarts + 1
    /\ req' = [w \in Workers |-> Idle]
    /\ drawn' = 0
    /\ UNCHANGED <<tables, history, faults, requests>>

-----------------------------------------------------------------------------
Api(w) ==
    ApiRegisterUser(w) \/ ApiUserLogin(w) \/ ApiMyfiles(w) \/ ApiSharefiles(w) \/ ApiSharepicture(w)
Statement(w) ==
    \/ Select(w) \/ Prepare(w) \/ InsertUser(w)
    \/ VerifyUserPassword(w) \/ SetToken(w) \/ VerifyToken(w)
    \/ UserFilesCount(w) \/ UserFileList(w)
    \/ SharefilesCount(w) \/ ShareFilelist(w)
    \/ SharePicturesCount(w) \/ SharePicturesList(w)
    \/ SharePicture(w) \/ BrowsePicture(w) \/ BrowseUrl(w) \/ BrowsePv(w) \/ CancelPicture(w)

Next ==
    \/ \E w \in Workers : Api(w) \/ Statement(w)
    \/ Expire \/ Restart \/ OtherRequests

Spec == Init /\ [][Next]_userVars
-----------------------------------------------------------------------------
(* Type correctness. *)
TypeOK ==
    /\ \A r \in user_info : r.user \in Names /\ r.nick \in Names /\ r.pwd \in Passwords
    /\ \A t \in tokens : t[1] \in 1..Cardinality(issued) /\ t[2] \in Names
    /\ share_file_list \subseteq user_file_list
    /\ \A f \in user_file_list : f[2] \in file_info
    /\ faults \in 0..MaxFaults /\ requests \in 0..MaxRequests /\ restarts \in 0..MaxRestarts

(* Two registrations of one name that both find it free do not both succeed: the
   loser is told so although registerUser checks and inserts in two statements.  A
   statement that cannot be prepared accounts for one answer of 0 too many. *)
RegisteredOnce ==
    /\ TypeOK
    /\ \A n \in Names : registered[n] <= 1 + faults
          /\ Cardinality({r \in user_info : r.user = n}) <= 1
          /\ Cardinality({r \in user_info : r.nick = n}) <= 1

(* The files of a user who has a name are counted or shown only for a token that was
   issued to that user after the password in user_info had been given, and that had not
   expired when the request was taken.  (A user without a name needs no token: "" is
   what VerifyToken reads for one that is not there.) *)
TokenVouches ==
    last.op \in {"mycount", "myfiles"} /\ last.code = 0 /\ last.in.user # NoName =>
        /\ last.in.user \in last.in.owners
        /\ \E i \in issued : /\ i[1] = last.in.token /\ i[2] = last.in.user
                             /\ \E r \in user_info : r.user = i[2] /\ r.pwd = i[3]

(* Every view that was answered is counted, however many visitors there are at once;
   one that was not answered is counted only if the answer of the statement that
   counts it was lost, as long as links are not drawn twice. *)
ViewsCounted ==
    \A p \in share_picture_list :
       LET seen == Cardinality({i \in DOMAIN views : views[i] = <<p.url, p.run>>})
       IN  p.pv >= seen /\ (restarts = 0 => p.pv <= seen + faults)

-----------------------------------------------------------------------------
(* What makes them inductive.  A request is at a step of its operation. *)
StepOf(r) ==
    \/ r.op = "register" /\ r.at \in {"select", "prepare", "insert"} /\ r.in \in RegisterJson
    \/ r.op = "login" /\ r.at \in {"password", "setex"} /\ r.in \in LoginJson
    \/ r.op \in {"mycount", "myfiles"} /\ r.at \in {"get", "files count", "files"}
    \/ r.op \in {"sharecount", "sharefiles"} /\ r.at \in {"sharefiles count", "sharefiles"}
    \/ r.op = "pictures" /\ r.at \in {"pictures count", "pictures"}
    \/ r.op = "browse" /\ r.at \in {"picture", "url", "pv"}
    \/ r.op \in {"share", "cancel"} /\ r.at = r.op

RequestsRight ==
    /\ req = [w \in Workers |-> req[w]]
    /\ \A w \in Workers : req[w] # Idle =>
          /\ req[w] = [op |-> req[w].op, at |-> req[w].at, in |-> req[w].in, seen |-> req[w].seen]
          /\ StepOf(req[w])

(* The keys of user_info are unique; a registration answered with 0 has its row or
   a fault that accounts for it. *)
HasRow(n) == \E r \in user_info : r.user = n
UsersInv ==
    /\ \A r \in user_info : r.user \in Names /\ r.nick \in Names /\ r.pwd \in Passwords
    /\ \A r, s \in user_info : r.user = s.user \/ r.nick = s.nick => r = s
    /\ registered \in [Names -> Nat]
    /\ \A n \in Names : registered[n] <= (IF HasRow(n) THEN 1 ELSE 0) + faults

(* The login behind a token, whether it is in Redis or already looked up.  A token
   that is in Redis has been there since it was issued. *)
Vouched(token, n) == \E i \in issued : i[1] = token /\ i[2] = n
LoggedIn(n, pwd) == \E r \in user_info : r.user = n /\ r.pwd = pwd
Entitled(in) == in.user = NoName \/ (in.user \in in.owners /\ Vouched(in.token, in.user))
Backed(w) ==
    /\ At(w, "setex") => LoggedIn(In(w).user, In(w).pwd)
    /\ At(w, "get") =>
          /\ In(w).token \in 0..Cardinality(issued)
          /\ <<In(w).token, In(w).user>> \in tokens => In(w).user \in In(w).owners
    /\ At(w, "files count") \/ At(w, "files") => Entitled(In(w))
TokensInv ==
    /\ IsFiniteSet(issued)
    /\ \A i \in issued : i[1] \in 1..Cardinality(issued) /\ i[2] \in Names /\ LoggedIn(i[2], i[3])
    /\ \A t \in tokens : Vouched(t[1], t[2])
    /\ \A w \in Workers : Backed(w)

(* The strings that have been drawn in this run and in earlier ones. *)
Drawn(url, run) == /\ url \in Nat /\ run \in Nat
                   /\ run < restarts \/ (run = restarts /\ url <= drawn)
ViewsOf(url, run) == {i \in DOMAIN views : views[i] = <<url, run>>}
ViewsInv ==
    /\ views \in Seq(Nat \X Nat)
    /\ \A i \in DOMAIN views : Drawn(views[i][1], views[i][2])
    /\ \A p \in share_picture_list :
          /\ p = [user |-> p.user, md5 |-> p.md5, url |-> p.url, pv |-> p.pv, run |-> p.run]
          /\ Drawn(p.url, p.run) /\ p.pv \in Nat
    /\ \A w \in Workers : At(w, "url") \/ At(w, "pv") =>
          LET p == req[w].seen[1]
          IN  p.url = In(w).url /\ Drawn(p.url, p.run)

CountersRight ==
    /\ drawn \in Nat /\ faults \in 0..MaxFaults
    /\ requests \in 0..MaxRequests /\ restarts \in 0..MaxRestarts

ListsRight ==
    /\ user_file_list \subseteq Names \X file_info
    /\ share_file_list \subseteq user_file_list

PagesInv ==
    /\ CountersRight /\ RequestsRight /\ ListsRight
    /\ UsersInv /\ TokensInv /\ TokenVouches /\ ViewsInv /\ ViewsCounted
=============================================================================
