------------------------- MODULE Connections_proofs -------------------------
(***************************************************************************)
(* What is proved of the connections the process opens: a transaction of   *)
(* CDBConn is carried out as a whole or not at all; hiredis loses no       *)
(* socket while it connects; a CacheConn keeps one socket and reads its    *)
(* own replies; the client of muduo keeps one connection and its sockets.  *)
(***************************************************************************)
EXTENDS MCRedis, SequenceTheorems, TLAPS

-----------------------------------------------------------------------------
(* CDBConn. *)

(* A statement leaves the session as it was or finds it lost; either way the
   caller's next step is right about the transaction. *)
LEMMA DbStep == DbInv /\ [DbNext]_dbVars => DbInv'
<1> SUFFICES ASSUME DbInv, [DbNext]_dbVars PROVE DbInv'
    OBVIOUS
<1> USE DEF DbInv, DbTypes, TxnEnds, TxnHolds, AllOrNothing, DbCallers, txnVars, dbBounds
<1>1. CASE GetInstance
    BY <1>1 DEF GetInstance
<1>2. CASE DbRestart
    BY <1>2 DEF DbRestart
<1>3. CASE Outage
    BY <1>3 DEF Outage, EndTxn
<1>4. CASE ServerBack
    BY <1>4 DEF ServerBack
<1>5. CASE Begin
    BY <1>5 DEF Begin, To
<1>6. CASE End
    BY <1>6 DEF End, To
<1>7. CASE StartTransaction
    BY <1>7 DEF StartTransaction, Statement, Ping, Written, Refused, LostAnswer, EndTxn, To
<1>8. CASE ExecuteUpdate
    <2>1. DbTypes'
        BY <1>8 DEF ExecuteUpdate, Statement, Ping, Change, CommitsNow, Refused, LostAnswer, EndTxn, To, Rows
    <2>2. TxnEnds'
        BY <1>8 DEF ExecuteUpdate, Statement, Ping, Change, CommitsNow, Refused, LostAnswer, EndTxn, To
    <2>3. TxnHolds'
        BY <1>8 DEF ExecuteUpdate, Statement, Ping, Change, CommitsNow, Refused, LostAnswer, EndTxn, To
    <2>4. AllOrNothing'
        BY <1>8 DEF ExecuteUpdate, Statement, Ping, Change, CommitsNow, Refused, LostAnswer, EndTxn, To
    <2> QED
        BY <2>1, <2>2, <2>3, <2>4
<1>9. CASE PrepareInit
    BY <1>9 DEF PrepareInit, Statement, Ping, Refused, LostAnswer, EndTxn, To
<1>10. CASE StmtExecuteUpdate
    <2>1. DbTypes'
        BY <1>10 DEF StmtExecuteUpdate, Change, CommitsNow, Refused, LostAnswer, EndTxn, To, Rows
    <2>2. TxnEnds'
        BY <1>10 DEF StmtExecuteUpdate, Change, CommitsNow, Refused, LostAnswer, EndTxn, To
    <2>3. TxnHolds'
        BY <1>10 DEF StmtExecuteUpdate, Change, CommitsNow, Refused, LostAnswer, EndTxn, To, Rows
    <2>4. AllOrNothing'
        BY <1>10 DEF StmtExecuteUpdate, Change, CommitsNow, Refused, LostAnswer, EndTxn, To
    <2> QED
        BY <2>1, <2>2, <2>3, <2>4
<1>11. CASE Commit
    BY <1>11 DEF Commit, Statement, Ping, Written, LostAnswer, EndTxn, To
<1>12. CASE Rollback
    BY <1>12 DEF Rollback, Statement, Ping, LostAnswer, EndTxn, To
<1>13. CASE \E i \in 0..ParamCount : SetParam(i)
    BY <1>13 DEF SetParam, To
<1>14. CASE UNCHANGED dbVars
    BY <1>14 DEF dbVars
<1> QED
    BY <1>1, <1>2, <1>3, <1>4, <1>5, <1>6, <1>7, <1>8, <1>9, <1>10, <1>11, <1>12, <1>13, <1>14 DEF DbNext

(* Wherever the session is lost under a transaction (before a statement, with
   its answer under way, at the commit), both of its changes are committed or
   neither is: CDBConn never opens another session under its caller. *)
THEOREM TransactionsWhole == DbSpec => []AllOrNothing
<1>1. DbInit => DbInv
    BY DEF DbInit, DbInv, DbTypes, TxnEnds, TxnHolds, AllOrNothing, DbCallers, Rows
<1>2. DbInv => AllOrNothing
    BY DEF DbInv
<1> QED
    BY <1>1, <1>2, DbStep, PTL DEF DbSpec

-----------------------------------------------------------------------------
(* Connecting. *)

(* redisContextCloseFd leaves no socket open. *)
LEMMA Closed == NetInv /\ CloseFd => cfd' = FALSE /\ sockets' = 0
<1> SUFFICES ASSUME NetInv, CloseFd PROVE sockets' = 0
    BY DEF CloseFd
<1>1. CASE cfd = TRUE
    <2>1. sockets' = sockets - 1
        BY <1>1, Zenon DEF CloseFd
    <2>2. sockets = 1
        BY <1>1 DEF NetInv, NetStage
    <2> QED
        BY <2>1, <2>2
<1>2. CASE cfd = FALSE
    BY <1>2 DEF NetInv, NetStage, CloseFd
<1> QED
    BY <1>1, <1>2 DEF NetInv, NetStage

LEMMA NetStep == NetInv /\ [NetNext]_netVars => NetInv'
<1> SUFFICES ASSUME NetInv, [NetNext]_netVars PROVE NetInv'
    OBVIOUS
<1> USE Closed DEF NetInv, NetStage, ErrorReported, TimeoutBad, Fail, FailClosed, FailOpen, Go
<1>1. ASSUME NEW o \in Options, NetConnect(o) PROVE NetInv'
    BY <1>1 DEF NetConnect
<1>2. CASE Resolve
    BY <1>2 DEF Resolve
<1>3. CASE Socket
    <2>1. cfd = FALSE /\ sockets = 0
        BY <1>3 DEF Socket
    <2>2. sockets + 1 = 1
        BY ONLY <2>1
    <2> QED
        BY <1>3, <2>1, <2>2 DEF Socket, NewSocket, SocketLost
<1>4. CASE Bind
    BY <1>4 DEF Bind
<1>5. CASE Connect
    BY <1>5 DEF Connect, WaitReady
<1>6. CASE Settle
    BY <1>6 DEF Settle
<1>7. CASE CreateSocket
    <2>1. cfd = FALSE /\ sockets = 0
        BY <1>7 DEF CreateSocket
    <2>2. sockets + 1 = 1
        BY ONLY <2>1
    <2> QED
        BY <1>7, <2>1, <2>2 DEF CreateSocket, NewSocket, SocketLost
<1>8. CASE ConnectUnix
    BY <1>8 DEF ConnectUnix, WaitReady
<1>9. CASE SettleUnix
    BY <1>9 DEF SettleUnix
<1>10. CASE Free
    BY <1>10 DEF Free
<1>11. CASE UNCHANGED netVars
    BY <1>11 DEF netVars
<1> QED
    BY <1>1, <1>2, <1>3, <1>4, <1>5, <1>6, <1>7, <1>8, <1>9, <1>10, <1>11 DEF NetNext

(* However many addresses a host has and however often a port is taken, the
   only socket that stays open is the one redisFree will close, and an attempt
   that failed says so but in the two cases its comment is silent about. *)
THEOREM ConnectsCleanly == NetSpec => []NetClean
<1>1. NetInit => NetInv
    BY DEF NetInit, NetInv, NetStage, ErrorReported
<1>2. ASSUME NetInv PROVE NetClean
    <2>1. CASE cfd = TRUE
        BY <1>2, <2>1 DEF NetInv, NetStage, NetClean, NoSocketLost
    <2>2. CASE cfd = FALSE
        BY <1>2, <2>2 DEF NetInv, NetStage, NetClean, NoSocketLost
    <2> QED
        BY <1>2, <2>1, <2>2 DEF NetInv, NetStage
<1> QED
    BY <1>1, <1>2, NetStep, PTL DEF NetSpec

-----------------------------------------------------------------------------
(* CacheConn. *)

(* The three ways bytes are moved. *)
LEMMA Taken ==
    ASSUME NEW S, NEW s \in Seq(S), NEW k \in 0..Len(s)
    PROVE  /\ SubSeq(s, 1, k) \in Seq(S) /\ Len(SubSeq(s, 1, k)) = k
           /\ \A c : Belong(s, c) => Belong(SubSeq(s, 1, k), c)
    BY SubSeqProperties DEF Belong
LEMMA Back ==
    ASSUME NEW S, NEW s \in Seq(S), NEW k \in 0..Len(s)
    PROVE  /\ SubSeq(s, k + 1, Len(s)) \in Seq(S) /\ Len(SubSeq(s, k + 1, Len(s))) = Len(s) - k
           /\ \A c : Belong(s, c) => Belong(SubSeq(s, k + 1, Len(s)), c)
    BY SubSeqProperties DEF Belong
LEMMA Joined ==
    ASSUME NEW S, NEW s \in Seq(S), NEW t \in Seq(S)
    PROVE  /\ s \o t \in Seq(S) /\ Len(s \o t) = Len(s) + Len(t)
           /\ \A c : Belong(s, c) /\ Belong(t, c) => Belong(s \o t, c)
    BY ConcatProperties DEF Belong
LEMMA Twice ==
    ASSUME NEW S, NEW b \in S
    PROVE  /\ <<b, b>> \in Seq(S) /\ Len(<<b, b>>) = 2 /\ <<>> \o <<b, b>> = <<b, b>>
           /\ \A c : b.n = c.n /\ b.cmd = c.cmd => Belong(<<b, b>>, c)
    BY DEF Belong
LEMMA None ==
    ASSUME NEW S
    PROVE  <<>> \in Seq(S) /\ Len(<<>>) = 0 /\ \A c : Belong(<<>>, c)
    BY DEF Belong

(* Facts about the records of CacheConn. *)
LEMMA Present ==
    /\ Null \notin Contexts /\ IsNull(Null)
    /\ \A c \in Contexts : /\ ~ IsNull(c) /\ c.err \in {"", "IO", "EOF"}
                           /\ c.obuf \in Seq(CommandBytes) /\ c.reader \in Seq(ReplyBytes)
    BY DEF Contexts, Null, IsNull
LEMMA Fresh ==
    /\ NewContext \in Contexts /\ NewContext.err = "" /\ NewContext.obuf = <<>> /\ NewContext.reader = <<>>
    BY DEF NewContext, Contexts
LEMMA NoCalls == NoCall \in CallStates /\ NoCall.at = "idle"
    BY DEF CallStates, NoCall, Between, Calls
LEMMA LinkFields ==
    \A l \in Links : l.out \in Seq(CommandBytes) /\ l.back \in Seq(ReplyBytes)
    BY DEF Links
LEMMA Quiet ==
    ASSUME WireInv, ~ IsNull(context), context.err = "", call.at \in Between
    PROVE  context.obuf = <<>> /\ link.out = <<>> /\ link.back = <<>> /\ context.reader = <<>>
    BY DEF WireInv

LEMMA NextCall == \A n \in 0..Calls - 1 : (n + 1) % Calls \in 0..Calls - 1
    BY DEF Calls

(* One lemma for each step of the connection. *)
LEMMA EnterStep == ASSUME ConnInv, NEW m \in CacheMethods, Enter(m) PROVE ConnInv'
<1> USE DEF ConnInv, Enter, limits
<1>1. call' \in CallStates /\ call'.at = "init" /\ call'.method = m
    <2>1. PICK n : n = (call.n + 1) % Calls
        OBVIOUS
    <2>2. n \in 0..Calls - 1
        BY <2>1, NextCall DEF CallInv, CallStates
    <2>3. call' = [at |-> "init", method |-> m, n |-> n, cmd |-> ""]
        BY <2>1
    <2>4. [at |-> "init", method |-> m, n |-> n, cmd |-> ""] \in CallStates
        BY ONLY <2>2, m \in CacheMethods DEF CallStates, Between
    <2> QED
        BY ONLY <2>3, <2>4
<1>2. CallInv'
    BY <1>1 DEF CallInv, Waiting
<1>3. SocketInv'
    BY <1>1 DEF SocketInv
<1>4. WireInv'
    BY <1>1 DEF WireInv, Between, Waiting
<1>5. (ContextInv /\ link \in Links /\ FlagsInv /\ ReplyOwn)'
    BY DEF ContextInv, FlagsInv, ReplyOwn
<1> QED
    BY <1>2, <1>3, <1>4, <1>5

(* A command is appended to the buffer of a context that is there. *)
LEMMA SendStep ==
    ASSUME ConnInv, NEW cmd \in Commands, call.at \in {"init", "auth", "select"}, ~ IsNull(context), Send(cmd),
           cmd \in {"AUTH", "SELECT", call.method}, UNCHANGED <<tooSoon, result, link, fds, up, died>>
    PROVE  ConnInv'
<1> USE DEF ConnInv
<1>1. /\ call' \in CallStates /\ call'.at = "pending" /\ call'.method = call.method
      /\ call'.n = call.n /\ call'.cmd = cmd
    <2>1. call' = [call EXCEPT !.at = "pending", !.cmd = cmd]
        BY DEF Send
    <2>2. call \in CallStates /\ "pending" \in Between \cup Waiting
        BY DEF CallInv, Waiting
    <2> QED
        BY <2>1, <2>2 DEF CallStates
<1>2. context \in Contexts
    BY Present DEF ContextInv
<1> DEFINE byte == [n |-> call.n, cmd |-> cmd]
<1>3. byte \in CommandBytes
    BY DEF CallInv, CallStates, CommandBytes
<1>10. context.err = "" => context' = [context EXCEPT !.obuf = context.obuf \o <<byte, byte>>]
    BY DEF Send
<1>12. PICK o : o = context.obuf \o <<byte, byte>>
    OBVIOUS
<1>11. o \in Seq(CommandBytes)
    <2>1. <<byte, byte>> \in Seq(CommandBytes)
        BY <1>3, Twice
    <2>2. context.obuf \in Seq(CommandBytes)
        BY <1>2, Present
    <2> QED
        BY <1>12, <2>1, <2>2, Joined
<1>4. context' \in Contexts /\ context'.err = context.err /\ context'.reader = context.reader
    <2>1. CASE context.err # ""
        BY <1>2, <2>1 DEF Send
    <2>2. CASE context.err = ""
        BY <1>2, <1>10, <1>11, <1>12, <2>2 DEF Contexts
    <2> QED
        BY <2>1, <2>2
<1>5. CallInv'
    BY <1>1 DEF CallInv, Waiting
<1>6. SocketInv'
    BY <1>4, Present DEF SocketInv
<1>7. WireInv'
    <2>1. CASE context.err # ""
        BY <1>1, <1>4, <2>1 DEF WireInv
    <2>2. CASE context.err = ""
        <3>1. context.obuf = <<>> /\ link.out = <<>> /\ link.back = <<>> /\ context.reader = <<>>
            BY <2>2, Quiet DEF Between
        <3>2. context'.obuf = <<byte, byte>>
            <4>1. o = <<byte, byte>>
                BY <1>3, <1>12, <3>1, Twice
            <4> QED
                BY <1>2, <1>10, <1>12, <2>2, <4>1 DEF Contexts
        <3>3. Belong(context'.obuf, call') /\ Len(context'.obuf) = 2
            BY <1>1, <1>3, <3>2, Twice
        <3>4. Len(link'.out) = 0 /\ Len(link'.back) = 0 /\ Len(context'.reader) = 0
            BY <1>4, <3>1, None
        <3>5. Belong(link'.out, call') /\ Belong(link'.back, call') /\ Belong(context'.reader, call')
            BY <1>4, <3>1, None
        <3>6. /\ Len(context'.obuf) > 0
              /\ Len(context'.obuf) + Len(link'.out) + Len(link'.back) + Len(context'.reader) <= 2
            BY <3>3, <3>4
        <3>7. ~ IsNull(context') /\ context'.err = ""
            BY <1>4, <2>2, Present
        <3> QED
            BY <1>1, <1>4, <3>1, <3>3, <3>5, <3>6, <3>7 DEF WireInv, Between, Waiting
    <2> QED
        BY <2>1, <2>2
<1>8. ContextInv'
    BY <1>4 DEF ContextInv
<1>9. (link \in Links /\ FlagsInv /\ ReplyOwn)'
    BY DEF FlagsInv, ReplyOwn
<1> QED
    BY <1>5, <1>6, <1>7, <1>8, <1>9

(* A method, or a login, ends without a reply and keeps the context as it is. *)
LEMMA GivesUp ==
    ASSUME ConnInv, NEW value, Return(value, NoReply), UNCHANGED <<context, link, fds, up, died>>, tooSoon' \in BOOLEAN,
           IsNull(context) \/ context.err # ""
    PROVE  ConnInv'
<1> USE DEF ConnInv
<1>1. call' \in CallStates /\ call'.at = "idle"
    BY DEF Return, CallInv, CallStates, NoCall, Between
<1>2. CallInv'
    BY <1>1 DEF CallInv, Waiting
<1>3. SocketInv'
    BY <1>1 DEF SocketInv
<1>4. WireInv'
    BY <1>1 DEF WireInv
<1>5. ReplyOwn'
    BY DEF Return, ReplyOwn
<1>6. (ContextInv /\ link \in Links /\ FlagsInv)'
    BY DEF ContextInv, FlagsInv
<1> QED
    BY <1>2, <1>3, <1>4, <1>5, <1>6

(* What is under way before a step that moves bytes. *)
LEMMA UnderWay ==
    ASSUME ConnInv, ~ IsNull(context), context.err = ""
    PROVE  /\ context \in Contexts /\ context.obuf \in Seq(CommandBytes) /\ context.reader \in Seq(ReplyBytes)
           /\ link.out \in Seq(CommandBytes) /\ link.back \in Seq(ReplyBytes)
           /\ Len(context.obuf) \in Nat /\ Len(context.reader) \in Nat
           /\ Len(link.out) \in Nat /\ Len(link.back) \in Nat
           /\ Len(context.obuf) + Len(link.out) + Len(link.back) + Len(context.reader) <= 2
<1>1. context \in Contexts
    BY Present DEF ConnInv, ContextInv
<1>2. /\ context.obuf \in Seq(CommandBytes) /\ context.reader \in Seq(ReplyBytes)
      /\ link.out \in Seq(CommandBytes) /\ link.back \in Seq(ReplyBytes)
    BY <1>1, Present, LinkFields DEF ConnInv
<1>3. /\ Len(context.obuf) \in Nat /\ Len(context.reader) \in Nat
      /\ Len(link.out) \in Nat /\ Len(link.back) \in Nat
    BY <1>2, LenProperties
<1> QED
    BY <1>1, <1>2, <1>3 DEF ConnInv, WireInv

LEMMA EmptyOnes == ASSUME NEW S, NEW s \in Seq(S) PROVE Len(s) = 0 <=> s = <<>>
    BY EmptySeq

(* A step of the connection that leaves the call's result, the flags and the sockets
   alone is right when its call, its context and its link are. *)
LEMMA WireStep ==
    ASSUME ConnInv, ~ IsNull(context), context' \in Contexts, link' \in Links,
           \/ UNCHANGED call
           \/ call.at \in Waiting /\ \E a \in Waiting : call' = [call EXCEPT !.at = a],
           UNCHANGED <<result, fds, tooSoon, up, died>>, WireInv'
    PROVE  ConnInv'
<1> USE DEF ConnInv
<1>1. CallInv'
    <2>1. CASE UNCHANGED call
        BY <2>1 DEF CallInv
    <2>2. ASSUME NEW a \in Waiting, call.at \in Waiting, call' = [call EXCEPT !.at = a] PROVE CallInv'
        <3>1. call \in CallStates
            BY DEF CallInv
        <3>2. call' \in CallStates /\ call'.method = call.method /\ call'.cmd = call.cmd /\ call'.at = a
            BY ONLY <2>2, <3>1 DEF CallStates
        <3> QED
            BY <2>2, <3>2 DEF CallInv, Waiting
    <2> QED
        BY <2>1, <2>2
<1>2. SocketInv'
    BY Present DEF SocketInv
<1>3. (ContextInv /\ FlagsInv /\ ReplyOwn)'
    BY DEF ContextInv, FlagsInv, ReplyOwn
<1> QED
    BY <1>1, <1>2, <1>3

LEMMA PendingStep == ASSUME ConnInv, GetReply_Pending PROVE ConnInv'
<1> USE DEF ConnInv, GetReply_Pending
<1>1. ~ IsNull(context) /\ context \in Contexts
    BY Present DEF SocketInv, ContextInv
<1>2. Len(context.reader) < 2
    <2>1. CASE context.err = ""
        <3>1. context.reader = <<>>
            BY <1>1, <2>1 DEF WireInv
        <3> QED
            BY <3>1
    <2>2. CASE context.err # ""
        BY <1>1, <2>2 DEF WireInv
    <2> QED
        BY <2>1, <2>2
<1>3. call' = [call EXCEPT !.at = "write"]
    <2>1. Len(context.reader) \in Nat
        BY <1>1, Present, LenProperties
    <2>2. ~ HasReply
        BY ONLY <1>2, <2>1 DEF HasReply
    <2> QED
        BY <2>2
<1>4. call'.at = "write" /\ call'.n = call.n /\ call'.cmd = call.cmd
    BY ONLY <1>3, CallInv DEF CallInv, CallStates
<1>5. \A b : Belong(b, call) => Belong(b, call')
    BY ONLY <1>4 DEF Belong
<1>6. WireInv'
    BY <1>1, <1>4, <1>5 DEF WireInv, Between, Waiting
<1> QED
    BY <1>1, <1>3, <1>6, WireStep DEF limits, Waiting

(* Bytes that are moved are neither lost nor made up. *)
LEMMA Moved ==
    ASSUME NEW a \in Nat, NEW b \in Nat, NEW c \in Nat, NEW d \in Nat, NEW k \in 1..a, a + b + c + d <= 2
    PROVE  (a - k) + (b + k) + c + d <= 2
    OBVIOUS

LEMMA WriteStep == ASSUME ConnInv, Write_Some PROVE ConnInv'
<1> USE DEF ConnInv
<1>1. ~ IsNull(context) /\ context.err = "" /\ call.at = "write"
    BY DEF Write_Some, SocketInv
<1>2. PICK k \in 1..Len(context.obuf) :
          /\ link' = [link EXCEPT !.out = link.out \o SubSeq(context.obuf, 1, k)]
          /\ context' = [context EXCEPT !.obuf = SubSeq(context.obuf, k + 1, Len(context.obuf))]
          /\ call' = IF k = Len(context.obuf) THEN [call EXCEPT !.at = "read"] ELSE call
    BY DEF Write_Some
<1>3. PICK sent, left, o : /\ sent = SubSeq(context.obuf, 1, k) /\ left = SubSeq(context.obuf, k + 1, Len(context.obuf))
                           /\ o = link.out \o sent
    OBVIOUS
<1>4. context.obuf \in Seq(CommandBytes) /\ k \in 0..Len(context.obuf) /\ link.out \in Seq(CommandBytes)
    <2>1. /\ context.obuf \in Seq(CommandBytes) /\ link.out \in Seq(CommandBytes)
          /\ Len(context.obuf) \in Nat
        BY <1>1, UnderWay
    <2> QED
        BY ONLY <1>2, <2>1
<1>5. /\ sent \in Seq(CommandBytes) /\ Len(sent) = k
      /\ left \in Seq(CommandBytes) /\ Len(left) = Len(context.obuf) - k
      /\ \A c : Belong(context.obuf, c) => Belong(sent, c) /\ Belong(left, c)
    BY ONLY <1>3, <1>4, Taken, Back
<1>6. /\ o \in Seq(CommandBytes) /\ Len(o) = Len(link.out) + k
      /\ \A c : Belong(link.out, c) /\ Belong(sent, c) => Belong(o, c)
    BY ONLY <1>3, <1>4, <1>5, Joined
<1>7. /\ context' \in Contexts /\ context'.obuf = left /\ context'.err = "" /\ context'.reader = context.reader
      /\ ~ IsNull(context')
    <2>1. context' = [context EXCEPT !.obuf = left]
        BY <1>2, <1>3
    <2> QED
        BY ONLY <1>1, <1>5, <2>1, UnderWay, Present, ContextInv, ConnInv DEF Contexts, IsNull
<1>8. link' \in Links /\ link'.out = o /\ link'.back = link.back /\ link'.open = link.open
    <2>1. link' = [link EXCEPT !.out = o]
        BY <1>2, <1>3
    <2> QED
        BY <1>6, <2>1 DEF Links
<1>9. call'.n = call.n /\ call'.cmd = call.cmd /\ call'.at = IF k = Len(context.obuf) THEN "read" ELSE "write"
    BY ONLY <1>1, <1>2, CallInv DEF CallInv, CallStates
<1>10. \A b : Belong(b, call) => Belong(b, call')
    BY ONLY <1>9 DEF Belong
<1>11. /\ Belong(context.obuf, call) /\ Belong(link.out, call) /\ Belong(link.back, call) /\ Belong(context.reader, call)
       /\ link.back = <<>> /\ context.reader = <<>>
    BY <1>1 DEF WireInv, Waiting
<1>12. /\ Len(left) + Len(o) + Len(link.back) + Len(context.reader) <= 2
       /\ k = Len(context.obuf) => left = <<>>
       /\ k # Len(context.obuf) => Len(left) > 0
    <2>1. Len(context.obuf) + Len(link.out) + Len(link.back) + Len(context.reader) <= 2
        BY <1>1, UnderWay
    <2>2. /\ Len(context.obuf) \in Nat /\ Len(link.out) \in Nat
          /\ Len(link.back) \in Nat /\ Len(context.reader) \in Nat
        BY <1>1, UnderWay
    <2>3. Len(left) = Len(context.obuf) - k /\ Len(o) = Len(link.out) + k /\ k \in 1..Len(context.obuf)
        BY <1>2, <1>5, <1>6
    <2>4. Len(left) + Len(o) + Len(link.back) + Len(context.reader) <= 2
        BY ONLY <2>1, <2>2, <2>3, Moved
    <2>5. /\ k = Len(context.obuf) => Len(left) = 0
          /\ k # Len(context.obuf) => Len(left) > 0
        BY ONLY <2>2, <2>3
    <2>6. Len(left) = 0 => left = <<>>
        BY <1>5, EmptyOnes
    <2> QED
        BY <2>4, <2>5, <2>6
<1>13. Len(context.reader) < 2
    BY <1>11
<1>14. WireInv'
    BY <1>1, <1>5, <1>6, <1>7, <1>8, <1>9, <1>10, <1>11, <1>12, <1>13 DEF WireInv, Between, Waiting
<1> QED
    BY <1>1, <1>2, <1>7, <1>8, <1>14, WireStep DEF Write_Some, limits, Waiting

LEMMA ReadStep == ASSUME ConnInv, Read_Some PROVE ConnInv'
<1> USE DEF ConnInv
<1>1. ~ IsNull(context) /\ context.err = "" /\ call.at = "read"
    BY DEF Read_Some, SocketInv
<1>2. PICK k \in 1..Len(link.back) :
          /\ context' = [context EXCEPT !.reader = context.reader \o SubSeq(link.back, 1, k)]
          /\ link' = [link EXCEPT !.back = SubSeq(link.back, k + 1, Len(link.back))]
    BY DEF Read_Some
<1>3. PICK come, left, r : /\ come = SubSeq(link.back, 1, k) /\ left = SubSeq(link.back, k + 1, Len(link.back))
                           /\ r = context.reader \o come
    OBVIOUS
<1>4. link.back \in Seq(ReplyBytes) /\ k \in 0..Len(link.back) /\ context.reader \in Seq(ReplyBytes)
    <2>1. /\ link.back \in Seq(ReplyBytes) /\ context.reader \in Seq(ReplyBytes)
          /\ Len(link.back) \in Nat
        BY <1>1, UnderWay
    <2> QED
        BY ONLY <1>2, <2>1
<1>5. /\ come \in Seq(ReplyBytes) /\ Len(come) = k
      /\ left \in Seq(ReplyBytes) /\ Len(left) = Len(link.back) - k
      /\ \A c : Belong(link.back, c) => Belong(come, c) /\ Belong(left, c)
    BY ONLY <1>3, <1>4, Taken, Back
<1>6. /\ r \in Seq(ReplyBytes) /\ Len(r) = Len(context.reader) + k
      /\ \A c : Belong(context.reader, c) /\ Belong(come, c) => Belong(r, c)
    BY ONLY <1>3, <1>4, <1>5, Joined
<1>7. /\ context' \in Contexts /\ context'.obuf = context.obuf /\ context'.err = "" /\ context'.reader = r
      /\ ~ IsNull(context')
    <2>1. context' = [context EXCEPT !.reader = r]
        BY <1>2, <1>3
    <2> QED
        BY ONLY <1>1, <1>6, <2>1, UnderWay, Present, ContextInv, ConnInv DEF Contexts, IsNull
<1>8. link' \in Links /\ link'.out = link.out /\ link'.back = left /\ link'.open = link.open
    <2>1. link' = [link EXCEPT !.back = left]
        BY <1>2, <1>3
    <2> QED
        BY <1>5, <2>1 DEF Links
<1>9. call'.n = call.n /\ call'.cmd = call.cmd /\ call'.at = IF Len(r) >= 2 THEN "reply" ELSE "read"
    <2>1. call' = IF Len(r) >= 2 THEN [call EXCEPT !.at = "reply"] ELSE call
        BY <1>7 DEF Read_Some
    <2> QED
        BY ONLY <1>1, <2>1, CallInv DEF CallInv, CallStates
<1>10. \A b : Belong(b, call) => Belong(b, call')
    BY ONLY <1>9 DEF Belong
<1>11. /\ Belong(context.obuf, call) /\ Belong(link.out, call) /\ Belong(link.back, call) /\ Belong(context.reader, call)
       /\ context.obuf = <<>>
    BY <1>1 DEF WireInv, Waiting
<1>12. /\ Len(context.obuf) + Len(link.out) + Len(left) + Len(r) <= 2
       /\ Len(r) >= 2 => Len(r) = 2
       /\ ~ (Len(r) >= 2) => Len(r) < 2
    <2>1. Len(context.obuf) + Len(link.out) + Len(link.back) + Len(context.reader) <= 2
        BY <1>1, UnderWay
    <2>2. /\ Len(context.obuf) \in Nat /\ Len(link.out) \in Nat
          /\ Len(link.back) \in Nat /\ Len(context.reader) \in Nat
        BY <1>1, UnderWay
    <2>3. Len(left) = Len(link.back) - k /\ Len(r) = Len(context.reader) + k /\ k \in 1..Len(link.back)
        BY <1>2, <1>5, <1>6
    <2>4. PICK a, b, c, d, x, y : /\ a = Len(context.obuf) /\ b = Len(link.out) /\ c = Len(link.back)
                                  /\ d = Len(context.reader) /\ x = Len(left) /\ y = Len(r)
        OBVIOUS
    <2>5. /\ a \in Nat /\ b \in Nat /\ c \in Nat /\ d \in Nat /\ k \in 1..c
          /\ a + b + c + d <= 2 /\ x = c - k /\ y = d + k
        BY ONLY <2>1, <2>2, <2>3, <2>4
    <2>6. a + b + x + y <= 2 /\ (y >= 2 => y = 2) /\ (~ (y >= 2) => y < 2)
        BY ONLY <2>5
    <2> QED
        BY ONLY <2>4, <2>6
<1>13. WireInv'
    BY <1>1, <1>5, <1>6, <1>7, <1>8, <1>9, <1>10, <1>11, <1>12 DEF WireInv, Between, Waiting
<1>14. UNCHANGED call \/ (call.at \in Waiting /\ \E a \in Waiting : call' = [call EXCEPT !.at = a])
    <2>1. call.at \in Waiting /\ "reply" \in Waiting
        BY <1>1 DEF Waiting
    <2>2. UNCHANGED call \/ call' = [call EXCEPT !.at = "reply"]
        BY DEF Read_Some
    <2>3. CASE call' = [call EXCEPT !.at = "reply"]
        BY ONLY <2>1, <2>3
    <2>4. CASE UNCHANGED call
        BY <2>4
    <2> QED
        BY <2>2, <2>3, <2>4
<1> QED
    BY <1>1, <1>7, <1>8, <1>13, <1>14, WireStep DEF Read_Some, limits

(* An error that ends the connection for good. *)
LEMMA ErrorStep ==
    ASSUME ConnInv, NEW why \in {"IO", "EOF"}, ~ IsNull(context), context.err = "", ~ link.open,
           call.at \in {"write", "read"}, SetErr(why),
           UNCHANGED <<tooSoon, call, result, link, fds, up, died>>
    PROVE  ConnInv'
<1> USE DEF ConnInv
<1>1. context \in Contexts
    BY UnderWay
<1>2. context' \in Contexts /\ context'.err = why /\ context'.reader = context.reader
    BY ONLY <1>1, SetErr(why), why \in {"IO", "EOF"} DEF SetErr, Contexts
<1>3. Len(context.reader) < 2
    <2>1. CASE call.at = "read"
        BY <2>1 DEF WireInv
    <2>2. CASE call.at = "write"
        <3>1. context.reader = <<>>
            BY <2>2 DEF WireInv
        <3> QED
            BY ONLY <3>1
    <2> QED
        BY <2>1, <2>2
<1>4. WireInv'
    BY <1>2, <1>3 DEF WireInv
<1> QED
    BY <1>2, <1>4, WireStep

(* The context is freed, and with it everything under way. *)
LEMMA FreedStep ==
    ASSUME ConnInv, ~ IsNull(context), context' = Null, link' = NoLink, fds' = 0,
           call' \in CallStates, call'.at = "idle", tooSoon' = tooSoon, up' = up, died' \in BOOLEAN, ReplyOwn'
    PROVE  ConnInv'
<1>1. CallInv'
    BY DEF CallInv, Waiting
<1>2. ContextInv'
    BY DEF ContextInv
<1>3. NoLink \in Links /\ NoLink.open = FALSE
    BY DEF NoLink, Links
<1>4. SocketInv'
    BY Present DEF SocketInv
<1>5. FlagsInv'
    BY DEF ConnInv, FlagsInv
<1>6. WireInv'
    BY <1>3, Present DEF WireInv
<1> QED
    BY <1>1, <1>2, <1>3, <1>4, <1>5, <1>6 DEF ConnInv

(* redisCommand has given no reply. *)
LEMMA FailedStep == ASSUME ConnInv, GetReply_Failed PROVE ConnInv'
<1>1. /\ ~ IsNull(context) /\ context.err # "" /\ call \in CallStates /\ fds = 1
      /\ UNCHANGED <<tooSoon, up>> /\ tooSoon \in BOOLEAN
    BY DEF ConnInv, GetReply_Failed, SocketInv, CallInv, FlagsInv
<1>2. CASE /\ call.cmd \in {"AUTH", "SELECT"}
           /\ Return(NotConnected, NoReply)
           /\ UNCHANGED <<context, fds, link, died>>
    BY <1>1, <1>2, GivesUp
<1>3. CASE /\ died' = TRUE /\ context' = Null /\ fds' = 0 /\ link' = NoLink
           /\ call' = NoCall /\ UNCHANGED result
    <2>1. ReplyOwn'
        BY <1>3 DEF ConnInv, ReplyOwn
    <2> QED
        BY <1>1, <1>3, <2>1, NoCalls, FreedStep
<1>4. CASE /\ call.cmd = "HgetInto"
           /\ Return(Failed, NoReply)
           /\ UNCHANGED <<context, fds, link, died>>
    BY <1>1, <1>4, GivesUp
<1>5. CASE /\ RedisFree
           /\ Return(Unreached(call.method), NoReply)
           /\ UNCHANGED died
    <2>1. ReplyOwn'
        BY <1>5 DEF Return, ReplyOwn
    <2>2. call' \in CallStates /\ call'.at = "idle"
        BY <1>1, <1>5 DEF Return, CallStates, NoCall, Between
    <2>3. context' = Null /\ link' = NoLink
        BY <1>5 DEF RedisFree
    <2>4. fds' = 0
        <3>1. fds = 1
            BY <1>1
        <3>2. fds' = fds - 1
            BY <1>5 DEF RedisFree
        <3> QED
            BY ONLY <3>1, <3>2
    <2>5. died' \in BOOLEAN
        BY <1>5 DEF ConnInv, FlagsInv
    <2> QED
        BY <1>1, <2>1, <2>2, <2>3, <2>4, <2>5, FreedStep
<1> QED
    BY <1>2, <1>3, <1>4, <1>5 DEF GetReply_Failed, NullReply

(* A reply is taken: it is the one to the command just sent, and nothing else
   is under way. *)
LEMMA TakeStep == ASSUME ConnInv, TakeReply PROVE ConnInv'
<1> USE DEF ConnInv
<1>1. call.at = "reply" /\ ~ IsNull(context) /\ context.err = ""
    <2>1. call.at = "reply" /\ ~ IsNull(context)
        BY DEF TakeReply, SocketInv
    <2> QED
        BY <2>1 DEF WireInv
<1>2. /\ Len(context.reader) = 2 /\ Belong(context.reader, call) /\ context.obuf = <<>>
    BY <1>1 DEF WireInv, Waiting
<1>3. PICK reply, left : reply = context.reader[1] /\ left = SubSeq(context.reader, 3, Len(context.reader))
    OBVIOUS
<1>4. reply.n = call.n /\ reply.cmd = call.cmd
    BY <1>2, <1>3 DEF Belong
<1>5. Len(link.out) = 0 /\ Len(link.back) = 0
    <2>1. /\ Len(context.obuf) \in Nat /\ Len(link.out) \in Nat /\ Len(link.back) \in Nat
          /\ Len(context.obuf) + Len(link.out) + Len(link.back) + Len(context.reader) <= 2
        BY <1>1, UnderWay
    <2>2. \A a, b, c \in Nat : a + b + c + 2 <= 2 => b = 0 /\ c = 0
        OBVIOUS
    <2> QED
        BY ONLY <1>2, <2>1, <2>2
<1>6. link.out = <<>> /\ link.back = <<>>
    BY <1>1, <1>5, UnderWay, EmptyOnes
<1>7. left = <<>>
    <2>1. context.reader \in Seq(ReplyBytes)
        BY <1>1, UnderWay
    <2>4. Len(context.reader) = 2
        BY <1>2
    <2>5. 2 \in 0..Len(context.reader) /\ 2 + 1 = 3
        BY ONLY <2>4
    <2>2. left \in Seq(ReplyBytes) /\ Len(left) = Len(context.reader) - 2
        BY ONLY <1>3, <2>1, <2>5, Back
    <2>3. Len(left) = 0
        BY ONLY <2>2, <2>4
    <2> QED
        BY <2>2, <2>3, EmptyOnes
<1>8. /\ context' \in Contexts /\ context'.obuf = <<>> /\ context'.err = "" /\ context'.reader = <<>>
      /\ ~ IsNull(context')
    <2>1. context' = [context EXCEPT !.reader = <<>>]
        BY <1>3, <1>7 DEF TakeReply
    <2>2. context \in Contexts /\ <<>> \in Seq(ReplyBytes)
        BY <1>1, UnderWay, None
    <2>3. context' \in Contexts /\ context'.obuf = context.obuf /\ context'.err = context.err /\ context'.reader = <<>>
        BY ONLY <2>1, <2>2 DEF Contexts
    <2> QED
        BY <1>1, <1>2, <2>3, Present
<1>9. call \in CallStates /\ call.method \in CacheMethods
    BY <1>1 DEF CallInv
<1>10. call' \in CallStates /\ call'.at \in Between /\ (call'.at # "idle" => call'.method = call.method)
    <2>1. CASE \E at \in {"init", "select"} : call' = [call EXCEPT !.at = at]
        BY ONLY <1>9, <2>1 DEF CallStates, Between
    <2>2. CASE call' = [NoCall EXCEPT !.n = call.n]
        BY ONLY <1>9, <2>2 DEF CallStates, NoCall, Between
    <2> QED
        BY <2>1, <2>2 DEF TakeReply, Reply, Return
<1>11. CallInv'
    BY <1>9, <1>10 DEF CallInv, Between, Waiting
<1>12. WireInv'
    <2>1. Len(<<>>) = 0 /\ 0 + 0 + 0 + 0 <= 2
        OBVIOUS
    <2> QED
        BY <1>1, <1>6, <1>8, <1>10, <2>1 DEF TakeReply, WireInv, Between, Waiting
<1>13. SocketInv'
    BY <1>1, <1>8 DEF SocketInv, TakeReply
<1>14. ReplyOwn'
    <2>1. CASE UNCHANGED result
        BY <2>1 DEF ReplyOwn
    <2>2. ASSUME NEW value, Return(value, NoReply) PROVE ReplyOwn'
        BY <2>2 DEF Return, ReplyOwn
    <2>3. ASSUME NEW value, Return(value, reply), call.cmd \in CacheMethods PROVE ReplyOwn'
        <3>1. call.cmd = call.method
            BY <1>1, <2>3, MethodsAssumption DEF CallInv, Waiting
        <3> QED
            BY <1>4, <2>3, <3>1 DEF Return, ReplyOwn
    <2> QED
        BY <1>3, <2>1, <2>2, <2>3 DEF TakeReply, Reply
<1>15. (ContextInv /\ link \in Links /\ FlagsInv)'
    BY <1>8 DEF TakeReply, limits, ContextInv, FlagsInv
<1> QED
    BY <1>11, <1>12, <1>13, <1>14, <1>15

(* The server answers: only a command that has arrived whole, which leaves nothing
   else under way while the method waits for its reply. *)
LEMMA ServeStep == ASSUME ConnInv, Serve PROVE ConnInv'
<1> USE DEF ConnInv
<1>1. link.open /\ Len(link.out) >= 2 /\ ~ IsNull(context) /\ context.err = ""
    BY DEF Serve, WireInv
<1>2. /\ Len(context.obuf) = 0 /\ Len(link.out) = 2 /\ Len(link.back) = 0 /\ Len(context.reader) = 0
    <2>1. /\ Len(context.obuf) \in Nat /\ Len(link.out) \in Nat /\ Len(link.back) \in Nat /\ Len(context.reader) \in Nat
          /\ Len(context.obuf) + Len(link.out) + Len(link.back) + Len(context.reader) <= 2
        BY <1>1, UnderWay
    <2>2. \A a, b, c, d \in Nat : b >= 2 /\ a + b + c + d <= 2 => a = 0 /\ b = 2 /\ c = 0 /\ d = 0
        OBVIOUS
    <2>3. Len(link.out) >= 2
        BY <1>1
    <2> QED
        BY ONLY <2>1, <2>2, <2>3
<1>3. link.out # <<>>
    <2>1. Len(link.out) = 2 /\ Len(<<>>) = 0
        BY <1>2
    <2> QED
        BY ONLY <2>1
<1>4. call.at = "read"
    <2>1. call.at \notin Between \cup {"pending"}
        BY <1>1, <1>3 DEF WireInv
    <2>2. call.at # "write"
        <3>1. call.at = "write" => Len(context.obuf) > 0
            BY <1>1 DEF WireInv
        <3>2. ~ (Len(context.obuf) > 0)
            BY ONLY <1>2
        <3> QED
            BY <3>1, <3>2
    <2>3. call.at # "reply"
        <3>1. call.at = "reply" => Len(context.reader) = 2
            BY <1>1 DEF WireInv
        <3>2. Len(context.reader) # 2
            BY ONLY <1>2
        <3> QED
            BY <3>1, <3>2
    <2> QED
        BY <2>1, <2>2, <2>3 DEF CallInv, CallStates, Waiting
<1>5. link.back = <<>> /\ link.out \in Seq(CommandBytes) /\ link.back \in Seq(ReplyBytes)
    BY <1>1, <1>2, UnderWay, EmptyOnes
<1>6. Belong(link.out, call) /\ Belong(context.reader, call) /\ Belong(context.obuf, call)
    BY <1>1, <1>4 DEF WireInv, Waiting
<1>7. link.out[1] \in CommandBytes /\ link.out[1].n = call.n /\ link.out[1].cmd = call.cmd
    <2>1. 1 \in 1..Len(link.out)
        BY ONLY <1>2
    <2>2. link.out[1] \in CommandBytes
        BY ONLY <1>5, <2>1, ElementOfSeq
    <2> QED
        BY <1>6, <2>1, <2>2 DEF Belong
<1>8. PICK type \in {"string", "status", "array", "integer", "error"} : Answer(type)
    <2>1. \A cmd : ReplyType(cmd) \in {"string", "status", "array", "integer", "error"}
        BY DEF ReplyType
    <2> QED
        BY <2>1 DEF Serve
<1>9. PICK answer : answer = [n |-> link.out[1].n, cmd |-> link.out[1].cmd, type |-> type]
    OBVIOUS
<1>10. answer \in ReplyBytes /\ answer.n = call.n /\ answer.cmd = call.cmd
    BY ONLY <1>7, <1>8, <1>9 DEF CommandBytes, ReplyBytes
<1>11. PICK left, back : left = SubSeq(link.out, 3, Len(link.out)) /\ back = link.back \o <<answer, answer>>
    OBVIOUS
<1>12. left = <<>>
    <2>1. Len(link.out) = 2
        BY <1>2
    <2>2. 2 \in 0..Len(link.out) /\ 2 + 1 = 3
        BY ONLY <2>1
    <2>3. left \in Seq(CommandBytes) /\ Len(left) = Len(link.out) - 2
        BY ONLY <1>5, <1>11, <2>2, Back
    <2>4. Len(left) = 0
        BY ONLY <2>1, <2>3
    <2> QED
        BY <2>3, <2>4, EmptyOnes
<1>13. back \in Seq(ReplyBytes) /\ Len(back) = 2 /\ Belong(back, call)
    <2>1. back = <<answer, answer>>
        BY <1>5, <1>10, <1>11, Twice
    <2> QED
        BY <1>10, <2>1, Twice
<1>14. link' \in Links /\ link'.open = link.open /\ link'.out = <<>> /\ link'.back = back
    <2>1. PICK authed \in BOOLEAN :
              link' = [link EXCEPT !.out = left, !.back = back, !.authed = authed]
        <3>1. link' = [link EXCEPT !.out = left, !.back = back,
                                   !.authed = link.authed \/ (answer.cmd = "AUTH" /\ type = "status")]
            BY <1>8, <1>9, <1>11 DEF Answer
        <3> QED
            BY ONLY <3>1
    <2>2. <<>> \in Seq(CommandBytes) /\ link \in Links
        BY None
    <2> QED
        BY ONLY <1>12, <1>13, <2>1, <2>2 DEF Links
<1>15. UNCHANGED <<context, call, result, fds, tooSoon, up, died>>
    BY DEF Serve
<1>16. WireInv'
    <2>1. Len(context.obuf) + Len(<<>>) + Len(back) + Len(context.reader) <= 2
        BY ONLY <1>2, <1>13
    <2>2. Len(context.reader) < 2
        BY ONLY <1>2
    <2>3. context.obuf = <<>>
        BY <1>1, <1>4 DEF WireInv
    <2>4. Belong(<<>>, call)
        BY None
    <2> QED
        BY <1>1, <1>4, <1>6, <1>13, <1>14, <1>15, <2>1, <2>2, <2>3, <2>4 DEF WireInv, Between, Waiting
<1>17. context \in Contexts
    BY <1>1, UnderWay
<1> QED
    BY <1>1, <1>14, <1>15, <1>16, <1>17, WireStep

(* The connection is lost, with some of the answers still to be read. *)
LEMMA LostStep == ASSUME ConnInv, Lost, UNCHANGED <<context, call, result, fds, tooSoon, died>>, up' \in BOOLEAN
                  PROVE  ConnInv'
<1> USE DEF ConnInv
<1>1. PICK k \in 0..Len(link.back) :
          link' = [link EXCEPT !.open = FALSE, !.out = <<>>, !.back = SubSeq(link.back, 1, k)]
    BY DEF Lost
<1>2. PICK back : back = SubSeq(link.back, 1, k)
    OBVIOUS
<1>3. link.back \in Seq(ReplyBytes) /\ link.out \in Seq(CommandBytes)
    BY LinkFields
<1>4. back \in Seq(ReplyBytes) /\ Len(back) = k /\ \A c : Belong(link.back, c) => Belong(back, c)
    BY ONLY <1>1, <1>2, <1>3, Taken
<1>5. link' \in Links /\ link'.open = FALSE /\ link'.out = <<>> /\ link'.back = back
    <2>1. link' = [link EXCEPT !.open = FALSE, !.out = <<>>, !.back = back]
        BY <1>1, <1>2
    <2>2. <<>> \in Seq(CommandBytes)
        BY None
    <2> QED
        BY ONLY <1>4, <2>1, <2>2, link \in Links DEF Links
<1>6. WireInv'
    <2>1. CASE IsNull(context) \/ context.err # ""
        BY <1>5, <2>1 DEF WireInv
    <2>2. CASE ~ IsNull(context) /\ context.err = ""
        <3>1. Len(context.obuf) + Len(<<>>) + Len(back) + Len(context.reader) <= 2
            <4>1. /\ Len(context.obuf) \in Nat /\ Len(link.out) \in Nat
                  /\ Len(link.back) \in Nat /\ Len(context.reader) \in Nat
                  /\ Len(context.obuf) + Len(link.out) + Len(link.back) + Len(context.reader) <= 2
                BY <2>2, UnderWay
            <4>2. \A a, b, c, d \in Nat : a + b + c + d <= 2 => \A j \in 0..c : a + 0 + j + d <= 2
                OBVIOUS
            <4>3. Len(<<>>) = 0
                OBVIOUS
            <4>4. Len(back) \in 0..Len(link.back)
                BY <1>4
            <4> QED
                BY ONLY <4>1, <4>2, <4>3, <4>4
        <3>2. link.back = <<>> => back = <<>>
            <4>1. ASSUME link.back = <<>> PROVE Len(back) = 0
                BY ONLY <4>1, <1>1, <1>4
            <4> QED
                BY <1>4, <4>1, EmptyOnes
        <3>3. Belong(<<>>, call)
            BY None
        <3> QED
            BY <1>4, <1>5, <2>2, <3>1, <3>2, <3>3 DEF WireInv
    <2> QED
        BY <2>1, <2>2
<1> QED
    BY <1>5, <1>6 DEF CallInv, ContextInv, SocketInv, FlagsInv, ReplyOwn

(* Init connects, or finds that it cannot. *)
LEMMA ConnectStep == ASSUME ConnInv, Init_Connect PROVE ConnInv'
<1> USE DEF ConnInv
<1>1. IsNull(context) /\ call.at = "init" /\ tooSoon' = TRUE /\ UNCHANGED <<up, died>>
    BY DEF Init_Connect, limits
<1>2. CASE /\ Return(NotConnected, NoReply)
           /\ UNCHANGED <<link, fds, context>>
    BY <1>1, <1>2, GivesUp
<1>3. CASE /\ link' = [NoLink EXCEPT !.open = TRUE, !.authed = ~ HasPassword]
           /\ fds' = fds + 1
           /\ context' = NewContext
           /\ call' = [call EXCEPT !.at = IF HasPassword THEN "auth" ELSE "select"]
           /\ UNCHANGED result
    <2>1. call \in CallStates /\ call.method \in CacheMethods
        BY <1>1 DEF CallInv
    <2>2. PICK at \in {"auth", "select"} : call' = [call EXCEPT !.at = at]
        BY <1>3
    <2>3. call' \in CallStates /\ call'.at = at /\ call'.method = call.method
        BY ONLY <2>1, <2>2 DEF CallStates, Between
    <2>4. CallInv'
        BY <2>1, <2>3 DEF CallInv, Waiting
    <2>5. link' \in Links /\ link'.out = <<>> /\ link'.back = <<>>
        <3>1. PICK authed \in BOOLEAN : link' = [NoLink EXCEPT !.open = TRUE, !.authed = authed]
            BY <1>3
        <3>2. <<>> \in Seq(CommandBytes) /\ <<>> \in Seq(ReplyBytes)
            BY None
        <3> QED
            BY ONLY <3>1, <3>2 DEF Links, NoLink
    <2>6. /\ context' \in Contexts /\ ~ IsNull(context') /\ context'.err = "" /\ context'.obuf = <<>>
          /\ context'.reader = <<>>
        BY <1>3, Fresh, Present
    <2>7. fds' = 1
        <3>1. fds = 0
            BY <1>1 DEF SocketInv
        <3>2. fds' = fds + 1
            BY <1>3
        <3> QED
            BY ONLY <3>1, <3>2
    <2>8. SocketInv'
        BY <2>6, <2>7 DEF SocketInv
    <2>9. WireInv'
        <3>1. Len(<<>>) = 0 /\ 0 + 0 + 0 + 0 <= 2
            OBVIOUS
        <3> QED
            BY <2>3, <2>5, <2>6, <3>1 DEF WireInv, Between, Waiting
    <2>10. (ContextInv /\ FlagsInv /\ ReplyOwn)'
        BY <1>1, <1>3, <2>6 DEF ContextInv, FlagsInv, ReplyOwn
    <2> QED
        BY <2>4, <2>5, <2>8, <2>9, <2>10
<1> QED
    BY <1>2, <1>3 DEF Init_Connect

LEMMA CacheStep == ConnInv /\ [CacheNext]_cacheVars => ConnInv'
<1> SUFFICES ASSUME ConnInv, [CacheNext]_cacheVars PROVE ConnInv'
    OBVIOUS
<1>1. ASSUME NEW m \in CacheMethods, Enter(m) PROVE ConnInv'
    BY <1>1, EnterStep
<1>2. CASE Init_Connected
    BY <1>2, SendStep DEF Init_Connected, ConnInv, CallInv, Commands
<1>3. CASE Init_TooSoon
    BY <1>3, GivesUp DEF Init_TooSoon, ConnInv, FlagsInv
<1>4. CASE Init_Connect
    BY <1>4, ConnectStep
<1>5. CASE Init_Auth
    BY <1>5, SendStep DEF Init_Auth, ConnInv, SocketInv, Commands
<1>6. CASE Init_Select
    BY <1>6, SendStep DEF Init_Select, ConnInv, SocketInv, Commands
<1>7. CASE GetReply_Pending
    BY <1>7, PendingStep
<1>8. CASE Write_Some
    BY <1>8, WriteStep
<1>9. CASE Write_Error
    BY <1>9, ErrorStep DEF Write_Error, ConnInv, SocketInv
<1>10. CASE Read_Some
    BY <1>10, ReadStep
<1>11. CASE Read_Eof
    BY <1>11, ErrorStep DEF Read_Eof, ConnInv, SocketInv
<1>12. CASE GetReply_Failed
    BY <1>12, FailedStep
<1>13. CASE TakeReply
    BY <1>13, TakeStep
<1>14. CASE Serve
    BY <1>14, ServeStep
<1>15. CASE Drop
    BY <1>15, LostStep DEF Drop, ConnInv, FlagsInv
<1>16. CASE GoDown
    BY <1>16, LostStep DEF GoDown
<1>17. CASE ComeUp \/ Tick \/ Restart \/ UNCHANGED cacheVars
    <2>1. UNCHANGED <<context, call, result, link, fds>>
        BY <1>17 DEF ComeUp, Tick, Restart, cacheVars
    <2>2. FlagsInv'
        BY <1>17 DEF ComeUp, Tick, Restart, cacheVars, ConnInv, FlagsInv
    <2>3. CallInv'
        BY <2>1 DEF ConnInv, CallInv
    <2>4. SocketInv'
        BY <2>1 DEF ConnInv, SocketInv
    <2>5. WireInv'
        BY <2>1 DEF ConnInv, WireInv
    <2>6. (ContextInv /\ link \in Links /\ ReplyOwn)'
        BY <2>1 DEF ConnInv, ContextInv, ReplyOwn
    <2> QED
        BY <2>2, <2>3, <2>4, <2>5, <2>6 DEF ConnInv
<1> QED
    BY <1>1, <1>2, <1>3, <1>4, <1>5, <1>6, <1>7, <1>8, <1>9, <1>10, <1>11, <1>12, <1>13, <1>14, <1>15, <1>16,
       <1>17 DEF CacheNext, Conn

(* Whatever is lost, refused or answered late, and wherever a command or a reply
   is cut in two: a CacheConn never leaks its socket, and the reply a method
   looks at is the one to the command it has just sent. *)
THEOREM OwnReplies == CacheSpec => []ConnKept
<1>1. CacheInit => ConnInv
    <2> SUFFICES ASSUME CacheInit PROVE ConnInv
        OBVIOUS
    <2>1. CallInv
        BY NoCalls DEF CacheInit, CallInv, Waiting
    <2>2. link \in Links /\ link.open = FALSE
        <3>1. <<>> \in Seq(CommandBytes) /\ <<>> \in Seq(ReplyBytes)
            BY None
        <3>2. link = NoLink
            BY DEF CacheInit
        <3> QED
            BY ONLY <3>1, <3>2 DEF Links, NoLink
    <2>3. ContextInv /\ SocketInv /\ FlagsInv /\ ReplyOwn
        BY Present DEF CacheInit, ContextInv, SocketInv, FlagsInv, ReplyOwn, NoCall
    <2>4. WireInv
        BY <2>2, Present DEF CacheInit, WireInv
    <2> QED
        BY <2>1, <2>2, <2>3, <2>4 DEF ConnInv
<1>2. ASSUME ConnInv PROVE ConnKept
    <2>1. call.n \in 0..Calls - 1 /\ call.method \in CacheMethods \cup {""}
        BY <1>2 DEF ConnInv, CallInv, CallStates
    <2>2. fds = IF IsNull(context) THEN 0 ELSE 1
        BY <1>2 DEF ConnInv, SocketInv
    <2> QED
        BY <1>2, <2>1, <2>2 DEF ConnInv, SocketInv, FlagsInv, ConnKept, CacheTypeOK
<1> QED
    BY <1>1, <1>2, CacheStep, PTL DEF CacheSpec

-----------------------------------------------------------------------------
(* The client side of muduo. *)

(* The functors: what is queued, taken over and run. *)
LEMMA AppendNames ==
    ASSUME NEW S, NEW q \in Seq(S), NEW f \in S
    PROVE  /\ \A n : Lacks(Append(q, f), n) <=> Lacks(q, n) /\ f[1] # n
           /\ \A n : OnlyFirst(q, n) /\ f[1] # n => OnlyFirst(Append(q, f), n)
           /\ \A n : AtMostOnce(q, n) /\ f[1] # n => AtMostOnce(Append(q, f), n)
           /\ \A n : Lacks(q, n) => AtMostOnce(Append(q, f), n)
<1> DEFINE a == Append(q, f)
<1>1. /\ Len(q) \in Nat /\ Len(a) = Len(q) + 1 /\ a[Len(q) + 1] = f
      /\ \A i \in 1..Len(q) : a[i] = q[i]
    BY AppendProperties, LenProperties
<1> HIDE DEF a
<1>2. \A i \in 1..Len(a) : i \in 1..Len(q) \/ i = Len(q) + 1
    BY <1>1
<1>5. 1..Len(q) \subseteq 1..Len(a) /\ Len(q) + 1 \in 1..Len(a)
    BY <1>1
<1>3. \A n : Lacks(a, n) <=> Lacks(q, n) /\ f[1] # n
    BY <1>1, <1>2, <1>5, Zenon DEF Lacks
<1>4. \A n : OnlyFirst(q, n) /\ f[1] # n => OnlyFirst(a, n)
    BY <1>1, <1>2, Zenon DEF OnlyFirst
<1>6. \A n : AtMostOnce(q, n) /\ f[1] # n => AtMostOnce(a, n)
    BY <1>1, <1>2, Zenon DEF AtMostOnce
<1>7. \A n : Lacks(q, n) => AtMostOnce(a, n)
    BY <1>1, <1>2, Zenon DEF Lacks, AtMostOnce
<1> QED
    BY <1>3, <1>4, <1>6, <1>7 DEF a

LEMMA AppendDestroying ==
    ASSUME NEW S, NEW q \in Seq(S), NEW f \in S
    PROVE  /\ f[1] # "connectDestroyed" => Destroying(Append(q, f)) = Destroying(q)
           /\ Destroying(Append(q, f)) \subseteq Destroying(q) \cup {f[2]}
<1> DEFINE a == Append(q, f)
<1>1. /\ Len(q) \in Nat /\ Len(a) = Len(q) + 1 /\ a[Len(q) + 1] = f
      /\ \A i \in 1..Len(q) : a[i] = q[i]
    BY AppendProperties, LenProperties
<1> HIDE DEF a
<1>2. \A i \in 1..Len(a) : i \in 1..Len(q) \/ i = Len(q) + 1
    BY <1>1
<1>3. 1..Len(q) \subseteq 1..Len(a)
    BY <1>1
<1>4. f[1] # "connectDestroyed" => Destroying(a) \subseteq Destroying(q)
    BY <1>1, <1>2 DEF Destroying
<1>5. Destroying(q) \subseteq Destroying(a)
    BY <1>1, <1>3 DEF Destroying
<1>6. Destroying(a) \subseteq Destroying(q) \cup {f[2]}
    BY <1>1, <1>2 DEF Destroying
<1> QED
    BY <1>4, <1>5, <1>6 DEF a

LEMMA TailNames ==
    ASSUME NEW S, NEW q \in Seq(S), q # <<>>
    PROVE  /\ \A n : Lacks(q, n) => Lacks(Tail(q), n)
           /\ \A n : ~ Lacks(q, n) /\ Head(q)[1] # n => ~ Lacks(Tail(q), n)
           /\ \A n : OnlyFirst(q, n) => Lacks(Tail(q), n) /\ OnlyFirst(Tail(q), n)
           /\ \A n : AtMostOnce(q, n) => AtMostOnce(Tail(q), n)
           /\ \A n : AtMostOnce(q, n) /\ Head(q)[1] = n => Lacks(Tail(q), n)
           /\ Destroying(Tail(q)) \subseteq Destroying(q)
           /\ Head(q)[1] = "connectDestroyed" => Head(q)[2] \in Destroying(q)
<1> DEFINE t == Tail(q)
<1>1. /\ Len(q) \in Nat \ {0} /\ Len(t) = Len(q) - 1 /\ \A i \in 1..Len(t) : t[i] = q[i + 1]
    BY HeadTailProperties, EmptySeq
<1>2. PICK h : h = Head(q)
    OBVIOUS
<1>3. h = q[1]
    BY <1>2
<1> HIDE DEF t
<1>4. /\ \A i \in 1..Len(t) : i + 1 \in 1..Len(q) /\ i + 1 # 1
      /\ \A i, j \in 1..Len(t) : i + 1 = j + 1 => i = j
      /\ \A i \in 1..Len(q) : i = 1 \/ \E j \in 1..Len(t) : i = j + 1
      /\ 1 \in 1..Len(q)
    <2>1. \A i \in 1..Len(q) : i = 1 \/ (i - 1 \in 1..Len(t) /\ i = (i - 1) + 1)
        BY <1>1
    <2> QED
        BY <1>1, <2>1
<1>5. \A n : Lacks(q, n) => Lacks(t, n)
    BY <1>1, <1>4 DEF Lacks
<1>6. ASSUME NEW n, ~ Lacks(q, n), h[1] # n PROVE ~ Lacks(t, n)
    <2>1. PICK i \in 1..Len(q) : q[i][1] = n
        BY <1>6 DEF Lacks
    <2>2. i # 1
        BY <1>3, <1>6, <2>1
    <2>3. PICK j \in 1..Len(t) : i = j + 1
        BY <1>4, <2>2
    <2>4. t[j] = q[i]
        BY <1>1, <2>3
    <2> QED
        BY <2>1, <2>4 DEF Lacks
<1>7. \A n : OnlyFirst(q, n) => Lacks(t, n) /\ OnlyFirst(t, n)
    BY <1>1, <1>4 DEF OnlyFirst, Lacks
<1>8. ASSUME NEW n, AtMostOnce(q, n) PROVE AtMostOnce(t, n)
    <2>1. ASSUME NEW i \in 1..Len(t), NEW j \in 1..Len(t), t[i][1] = n, t[j][1] = n PROVE i = j
        <3>1. /\ i + 1 \in 1..Len(q) /\ j + 1 \in 1..Len(q)
              /\ t[i] = q[i + 1] /\ t[j] = q[j + 1]
            BY <1>1, <1>4
        <3>2. i + 1 = j + 1
            BY <1>8, <2>1, <3>1 DEF AtMostOnce
        <3> QED
            BY <1>4, <3>2
    <2> QED
        BY <2>1 DEF AtMostOnce
<1>9. \A n : AtMostOnce(q, n) /\ h[1] = n => Lacks(t, n)
    BY <1>1, <1>3, <1>4 DEF AtMostOnce, Lacks
<1>10. Destroying(t) \subseteq Destroying(q)
    BY <1>1, <1>4 DEF Destroying
<1>11. h[1] = "connectDestroyed" => h[2] \in Destroying(q)
    BY <1>3, <1>4 DEF Destroying
<1> QED
    BY <1>2, <1>5, <1>6, <1>7, <1>8, <1>9, <1>10, <1>11 DEF t

LEMMA ConcatNames ==
    ASSUME NEW S, NEW p \in Seq(S), NEW q \in Seq(S)
    PROVE  \A n : Lacks(p \o q, n) <=> Lacks(p, n) /\ Lacks(q, n)
<1> DEFINE c == p \o q
<1>1. /\ Len(p) \in Nat /\ Len(q) \in Nat /\ Len(c) = Len(p) + Len(q)
      /\ \A i \in 1..Len(p) + Len(q) : c[i] = IF i <= Len(p) THEN p[i] ELSE q[i - Len(p)]
    BY ConcatProperties, LenProperties
<1> HIDE DEF c
<1>2. /\ \A i \in 1..Len(p) : i \in 1..Len(c) /\ c[i] = p[i]
      /\ \A i \in 1..Len(q) : Len(p) + i \in 1..Len(c) /\ c[Len(p) + i] = q[i]
    BY <1>1
<1>3. \A i \in 1..Len(c) : (i \in 1..Len(p) /\ c[i] = p[i]) \/ (i - Len(p) \in 1..Len(q) /\ c[i] = q[i - Len(p)])
    BY <1>1
<1>4. \A n : Lacks(c, n) => Lacks(p, n) /\ Lacks(q, n)
    BY <1>2 DEF Lacks
<1>5. \A n : Lacks(p, n) /\ Lacks(q, n) => Lacks(c, n)
    BY <1>3 DEF Lacks
<1> QED
    BY <1>4, <1>5 DEF c

LEMMA TailConcat ==
    ASSUME NEW S, NEW p \in Seq(S), NEW q \in Seq(S), p # <<>>
    PROVE  p \o q # <<>> /\ Head(p \o q) = Head(p) /\ Tail(p \o q) = Tail(p) \o q
<1> DEFINE c == p \o q   t == Tail(p \o q)  u == Tail(p) \o q
<1>1. /\ Len(p) \in Nat \ {0} /\ Len(q) \in Nat /\ c \in Seq(S) /\ Len(c) = Len(p) + Len(q)
      /\ \A i \in 1..Len(c) : c[i] = IF i <= Len(p) THEN p[i] ELSE q[i - Len(p)]
    BY ConcatProperties, LenProperties, EmptySeq
<1>2. c # <<>>
    <2>1. Len(c) # 0
        BY ONLY <1>1
    <2> QED
        BY ONLY <2>1
<1>3. Tail(p) \in Seq(S) /\ Len(Tail(p)) = Len(p) - 1 /\ \A i \in 1..Len(Tail(p)) : Tail(p)[i] = p[i + 1]
    BY HeadTailProperties
<1>4. t \in Seq(S) /\ Len(t) = Len(c) - 1 /\ \A i \in 1..Len(t) : t[i] = c[i + 1]
    BY <1>1, <1>2, HeadTailProperties
<1>5. /\ u \in Seq(S) /\ Len(u) = Len(Tail(p)) + Len(q)
      /\ \A i \in 1..Len(u) : u[i] = IF i <= Len(Tail(p)) THEN Tail(p)[i] ELSE q[i - Len(Tail(p))]
    BY <1>3, ConcatProperties
<1>6. PICK r : r = Tail(p)
    OBVIOUS
<1> HIDE DEF t, u, c
<1>7. Len(t) = Len(u)
    BY ONLY <1>1, <1>3, <1>4, <1>5
<1>8. ASSUME NEW i \in 1..Len(t) PROVE t[i] = u[i]
    <2>1. t[i] = c[i + 1] /\ i + 1 \in 1..Len(c) /\ i \in 1..Len(u)
        BY <1>1, <1>4, <1>7
    <2>2. CASE i <= Len(r)
        <3>1. i + 1 <= Len(p) /\ i \in 1..Len(r)
            BY <1>1, <1>3, <1>6, <2>2
        <3> QED
            BY <1>1, <1>3, <1>5, <1>6, <2>1, <2>2, <3>1
    <2>3. CASE ~ (i <= Len(r))
        <3>1. ~ (i + 1 <= Len(p)) /\ i + 1 - Len(p) = i - Len(r)
            BY <1>1, <1>3, <1>6, <2>3
        <3>2. c[i + 1] = q[i + 1 - Len(p)]
            BY <1>1, <2>1, <3>1
        <3>3. u[i] = q[i - Len(r)]
            BY <1>5, <1>6, <2>1, <2>3
        <3> QED
            BY <2>1, <3>1, <3>2, <3>3
    <2> QED
        BY <2>2, <2>3
<1>9. t = u
    BY <1>4, <1>5, <1>7, <1>8, SeqEqual
<1>10. c[1] = p[1]
    BY <1>1
<1> QED
    BY <1>2, <1>9, <1>10 DEF t, u, c

LEMMA Lacking == \A q, n : Lacks(q, n) => OnlyFirst(q, n) /\ AtMostOnce(q, n)
    BY DEF Lacks, OnlyFirst, AtMostOnce

(* What queueing a functor f does to the functors that wait. *)
LEMMA QueueStep ==
    ASSUME ClientTypes, NEW f \in Functors, Queue(f), UNCHANGED running
    PROVE  /\ pendingFunctors' \in Seq(Functors) /\ pendingFunctors' # <<>>
           /\ \A n : Lacks(pendingFunctors', n) <=> Lacks(pendingFunctors, n) /\ f[1] # n
           /\ \A n : Lacks(Functions', n) <=> Lacks(Functions, n) /\ f[1] # n
           /\ \A n : OnlyFirst(Functions, n) /\ f[1] # n => OnlyFirst(Functions', n)
           /\ \A n : AtMostOnce(Functions, n) /\ f[1] # n => AtMostOnce(Functions', n)
           /\ \A n : Lacks(Functions, n) => AtMostOnce(Functions', n)
           /\ f[1] # "connectDestroyed" => Destroying(Functions') = Destroying(Functions)
           /\ Destroying(Functions') \subseteq Destroying(Functions) \cup {f[2]}
<1> PICK p, r, q, x : p = pendingFunctors /\ r = running /\ q = r \o p /\ x = Append(q, f)
    OBVIOUS
<1>1. p \in Seq(Functors) /\ r \in Seq(Functors)
    BY DEF ClientTypes
<1>2. q \in Seq(Functors)
    BY ONLY <1>1, q = r \o p, ConcatProperties
<1>3. pendingFunctors' = Append(p, f) /\ Append(p, f) \in Seq(Functors) /\ Append(p, f) # <<>>
    BY <1>1, AppendProperties DEF Queue
<1>4. Functions' = x
    <2>1. /\ Append(p, f) = p \o <<f>> /\ Append(q, f) = q \o <<f>> /\ <<f>> \in Seq(Functors)
        BY <1>1, <1>2, AppendIsConcat
    <2>2. (r \o p) \o <<f>> = r \o (p \o <<f>>)
        BY ONLY <1>1, <2>1, ConcatAssociative
    <2> QED
        BY <1>3, <2>1, <2>2 DEF Functions
<1>5. Functions = q
    BY DEF Functions
<1>6. \A n : Lacks(Append(p, f), n) <=> Lacks(p, n) /\ f[1] # n
    BY ONLY <1>1, f \in Functors, AppendNames
<1>7. /\ \A n : Lacks(Append(q, f), n) <=> Lacks(q, n) /\ f[1] # n
      /\ \A n : OnlyFirst(q, n) /\ f[1] # n => OnlyFirst(Append(q, f), n)
      /\ \A n : AtMostOnce(q, n) /\ f[1] # n => AtMostOnce(Append(q, f), n)
      /\ \A n : Lacks(q, n) => AtMostOnce(Append(q, f), n)
      /\ f[1] # "connectDestroyed" => Destroying(Append(q, f)) = Destroying(q)
      /\ Destroying(Append(q, f)) \subseteq Destroying(q) \cup {f[2]}
    BY ONLY <1>2, f \in Functors, AppendNames, AppendDestroying
<1> QED
    BY ONLY <1>1, <1>3, <1>4, <1>5, <1>6, <1>7, p = pendingFunctors, x = Append(q, f)

(* What running the first of them does. *)
LEMMA RunStep ==
    ASSUME ClientTypes, NEW name, Functor(name), UNCHANGED pendingFunctors
    PROVE  /\ running' \in Seq(Functors) /\ Head(running) \in Functors /\ Head(running)[1] = name
           /\ clientAt = "functors"
           /\ ~ Lacks(running, name) /\ ~ Lacks(Functions, name)
           /\ \A n : Lacks(running, n) => Lacks(running', n)
           /\ \A n : ~ Lacks(running, n) /\ n # name => ~ Lacks(running', n)
           /\ \A n : Lacks(Functions, n) => Lacks(Functions', n)
           /\ \A n : ~ Lacks(Functions, n) /\ n # name => ~ Lacks(Functions', n)
           /\ \A n : OnlyFirst(Functions, n) => Lacks(Functions', n)
           /\ \A n : AtMostOnce(Functions, n) => AtMostOnce(Functions', n)
           /\ AtMostOnce(Functions, name) => Lacks(Functions', name)
           /\ Destroying(Functions') \subseteq Destroying(Functions)
           /\ name = "connectDestroyed" => Head(running)[2] \in Destroying(Functions)
<1> PICK p, r, q, h : p = pendingFunctors /\ r = running /\ q = r \o p /\ h = Head(r)
    OBVIOUS
<1>1. p \in Seq(Functors) /\ r \in Seq(Functors) /\ r # <<>> /\ running' = Tail(r) /\ h[1] = name
    BY DEF ClientTypes, Functor
<1>2. q \in Seq(Functors) /\ q # <<>> /\ Head(q) = h /\ Tail(q) = Tail(r) \o p
    <2>1. q \in Seq(Functors)
        BY ONLY <1>1, q = r \o p, ConcatProperties
    <2> QED
        BY <1>1, <2>1, TailConcat
<1>3. Functions = q /\ Functions' = Tail(q)
    BY <1>1, <1>2 DEF Functions
<1>4. h \in Functors /\ Tail(r) \in Seq(Functors)
    BY <1>1, HeadTailProperties
<1>5. ~ Lacks(r, name)
    <2>1. Len(r) \in Nat \ {0} /\ h = r[1]
        BY <1>1, EmptySeq
    <2>2. 1 \in 1..Len(r)
        BY ONLY <2>1
    <2> QED
        BY <1>1, <2>1, <2>2 DEF Lacks
<1>6. ~ Lacks(q, name)
    BY <1>1, <1>5, ConcatNames
<1>7. clientAt = "functors"
    BY DEF Functor
<1>8. /\ \A n : Lacks(r, n) => Lacks(Tail(r), n)
      /\ \A n : ~ Lacks(r, n) /\ h[1] # n => ~ Lacks(Tail(r), n)
    BY <1>1, TailNames
<1>9. /\ \A n : Lacks(q, n) => Lacks(Tail(q), n)
      /\ \A n : ~ Lacks(q, n) /\ h[1] # n => ~ Lacks(Tail(q), n)
      /\ \A n : OnlyFirst(q, n) => Lacks(Tail(q), n) /\ OnlyFirst(Tail(q), n)
      /\ \A n : AtMostOnce(q, n) => AtMostOnce(Tail(q), n)
      /\ \A n : AtMostOnce(q, n) /\ h[1] = n => Lacks(Tail(q), n)
      /\ Destroying(Tail(q)) \subseteq Destroying(q)
      /\ h[1] = "connectDestroyed" => h[2] \in Destroying(q)
    BY <1>2, TailNames
<1> QED
    BY <1>1, <1>3, <1>4, <1>5, <1>6, <1>7, <1>8, <1>9

LEMMA DoubledNat == ASSUME NEW d \in Nat PROVE Doubled(d) \in Nat
    BY DelayAssumption DEF Doubled

(* The ways an attempt to connect begins and ends. *)
LEMMA RetryOutcome ==
    ASSUME NEW c \in Connectors, NEW t \in Nat, NEW s \in 0..MaxSockets, openSockets \subseteq Sockets, Retry(c, t, s)
    PROVE  /\ connector' \in Connectors /\ connector'.state = "kDisconnected"
           /\ connector'.connect = c.connect /\ connector'.channel = c.channel /\ connector'.polled = c.polled
           /\ openSockets' = openSockets \ {s} /\ openSockets' \subseteq Sockets
           /\ timers' = IF c.connect THEN t + 1 ELSE t
<1>1. PICK d \in Nat : connector' = [c EXCEPT !.state = "kDisconnected", !.delay = d]
    <2>1. c.delay \in Nat /\ Doubled(c.delay) \in Nat
        BY DoubledNat DEF Connectors
    <2> QED
        BY <2>1, Zenon DEF Retry
<1>2. /\ connector' \in Connectors /\ connector'.state = "kDisconnected"
      /\ connector'.connect = c.connect /\ connector'.channel = c.channel /\ connector'.polled = c.polled
    BY ONLY <1>1, c \in Connectors DEF Connectors, States
<1>3. openSockets' = openSockets \ {s} /\ timers' = IF c.connect THEN t + 1 ELSE t
    BY DEF Retry
<1> QED
    BY <1>2, <1>3

LEMMA StartOutcome ==
    ASSUME ClientTypes, connector.state = "kDisconnected", connector.polled = FALSE, StartInLoop(connector, 0)
    PROVE  /\ connector' \in Connectors /\ connector'.connect = connector.connect
           /\ asserted' = (asserted /\ (connector.connect => connector.channel = NoSocket))
           /\ openSockets' \subseteq Sockets /\ socketsMade' \in 0..MaxSockets /\ timers' \in 0..1
           /\ \/ /\ connector.connect = TRUE /\ socketsMade + 1 \in Sockets
                 /\ socketsMade' = socketsMade + 1 /\ timers' = 0
                 /\ connector'.state = "kConnecting" /\ connector'.channel = socketsMade + 1 /\ connector'.polled = TRUE
                 /\ openSockets' = openSockets \cup {socketsMade + 1}
              \/ /\ connector'.state = "kDisconnected" /\ connector'.channel = connector.channel
                 /\ connector'.polled = FALSE /\ socketsMade <= socketsMade'
                 /\ openSockets' = openSockets \ {socketsMade + 1} \/ UNCHANGED openSockets
<1>1. connector \in Connectors /\ socketsMade \in 0..MaxSockets /\ openSockets \subseteq Sockets /\ socketsMade \in Nat
    BY DEF ClientTypes
<1>2. asserted' = (asserted /\ (connector.connect => connector.channel = NoSocket))
    BY DEF StartInLoop
<1>3. CASE ~ connector.connect /\ connector' = connector /\ timers' = 0 /\ UNCHANGED <<openSockets, socketsMade>>
    BY <1>1, <1>2, <1>3
<1>4. CASE connector.connect /\ Attempt(connector, 0)
    <2>1. socketsMade' = socketsMade + 1 /\ socketsMade + 1 \in 0..MaxSockets /\ socketsMade <= socketsMade + 1
        <3>1. socketsMade < MaxSockets /\ socketsMade' = socketsMade + 1
            BY <1>4 DEF Attempt
        <3> QED
            BY ONLY <1>1, <3>1, SocketsAssumption
    <2>2. socketsMade + 1 \in Sockets /\ connector.connect = TRUE
        BY <1>1, <1>4, <2>1 DEF Sockets, Connectors
    <2>3. CASE /\ connector' = [connector EXCEPT !.state = "kConnecting", !.channel = socketsMade + 1, !.polled = TRUE]
               /\ openSockets' = openSockets \cup {socketsMade + 1} /\ timers' = 0
        <3>1. /\ connector' \in Connectors /\ connector'.connect = connector.connect
              /\ connector'.state = "kConnecting" /\ connector'.channel = socketsMade + 1 /\ connector'.polled = TRUE
            BY ONLY <1>1, <2>1, <2>3 DEF Connectors, States
        <3> QED
            BY <1>1, <1>2, <2>1, <2>2, <2>3, <3>1
    <2>4. CASE Retry(connector, 0, socketsMade + 1)
        <3>1. /\ connector' \in Connectors /\ connector'.state = "kDisconnected"
              /\ connector'.connect = connector.connect /\ connector'.channel = connector.channel
              /\ connector'.polled = connector.polled
              /\ openSockets' = openSockets \ {socketsMade + 1} /\ openSockets' \subseteq Sockets
              /\ timers' = IF connector.connect THEN 0 + 1 ELSE 0
            BY <1>1, <2>1, <2>4, RetryOutcome
        <3>2. timers' \in 0..1
            BY ONLY <2>2, <3>1
        <3> QED
            BY <1>1, <1>2, <2>1, <3>1, <3>2
    <2>5. CASE connector' = connector /\ timers' = 0 /\ UNCHANGED openSockets
        BY <1>1, <1>2, <2>1, <2>5
    <2> QED
        BY <1>4, <2>3, <2>4, <2>5 DEF Attempt
<1> QED
    BY <1>3, <1>4 DEF StartInLoop

(* startInLoop, wherever it is called from: nothing else drives the client, and
   unless stop() has been called the last channel has been reset. *)
LEMMA StartStep ==
    ASSUME ClientInv, connector.state = "kDisconnected", StartInLoop(connector, 0),
           running' \in Seq(Functors), pendingFunctors' \in Seq(Functors), active' = {},
           clientAt' \in {"events", "functors"}, clientAt' = "events" => running' = <<>>,
           \A n : Lacks(Functions, n) => Lacks(Functions', n),
           \A n : ~ Lacks(Functions, n) /\ n # "startInLoop" => ~ Lacks(Functions', n),
           \A n : AtMostOnce(Functions, n) => AtMostOnce(Functions', n),
           Destroying(Functions') \subseteq Destroying(Functions),
           Lacks(Functions', "startInLoop"),
           ~ stopped => connector.channel = NoSocket,
           UNCHANGED <<client, connState, historyVars>>
    PROVE  ClientInv'
<1> USE DEF ClientInv
<1>1. connector \in Connectors /\ connector.polled = FALSE /\ Live = {} /\ socketsMade \in Nat
    <2>1. connector \in Connectors /\ socketsMade \in Nat
        BY DEF ClientTypes
    <2>2. ~ connector.polled /\ Live = {}
        BY DEF OneDriver
    <2> QED
        BY <2>1, <2>2 DEF Connectors
<1>2. /\ connector' \in Connectors /\ connector'.connect = connector.connect
      /\ asserted' = (asserted /\ (connector.connect => connector.channel = NoSocket))
      /\ openSockets' \subseteq Sockets /\ socketsMade' \in 0..MaxSockets /\ timers' \in 0..1
    BY <1>1, StartOutcome
<1>3. \/ /\ connector.connect = TRUE /\ socketsMade + 1 \in Sockets
         /\ socketsMade' = socketsMade + 1 /\ timers' = 0
         /\ connector'.state = "kConnecting" /\ connector'.channel = socketsMade + 1 /\ connector'.polled = TRUE
         /\ openSockets' = openSockets \cup {socketsMade + 1}
      \/ /\ connector'.state = "kDisconnected" /\ connector'.channel = connector.channel
         /\ connector'.polled = FALSE /\ socketsMade <= socketsMade'
         /\ openSockets' = openSockets \ {socketsMade + 1} \/ UNCHANGED openSockets
    BY <1>1, StartOutcome
<1> DEFINE Attempts == /\ connector.connect = TRUE /\ socketsMade + 1 \in Sockets
                       /\ socketsMade' = socketsMade + 1 /\ timers' = 0
                       /\ connector'.state = "kConnecting" /\ connector'.channel = socketsMade + 1
                       /\ connector'.polled = TRUE /\ openSockets' = openSockets \cup {socketsMade + 1}
           Rests == /\ connector'.state = "kDisconnected" /\ connector'.channel = connector.channel
                    /\ connector'.polled = FALSE /\ socketsMade <= socketsMade'
                    /\ openSockets' = openSockets \ {socketsMade + 1} \/ UNCHANGED openSockets
<1>4. Attempts \/ Rests
    BY <1>3
<1>5. ClientTypes'
    BY <1>2 DEF ClientTypes
<1>6. timers' = 0 \/ timers' = 1
    BY <1>2
<1>7. Live' = {}
    BY <1>1 DEF Live
<1>8. OneDriver'
    <2>1. clientAt' \notin {"idle", "restart", "startInLoop"}
        OBVIOUS
    <2>2. OnlyFirst(Functions', "startInLoop")
        BY Lacking
    <2>3. CASE Attempts
        BY <1>7, <2>1, <2>2, <2>3 DEF OneDriver
    <2>4. CASE Rests
        BY <1>6, <1>7, <2>1, <2>2, <2>4 DEF OneDriver
    <2> QED
        BY <1>4, <2>3, <2>4
<1>9. OneEvent'
    BY DEF OneEvent
<1>10. ResetFirst'
    <2> SUFFICES ASSUME ~ stopped PROVE ResetFirst'
        BY DEF ResetFirst, historyVars
    <2>1. Lacks(Functions', "stopInLoop")
        BY DEF ResetFirst
    <2>2. connector'.polled \/ connector'.channel = NoSocket
        BY <1>4
    <2> QED
        BY <2>1, <2>2 DEF ResetFirst
<1>11. StoppedInv'
    <2> SUFFICES ASSUME stopped, ~ overtaken PROVE StoppedInv'
        BY DEF StoppedInv, historyVars
    <2>1. ~ connector.connect /\ ~ client.connect
        BY DEF StoppedInv
    <2>2. Rests
        BY <1>4, <2>1
    <2> QED
        BY <1>2, <2>1, <2>2 DEF StoppedInv, historyVars
<1>12. SocketsInv'
    <2> SUFFICES ASSUME asserted' PROVE SocketsInv'
        BY DEF SocketsInv
    <2>1. asserted /\ (connector.connect => connector.channel = NoSocket)
        BY <1>2
    <2>2. /\ openSockets = {s \in Sockets : connState[s] # "none"}
          /\ \A s \in Sockets : connState[s] # "none" => s <= socketsMade
          /\ ~ Lacks(Functions, "resetChannel") => connector.channel # NoSocket
          /\ AtMostOnce(Functions, "resetChannel") /\ Destroying(Functions) \subseteq 1..socketsMade
        BY <1>1, <2>1 DEF SocketsInv, SocketsOwned
    <2>3. ~ (socketsMade + 1 <= socketsMade) /\ socketsMade + 1 \notin 1..socketsMade /\ socketsMade + 1 # 0
        BY <1>1
    <2>4. socketsMade + 1 \notin Destroying(Functions') /\ socketsMade + 1 \notin openSockets
        BY <2>2, <2>3
    <2>5. CASE Attempts
        <3>1. Lacks(Functions', "resetChannel") /\ AtMostOnce(Functions', "resetChannel")
            BY <2>1, <2>2, <2>5
        <3>2. connState[socketsMade + 1] = "none"
            BY <2>2, <2>3, <2>5
        <3>3. SocketsOwned'
            BY <2>2, <2>5 DEF SocketsOwned
        <3>4. Destroying(Functions') \subseteq 1..(socketsMade + 1)
            BY <1>1, <2>2
        <3>5. \A s \in Sockets : connState[s] # "none" => s <= socketsMade + 1
            BY <1>1, <2>2 DEF Sockets
        <3> QED
            BY <2>3, <2>4, <2>5, <3>1, <3>2, <3>3, <3>4, <3>5 DEF SocketsInv, NoSocket
    <2>6. CASE Rests
        <3>1. openSockets' = openSockets
            BY <2>4, <2>6
        <3>2. SocketsOwned'
            BY <2>2, <2>6, <3>1 DEF SocketsOwned
        <3>3. socketsMade' \in Nat
            BY <1>2
        <3>4. Destroying(Functions') \subseteq 1..socketsMade'
            BY <1>1, <2>2, <2>6, <3>3
        <3>5. \A s \in Sockets : connState[s] # "none" => s <= socketsMade'
            BY <1>1, <2>2, <2>6, <3>3 DEF Sockets
        <3>6. /\ ~ Lacks(Functions', "resetChannel") => connector.channel # NoSocket
              /\ AtMostOnce(Functions', "resetChannel")
            BY <2>2
        <3> QED
            BY <2>6, <3>2, <3>4, <3>5, <3>6 DEF SocketsInv
    <2> QED
        BY <1>4, <2>5, <2>6
<1>13. AssertionsHold'
    <2> SUFFICES ASSUME ~ overtaken PROVE asserted'
        BY DEF AssertionsHold, historyVars
    <2>1. asserted
        BY DEF AssertionsHold
    <2>2. connector.connect => connector.channel = NoSocket
        BY DEF StoppedInv
    <2> QED
        BY <1>2, <2>1, <2>2
<1>14. OneConnection'
    BY DEF OneConnection
<1> QED
    BY <1>5, <1>8, <1>9, <1>10, <1>11, <1>12, <1>13, <1>14

(* One lemma for each action of the loop and of the other threads. *)
LEMMA ClientStutters ==
    ClientInv /\ UNCHANGED clientVars => ClientInv'
BY DEF ClientInv, clientVars, loopVars, historyVars, ClientTypes, OneDriver, OneEvent, ResetFirst, StoppedInv,
       SocketsInv, SocketsOwned, AssertionsHold, OneConnection, Functions, Live

LEMMA SocketNumbers == 0..MaxSockets = Sockets \cup {NoSocket} /\ NoSocket \notin Sockets
BY SocketsAssumption DEF Sockets, NoSocket

LEMMA QueueOne ==
    ASSUME ClientTypes, running = <<>>, pendingFunctors = <<>>, NEW f \in Functors, Queue(f), UNCHANGED running
    PROVE  \A n : Lacks(Functions, n) /\ OnlyFirst(Functions', n)
<1>1. Functions = <<>>
    BY DEF Functions
<1>2. Functions' = <<f>>
    BY DEF Functions, Queue
<1> QED
    BY <1>1, <1>2 DEF Lacks, OnlyFirst

LEMMA ConnectKeeps == ASSUME ClientInv, ClientConnect PROVE ClientInv'
<1> USE DEF ClientInv
<1> DEFINE f == <<"startInLoop", NoSocket>>
<1>1. f \in Functors /\ f[1] = "startInLoop"
    BY SocketNumbers DEF Functors, FunctorNames
<1> HIDE DEF f
<1>2. /\ clientAt = "idle" /\ clientAt' = "poll" /\ Queue(f)
      /\ UNCHANGED <<connState, openSockets, socketsMade, timers, running, active, stopped, overtaken, asserted>>
    BY DEF ClientConnect, f, historyVars
<1>3. client \in Clients /\ client' = [client EXCEPT !.connect = TRUE]
    BY DEF ClientConnect, ClientTypes
<1>4. client' \in Clients /\ client'.connection = client.connection
    BY ONLY <1>3 DEF Clients
<1>5. connector \in Connectors /\ connector' = [connector EXCEPT !.connect = TRUE]
    BY DEF ClientConnect, ClientTypes
<1>6. /\ connector' \in Connectors /\ connector'.state = connector.state
      /\ connector'.channel = connector.channel /\ connector'.polled = connector.polled
    BY ONLY <1>5 DEF Connectors
<1>7. /\ connector.state = "kDisconnected" /\ timers = 0 /\ running = <<>> /\ pendingFunctors = <<>>
      /\ connector.channel = NoSocket /\ ~ stopped /\ Live = {}
    BY <1>2 DEF OneDriver
<1>8. \A n : Lacks(Functions, n) /\ OnlyFirst(Functions', n)
    BY <1>1, <1>2, <1>7, QueueOne
<1>9. /\ pendingFunctors' \in Seq(Functors) /\ \A n : Lacks(Functions', n) <=> f[1] # n
      /\ \A n : AtMostOnce(Functions', n)
      /\ Destroying(Functions') = Destroying(Functions)
    BY <1>1, <1>2, <1>8, QueueStep
<1>10. ClientTypes'
    BY <1>2, <1>4, <1>6, <1>9 DEF ClientTypes
<1>11. OneDriver'
    <2>1. Live' = {}
        BY <1>2, <1>7 DEF Live
    <2> QED
        BY <1>2, <1>6, <1>7, <1>8, <2>1 DEF OneDriver
<1>12. OneEvent'
    BY <1>2, <1>6, <1>7 DEF OneEvent
<1>13. ResetFirst'
    BY <1>1, <1>2, <1>6, <1>7, <1>9 DEF ResetFirst
<1>14. StoppedInv'
    BY <1>2, <1>7 DEF StoppedInv
<1>15. SocketsInv'
    BY <1>1, <1>2, <1>6, <1>7, <1>8, <1>9 DEF SocketsInv, SocketsOwned, OneDriver
<1>16. AssertionsHold' /\ OneConnection'
    BY <1>2, <1>4 DEF AssertionsHold, OneConnection
<1> QED
    BY <1>10, <1>11, <1>12, <1>13, <1>14, <1>15, <1>16

LEMMA DisconnectKeeps == ASSUME ClientInv, ClientDisconnect PROVE ClientInv'
<1> USE DEF ClientInv
<1>1. /\ clientAt # "idle" /\ client \in Clients /\ client' = [client EXCEPT !.connect = FALSE]
      /\ UNCHANGED <<connector, openSockets, socketsMade, timers, running, clientAt, active, stopped, overtaken,
                     asserted>>
    BY DEF ClientDisconnect, ClientTypes, historyVars
<1>2. client' \in Clients /\ client'.connection = client.connection /\ ~ client'.connect
    BY ONLY <1>1 DEF Clients
<1>3. CASE UNCHANGED <<connState, pendingFunctors>>
    <2>1. ClientTypes' /\ OneDriver' /\ OneEvent' /\ ResetFirst'
        BY <1>1, <1>2, <1>3 DEF ClientTypes, OneDriver, OneEvent, ResetFirst, Functions, Live
    <2>2. StoppedInv' /\ SocketsInv' /\ AssertionsHold' /\ OneConnection'
        BY <1>1, <1>2, <1>3 DEF StoppedInv, SocketsInv, SocketsOwned, AssertionsHold, OneConnection, Functions
    <2> QED
        BY <2>1, <2>2
<1>4. ASSUME NEW s \in Sockets, s = client.connection, connState[s] = "kConnected",
             connState' = [connState EXCEPT ![s] = "kDisconnecting"], Queue(<<"shutdownInLoop", s>>)
      PROVE  ClientInv'
    <2> DEFINE f == <<"shutdownInLoop", s>>
    <2>1. f \in Functors /\ f[1] = "shutdownInLoop"
        BY SocketNumbers DEF Functors, FunctorNames
    <2> HIDE DEF f
    <2>2. Queue(f) /\ UNCHANGED running
        BY <1>1, <1>4 DEF f
    <2>3. /\ pendingFunctors' \in Seq(Functors)
          /\ \A n : Lacks(pendingFunctors', n) <=> Lacks(pendingFunctors, n) /\ f[1] # n
          /\ \A n : Lacks(Functions', n) <=> Lacks(Functions, n) /\ f[1] # n
          /\ \A n : OnlyFirst(Functions, n) /\ f[1] # n => OnlyFirst(Functions', n)
          /\ \A n : AtMostOnce(Functions, n) /\ f[1] # n => AtMostOnce(Functions', n)
          /\ Destroying(Functions') = Destroying(Functions)
        BY <2>1, <2>2, QueueStep
    <2>4. connState' \in [Sockets -> {"none", "kConnected", "kDisconnecting", "kDisconnected"}]
        BY <1>4 DEF ClientTypes
    <2>5. \A x \in Sockets : /\ connState'[x] = "none" <=> connState[x] = "none"
                             /\ connState'[x] \in {"kConnected", "kDisconnecting"} <=>
                                    connState[x] \in {"kConnected", "kDisconnecting"}
        BY <1>4, <2>4 DEF ClientTypes
    <2>6. Live' = Live
        BY <2>5 DEF Live
    <2>7. ClientTypes' /\ OneDriver'
        BY <1>1, <1>2, <2>1, <2>3, <2>4, <2>6 DEF ClientTypes, OneDriver
    <2>8. OneEvent' /\ ResetFirst' /\ StoppedInv'
        BY <1>1, <1>2, <2>1, <2>3 DEF OneEvent, ResetFirst, StoppedInv
    <2>9. AssertionsHold' /\ OneConnection'
        BY <1>1, <1>2, <2>5 DEF AssertionsHold, OneConnection
    <2>10. SocketsInv'
        <3> SUFFICES ASSUME asserted PROVE SocketsInv'
            BY <1>1 DEF SocketsInv
        <3>1. SocketsOwned'
            BY <1>1, <2>5 DEF SocketsInv, SocketsOwned
        <3>2. connector.polled => socketsMade \in Sockets
            BY SocketNumbers, <1>1 DEF SocketsInv, ClientTypes
        <3>3. connector.polled => connState'[socketsMade] = "none"
            BY <2>5, <3>2 DEF SocketsInv
        <3> QED
            BY <1>1, <2>1, <2>3, <2>5, <3>1, <3>3 DEF SocketsInv
    <2> QED
        BY <2>7, <2>8, <2>9, <2>10
<1> QED
    BY <1>3, <1>4 DEF ClientDisconnect

LEMMA StopKeeps == ASSUME ClientInv, ClientStop PROVE ClientInv'
<1> USE DEF ClientInv
<1> DEFINE f == <<"stopInLoop", NoSocket>>
<1>1. f \in Functors /\ f[1] = "stopInLoop"
    BY SocketNumbers DEF Functors, FunctorNames
<1> HIDE DEF f
<1>2. /\ clientAt # "idle" /\ ~ stopped /\ stopped' = TRUE /\ overtaken' = (clientAt = "restart") /\ Queue(f)
      /\ UNCHANGED <<connState, openSockets, socketsMade, timers, running, clientAt, active, asserted>>
    BY DEF ClientStop, f
<1>3. client \in Clients /\ client' = [client EXCEPT !.connect = FALSE]
    BY DEF ClientStop, ClientTypes
<1>4. client' \in Clients /\ client'.connection = client.connection /\ ~ client'.connect
    BY ONLY <1>3 DEF Clients
<1>5. connector \in Connectors /\ connector' = [connector EXCEPT !.connect = FALSE]
    BY DEF ClientStop, ClientTypes
<1>6. /\ connector' \in Connectors /\ connector'.state = connector.state /\ ~ connector'.connect
      /\ connector'.channel = connector.channel /\ connector'.polled = connector.polled
    BY ONLY <1>5 DEF Connectors
<1>7. /\ pendingFunctors' \in Seq(Functors)
      /\ \A n : Lacks(Functions', n) <=> Lacks(Functions, n) /\ f[1] # n
      /\ \A n : OnlyFirst(Functions, n) /\ f[1] # n => OnlyFirst(Functions', n)
      /\ \A n : AtMostOnce(Functions, n) /\ f[1] # n => AtMostOnce(Functions', n)
      /\ Destroying(Functions') = Destroying(Functions)
    BY <1>1, <1>2, QueueStep
<1>8. Live' = Live
    BY <1>2 DEF Live
<1>9. ClientTypes' /\ OneDriver' /\ OneEvent'
    BY <1>1, <1>2, <1>4, <1>6, <1>7, <1>8 DEF ClientTypes, OneDriver, OneEvent
<1>10. ResetFirst' /\ StoppedInv'
    BY <1>1, <1>2, <1>4, <1>6, <1>7 DEF ResetFirst, StoppedInv
<1>11. SocketsInv'
    BY <1>1, <1>2, <1>6, <1>7 DEF SocketsInv, SocketsOwned
<1>12. AssertionsHold' /\ OneConnection'
    BY <1>2, <1>4 DEF AssertionsHold, StoppedInv, OneConnection
<1> QED
    BY <1>9, <1>10, <1>11, <1>12

LEMMA PollKeeps == ASSUME ClientInv, PollClient PROVE ClientInv'
<1> USE DEF ClientInv
<1>1. /\ clientAt = "poll" /\ clientAt' = "events"
      /\ UNCHANGED <<connector, client, connState, openSockets, socketsMade, timers, pendingFunctors, running,
                     stopped, overtaken, asserted>>
    BY DEF PollClient, historyVars
<1>2. /\ \A e \in active' : e \in {"connector", "timer", "peer"}
      /\ "connector" \in active' => connector.polled
      /\ "timer" \in active' => timers > 0
      /\ "peer" \in active' => Live # {}
    BY DEF PollClient, Live
<1>3. /\ "connector" \in active' => connector.state = "kConnecting"
      /\ "timer" \in active' => connector.state = "kDisconnected"
      /\ "peer" \in active' => connector.state = "kConnected"
    <2>1. timers > 0 => timers # 0
        BY DEF ClientTypes
    <2> QED
        BY <1>2, <2>1 DEF OneDriver
<1>4. ClientTypes' /\ OneDriver'
    BY <1>1, <1>2 DEF ClientTypes, OneDriver, Functions, Live
<1>5. OneEvent'
    <2>1. \A e, f \in active' : e = f
        BY <1>2, <1>3
    <2> QED
        BY <1>1, <1>2, <1>3, <2>1 DEF OneEvent
<1>6. ResetFirst'
    <2> SUFFICES ASSUME ~ stopped PROVE ResetFirst'
        BY <1>1 DEF ResetFirst
    <2>1. connector.polled \/ connector.channel = NoSocket
        BY <1>1 DEF ResetFirst
    <2>2. connector.polled => connector.state = "kConnecting"
        BY DEF OneDriver
    <2> QED
        BY <1>1, <1>3, <2>1, <2>2 DEF ResetFirst, Functions
<1>7. StoppedInv' /\ SocketsInv' /\ AssertionsHold' /\ OneConnection'
    BY <1>1 DEF StoppedInv, SocketsInv, SocketsOwned, AssertionsHold, OneConnection, Functions
<1> QED
    BY <1>4, <1>5, <1>6, <1>7

LEMMA EventsDoneKeeps == ASSUME ClientInv, EventsDone PROVE ClientInv'
<1> USE DEF ClientInv
<1>1. /\ clientAt = "events" /\ active = {} /\ clientAt' = "functors"
      /\ running' = pendingFunctors /\ pendingFunctors' = <<>>
      /\ UNCHANGED <<connector, client, connState, openSockets, socketsMade, timers, active, stopped, overtaken,
                     asserted>>
    BY DEF EventsDone, historyVars
<1>2. Functions' = Functions
    <2>1. running = <<>> /\ pendingFunctors \in Seq(Functors)
        BY <1>1 DEF OneEvent, ClientTypes
    <2>2. <<>> \o pendingFunctors = pendingFunctors /\ pendingFunctors \o <<>> = pendingFunctors
        BY <2>1, ConcatEmptySeq
    <2> QED
        BY <1>1, <2>1, <2>2 DEF Functions
<1>3. ClientTypes'
    BY <1>1 DEF ClientTypes
<1>4. OneDriver' /\ OneEvent'
    BY <1>1, <1>2 DEF OneDriver, OneEvent, Live
<1>5. ResetFirst'
    BY <1>1, <1>2 DEF ResetFirst
<1>6. StoppedInv' /\ SocketsInv' /\ AssertionsHold' /\ OneConnection'
    BY <1>1, <1>2 DEF StoppedInv, SocketsInv, SocketsOwned, AssertionsHold, OneConnection
<1> QED
    BY <1>3, <1>4, <1>5, <1>6

LEMMA TimerKeeps == ASSUME ClientInv, TimerEvent PROVE ClientInv'
<1> USE DEF ClientInv
<1>1. /\ clientAt = "events" /\ "timer" \in active /\ active' = active \ {"timer"}
      /\ StartInLoop(connector, timers - 1)
      /\ UNCHANGED <<client, connState, pendingFunctors, running, clientAt, stopped, overtaken>>
    BY DEF TimerEvent, ClientEvent, historyVars
<1>2. timers = 1 /\ Lacks(Functions, "startInLoop") /\ active' = {} /\ running = <<>>
    BY <1>1 DEF OneEvent, OneDriver, ClientTypes
<1>3. connector.state = "kDisconnected"
    BY <1>2 DEF OneDriver
<1>4. StartInLoop(connector, 0)
    <2>1. timers - 1 = 0
        BY <1>2
    <2> QED
        BY <1>1, <2>1
<1>5. ~ stopped => connector.channel = NoSocket
    BY <1>1 DEF ResetFirst
<1>6. Functions' = Functions /\ pendingFunctors' \in Seq(Functors) /\ running' \in Seq(Functors)
    BY <1>1 DEF Functions, ClientTypes
<1> QED
    BY <1>1, <1>2, <1>3, <1>4, <1>5, <1>6, StartStep DEF historyVars

LEMMA RestartedKeeps == ASSUME ClientInv, Restarted PROVE ClientInv'
<1> USE DEF ClientInv
<1>1. /\ clientAt = "startInLoop" /\ clientAt' = "events" /\ StartInLoop(connector, timers)
      /\ UNCHANGED <<client, connState, pendingFunctors, running, active, stopped, overtaken>>
    BY DEF Restarted, historyVars
<1>2. /\ connector.state = "kDisconnected" /\ Lacks(Functions, "startInLoop") /\ timers = 0
      /\ active = {} /\ running = <<>>
    BY <1>1 DEF OneEvent, OneDriver, ClientTypes
<1>3. StartInLoop(connector, 0)
    BY <1>1, <1>2
<1>4. ~ stopped => connector.channel = NoSocket
    BY <1>1 DEF ResetFirst
<1>5. Functions' = Functions /\ pendingFunctors' \in Seq(Functors) /\ running' \in Seq(Functors)
    BY <1>1 DEF Functions, ClientTypes
<1> QED
    BY <1>1, <1>2, <1>3, <1>4, <1>5, StartStep DEF historyVars

LEMMA RunStartKeeps == ASSUME ClientInv, RunStart PROVE ClientInv'
<1> USE DEF ClientInv
<1>1. /\ Functor("startInLoop") /\ StartInLoop(connector, timers)
      /\ UNCHANGED <<client, connState, pendingFunctors, clientAt, active, stopped, overtaken>>
    BY DEF RunStart, historyVars
<1>2. /\ running' \in Seq(Functors) /\ clientAt = "functors" /\ ~ Lacks(Functions, "startInLoop")
      /\ \A n : Lacks(Functions, n) => Lacks(Functions', n)
      /\ \A n : ~ Lacks(Functions, n) /\ n # "startInLoop" => ~ Lacks(Functions', n)
      /\ \A n : OnlyFirst(Functions, n) => Lacks(Functions', n)
      /\ \A n : AtMostOnce(Functions, n) => AtMostOnce(Functions', n)
      /\ Destroying(Functions') \subseteq Destroying(Functions)
    BY <1>1, RunStep
<1>3. connector.state = "kDisconnected" /\ timers = 0 /\ active = {} /\ OnlyFirst(Functions, "startInLoop")
    BY <1>2 DEF OneEvent, OneDriver, ClientTypes
<1>4. StartInLoop(connector, 0)
    BY <1>1, <1>3
<1>5. ~ stopped => connector.channel = NoSocket
    BY <1>2 DEF ResetFirst
<1>6. pendingFunctors' \in Seq(Functors)
    BY <1>1 DEF ClientTypes
<1> QED
    BY <1>1, <1>2, <1>3, <1>4, <1>5, <1>6, StartStep DEF historyVars

LEMMA RestartKeeps == ASSUME ClientInv, RestartConnector PROVE ClientInv'
<1> USE DEF ClientInv
<1>1. /\ clientAt = "restart" /\ clientAt' = "startInLoop"
      /\ UNCHANGED <<client, connState, openSockets, socketsMade, timers, pendingFunctors, running, active, stopped,
                     overtaken, asserted>>
    BY DEF RestartConnector, historyVars
<1>2. /\ connector \in Connectors
      /\ connector' = [connector EXCEPT !.state = "kDisconnected", !.delay = kInitRetryDelayMs, !.connect = TRUE]
    BY DEF RestartConnector, ClientTypes
<1>3. /\ connector' \in Connectors /\ connector'.state = "kDisconnected"
      /\ connector'.channel = connector.channel /\ connector'.polled = connector.polled
    BY ONLY <1>2, DelayAssumption DEF Connectors, States
<1>4. connector.state = "kConnected" /\ Live = {} /\ timers = 0 /\ Lacks(Functions, "startInLoop")
    BY <1>1 DEF OneDriver
<1>5. Functions' = Functions /\ Live' = Live
    BY <1>1 DEF Functions, Live
<1>6. ClientTypes' /\ OneDriver' /\ OneEvent'
    BY <1>1, <1>3, <1>4, <1>5 DEF ClientTypes, OneDriver, OneEvent
<1>7. ResetFirst'
    BY <1>1, <1>3, <1>5 DEF ResetFirst
<1>8. StoppedInv' /\ AssertionsHold' /\ OneConnection'
    BY <1>1, <1>3 DEF StoppedInv, AssertionsHold, OneConnection
<1>9. SocketsInv'
    BY <1>1, <1>3, <1>5 DEF SocketsInv, SocketsOwned
<1> QED
    BY <1>6, <1>7, <1>8, <1>9

(* What follows from an attempt under way. *)
LEMMA AttemptUnderWay ==
    ASSUME ClientInv, connector.state = "kConnecting"
    PROVE  /\ connector \in Connectors /\ connector.polled = TRUE /\ connector.channel \in 0..MaxSockets
           /\ timers = 0 /\ Live = {} /\ \A n : n = "startInLoop" => Lacks(Functions, n)
           /\ clientAt \notin {"restart", "startInLoop"}
           /\ <<"resetChannel", NoSocket>> \in Functors
           /\ asserted =>
                /\ connector.channel = socketsMade /\ connector.channel \in Sockets /\ connState[connector.channel] = "none"
                /\ openSockets \ {connector.channel} = {s \in Sockets : connState[s] # "none"}
                /\ Lacks(Functions, "resetChannel")
<1> USE DEF ClientInv
<1>1. connector \in Connectors /\ connector.polled = TRUE /\ connector.channel \in 0..MaxSockets
    <2>1. connector \in Connectors /\ connector.polled
        BY DEF ClientTypes, OneDriver
    <2> QED
        BY <2>1 DEF Connectors
<1>2. /\ timers = 0 /\ Live = {} /\ Lacks(Functions, "startInLoop") /\ clientAt \notin {"restart", "startInLoop"}
    BY DEF OneDriver
<1>3. <<"resetChannel", NoSocket>> \in Functors
    BY SocketNumbers DEF Functors, FunctorNames
<1>4. ASSUME asserted
      PROVE  /\ connector.channel = socketsMade /\ connector.channel \in Sockets /\ connState[connector.channel] = "none"
             /\ openSockets \ {connector.channel} = {s \in Sockets : connState[s] # "none"}
             /\ Lacks(Functions, "resetChannel")
    <2>1. /\ connector.channel = socketsMade /\ connector.channel # NoSocket /\ connState[socketsMade] = "none"
          /\ Lacks(Functions, "resetChannel") /\ SocketsOwned
        BY <1>1, <1>4 DEF SocketsInv
    <2>2. connector.channel \in Sockets
        BY <1>1, <2>1, SocketNumbers
    <2> QED
        BY <1>1, <1>4, <2>1, <2>2 DEF SocketsOwned
<1> QED
    BY <1>1, <1>2, <1>3, <1>4

(* An attempt that failed or was stopped: its socket is closed, its channel reset later. *)
LEMMA RetryStep ==
    ASSUME ClientInv, connector.state = "kConnecting", clientAt \in {"events", "functors"},
           Retry(RemoveAndResetChannel(connector), timers, connector.channel),
           pendingFunctors' \in Seq(Functors), running' \in Seq(Functors),
           clientAt = "events" => running' = <<>> /\ ~ Lacks(pendingFunctors', "resetChannel"),
           clientAt = "functors" => stopped,
           active' = {},
           \A n : Lacks(Functions, n) /\ n # "resetChannel" => Lacks(Functions', n),
           AtMostOnce(Functions', "resetChannel") \/ ~ Lacks(Functions, "resetChannel"),
           Destroying(Functions') \subseteq Destroying(Functions),
           UNCHANGED <<client, connState, socketsMade, clientAt, stopped, overtaken, asserted>>
    PROVE  ClientInv'
<1> USE DEF ClientInv
<1>1. /\ connector \in Connectors /\ connector.channel \in 0..MaxSockets
      /\ timers = 0 /\ Live = {} /\ \A n : n = "startInLoop" => Lacks(Functions, n)
      /\ clientAt \notin {"restart", "startInLoop"}
      /\ asserted =>
            /\ connector.channel = socketsMade /\ connector.channel \in Sockets
            /\ openSockets \ {connector.channel} = {s \in Sockets : connState[s] # "none"}
            /\ Lacks(Functions, "resetChannel")
    BY AttemptUnderWay
<1> DEFINE c == RemoveAndResetChannel(connector)
<1>2. c \in Connectors /\ c.connect = connector.connect /\ c.channel = connector.channel /\ c.polled = FALSE
    <2>1. c = [connector EXCEPT !.polled = FALSE]
        BY DEF RemoveAndResetChannel
    <2> QED
        BY ONLY <1>1, <2>1 DEF Connectors
<1> HIDE DEF c
<1>3. /\ connector' \in Connectors /\ connector'.state = "kDisconnected" /\ connector'.connect = connector.connect
      /\ connector'.channel = connector.channel /\ connector'.polled = FALSE
      /\ openSockets' = openSockets \ {connector.channel} /\ openSockets' \subseteq Sockets
      /\ timers' = IF c.connect THEN 0 + 1 ELSE 0
    <2>1. Retry(c, 0, connector.channel) /\ openSockets \subseteq Sockets /\ 0 \in Nat
        BY <1>1 DEF c, ClientTypes
    <2> QED
        BY <1>1, <1>2, <2>1, RetryOutcome
<1>4. timers' = 0 \/ timers' = 1
    BY <1>3
<1>5. Lacks(Functions', "startInLoop")
    BY <1>1
<1>6. Live' = {}
    BY <1>1 DEF Live
<1>7. ClientTypes'
    BY <1>3, <1>4 DEF ClientTypes
<1>8. OneDriver'
    BY <1>1, <1>3, <1>4, <1>5, <1>6, Lacking DEF OneDriver
<1>9. OneEvent'
    BY DEF OneEvent
<1>10. ResetFirst'
    BY <1>1, <1>5 DEF ResetFirst
<1>11. StoppedInv'
    BY <1>3 DEF StoppedInv
<1>12. SocketsInv'
    <2> SUFFICES ASSUME asserted PROVE SocketsInv'
        BY DEF SocketsInv
    <2>1. SocketsOwned'
        BY <1>1, <1>3 DEF SocketsOwned
    <2> QED
        BY <1>1, <1>3, <2>1, SocketNumbers DEF SocketsInv
<1>13. AssertionsHold' /\ OneConnection'
    BY DEF AssertionsHold, OneConnection
<1> QED
    BY <1>7, <1>8, <1>9, <1>10, <1>11, <1>12, <1>13

LEMMA FailureKeeps == ASSUME ClientInv, HandleFailure PROVE ClientInv'
<1> USE DEF ClientInv
<1> DEFINE f == <<"resetChannel", NoSocket>>
<1>1. /\ clientAt = "events" /\ "connector" \in active /\ active' = active \ {"connector"}
      /\ connector.state = "kConnecting" /\ Queue(f)
      /\ Retry(RemoveAndResetChannel(connector), timers, connector.channel)
      /\ UNCHANGED <<client, connState, socketsMade, running, clientAt, stopped, overtaken, asserted>>
    BY DEF HandleFailure, ClientEvent, ResetLater, historyVars
<1>2. f \in Functors /\ f[1] = "resetChannel"
    BY <1>1, AttemptUnderWay
<1> HIDE DEF f
<1>3. active' = {} /\ running' = <<>> /\ running' \in Seq(Functors)
    BY <1>1 DEF OneEvent, ClientTypes
<1>4. /\ pendingFunctors' \in Seq(Functors)
      /\ \A n : Lacks(pendingFunctors', n) <=> Lacks(pendingFunctors, n) /\ f[1] # n
      /\ \A n : Lacks(Functions', n) <=> Lacks(Functions, n) /\ f[1] # n
      /\ \A n : Lacks(Functions, n) => AtMostOnce(Functions', n)
      /\ Destroying(Functions') = Destroying(Functions)
    BY <1>1, <1>2, QueueStep
<1> QED
    BY <1>1, <1>2, <1>3, <1>4, RetryStep

(* Running the first functor, which queues f. *)
LEMMA RunQueueStep ==
    ASSUME ClientTypes, NEW name, Functor(name), NEW f \in Functors, Queue(f), f[1] # "connectDestroyed"
    PROVE  /\ running' \in Seq(Functors) /\ pendingFunctors' \in Seq(Functors) /\ clientAt = "functors"
           /\ ~ Lacks(Functions, name)
           /\ \A n : Lacks(Functions, n) /\ f[1] # n => Lacks(Functions', n)
           /\ \A n : Lacks(Functions, n) => AtMostOnce(Functions', n)
           /\ Destroying(Functions') \subseteq Destroying(Functions)
<1> PICK p, r, q : p = pendingFunctors /\ r = running /\ q = r \o p
    OBVIOUS
<1>1. p \in Seq(Functors) /\ r \in Seq(Functors) /\ r # <<>> /\ running' = Tail(r) /\ pendingFunctors' = Append(p, f)
    BY DEF ClientTypes, Functor, Queue
<1>2. clientAt = "functors" /\ Head(r)[1] = name
    BY DEF Functor
<1>3. q \in Seq(Functors) /\ q # <<>> /\ Head(q) = Head(r) /\ Tail(q) = Tail(r) \o p /\ Tail(q) \in Seq(Functors)
    <2>1. q \in Seq(Functors)
        BY ONLY <1>1, q = r \o p, ConcatProperties
    <2>2. q # <<>> /\ Head(q) = Head(r) /\ Tail(q) = Tail(r) \o p
        BY <1>1, TailConcat
    <2> QED
        BY <2>1, <2>2, HeadTailProperties
<1>4. Tail(r) \in Seq(Functors) /\ Append(p, f) \in Seq(Functors)
    BY <1>1, HeadTailProperties, AppendProperties
<1>5. Functions = q /\ Functions' = Append(Tail(q), f)
    <2>1. /\ Append(p, f) = p \o <<f>> /\ Append(Tail(q), f) = Tail(q) \o <<f>> /\ <<f>> \in Seq(Functors)
        BY <1>1, <1>3, AppendIsConcat
    <2>2. (Tail(r) \o p) \o <<f>> = Tail(r) \o (p \o <<f>>)
        BY ONLY <1>1, <1>4, <2>1, ConcatAssociative
    <2> QED
        BY <1>1, <1>3, <2>1, <2>2 DEF Functions
<1>6. ~ Lacks(q, name)
    <2>1. Len(r) \in Nat \ {0} /\ Head(r) = r[1]
        BY <1>1, EmptySeq
    <2>2. 1 \in 1..Len(r)
        BY ONLY <2>1
    <2>3. ~ Lacks(r, name)
        BY <1>2, <2>1, <2>2 DEF Lacks
    <2> QED
        BY <1>1, <2>3, ConcatNames
<1>7. (\A n : Lacks(q, n) => Lacks(Tail(q), n)) /\ Destroying(Tail(q)) \subseteq Destroying(q)
    BY <1>3, TailNames
<1>8. /\ \A n : Lacks(Append(Tail(q), f), n) <=> Lacks(Tail(q), n) /\ f[1] # n
      /\ \A n : Lacks(Tail(q), n) => AtMostOnce(Append(Tail(q), f), n)
      /\ Destroying(Append(Tail(q), f)) = Destroying(Tail(q))
    BY ONLY <1>3, f \in Functors, f[1] # "connectDestroyed", AppendNames, AppendDestroying
<1> QED
    BY <1>1, <1>2, <1>4, <1>5, <1>6, <1>7, <1>8

(* A functor that changes nothing else. *)
LEMMA RanStep ==
    ASSUME ClientInv, NEW name \in {"stopInLoop", "shutdownInLoop"}, Functor(name),
           name = "stopInLoop" => connector.state # "kConnecting",
           UNCHANGED <<connector, client, connState, openSockets, socketsMade, timers, pendingFunctors, clientAt,
                       active, stopped, overtaken, asserted>>
    PROVE  ClientInv'
<1> USE DEF ClientInv
<1>1. /\ running' \in Seq(Functors) /\ clientAt = "functors" /\ ~ Lacks(Functions, name)
      /\ \A n : ~ Lacks(running, n) /\ n # name => ~ Lacks(running', n)
      /\ \A n : Lacks(Functions, n) => Lacks(Functions', n)
      /\ \A n : ~ Lacks(Functions, n) /\ n # name => ~ Lacks(Functions', n)
      /\ \A n : OnlyFirst(Functions, n) => Lacks(Functions', n)
      /\ \A n : AtMostOnce(Functions, n) => AtMostOnce(Functions', n)
      /\ Destroying(Functions') \subseteq Destroying(Functions)
    BY RunStep
<1>2. Live' = Live
    BY DEF Live
<1>3. ClientTypes' /\ OneEvent'
    BY <1>1 DEF ClientTypes, OneEvent
<1>4. OneDriver'
    BY <1>1, <1>2, Lacking DEF OneDriver
<1>5. ResetFirst'
    BY <1>1 DEF ResetFirst
<1>6. StoppedInv'
    BY <1>1 DEF StoppedInv
<1>7. SocketsInv'
    BY <1>1 DEF SocketsInv, SocketsOwned
<1>8. AssertionsHold' /\ OneConnection'
    BY DEF AssertionsHold, OneConnection
<1> QED
    BY <1>3, <1>4, <1>5, <1>6, <1>7, <1>8

LEMMA ShutdownKeeps == ASSUME ClientInv, ShutdownInLoop PROVE ClientInv'
BY RanStep DEF ShutdownInLoop, historyVars

LEMMA RunStopKeeps == ASSUME ClientInv, RunStop PROVE ClientInv'
<1> USE DEF ClientInv
<1>1. /\ Functor("stopInLoop")
      /\ UNCHANGED <<client, connState, socketsMade, clientAt, active, stopped, overtaken, asserted>>
    BY DEF RunStop, historyVars
<1>2. CASE connector.state # "kConnecting" /\ UNCHANGED <<connector, openSockets, timers, pendingFunctors>>
    BY <1>1, <1>2, RanStep
<1> DEFINE f == <<"resetChannel", NoSocket>>
<1>3. CASE /\ connector.state = "kConnecting" /\ Queue(f)
           /\ Retry(RemoveAndResetChannel(connector), timers, connector.channel)
    <2>1. f \in Functors /\ f[1] = "resetChannel"
        BY <1>3, AttemptUnderWay
    <2> HIDE DEF f
    <2>2. /\ running' \in Seq(Functors) /\ pendingFunctors' \in Seq(Functors) /\ clientAt = "functors"
          /\ ~ Lacks(Functions, "stopInLoop")
          /\ \A n : Lacks(Functions, n) /\ f[1] # n => Lacks(Functions', n)
          /\ \A n : Lacks(Functions, n) => AtMostOnce(Functions', n)
          /\ Destroying(Functions') \subseteq Destroying(Functions)
        BY <1>1, <1>3, <2>1, RunQueueStep
    <2>3. active' = {} /\ stopped
        BY <1>1, <2>2 DEF OneEvent, ResetFirst
    <2> QED
        BY <1>1, <1>3, <2>1, <2>2, <2>3, RetryStep
<1> QED
    BY <1>2, <1>3 DEF RunStop, ResetLater

LEMMA ConnectedKeeps == ASSUME ClientInv, HandleConnected PROVE ClientInv'
<1> USE DEF ClientInv
<1> DEFINE f == <<"resetChannel", NoSocket>>
<1>1. /\ clientAt = "events" /\ "connector" \in active /\ active' = active \ {"connector"}
      /\ connector.state = "kConnecting" /\ Queue(f)
      /\ connector' = [RemoveAndResetChannel(connector) EXCEPT !.state = "kConnected"]
      /\ UNCHANGED <<socketsMade, timers, running, clientAt, stopped, overtaken, asserted>>
    BY DEF HandleConnected, ClientEvent, ResetLater, historyVars
<1>2. /\ connector \in Connectors /\ connector.channel \in 0..MaxSockets
      /\ timers = 0 /\ Live = {} /\ \A n : n = "startInLoop" => Lacks(Functions, n)
      /\ clientAt \notin {"restart", "startInLoop"} /\ f \in Functors /\ f[1] = "resetChannel"
      /\ asserted =>
            /\ connector.channel = socketsMade /\ connector.channel \in Sockets
            /\ connState[connector.channel] = "none"
            /\ openSockets \ {connector.channel} = {x \in Sockets : connState[x] # "none"}
            /\ Lacks(Functions, "resetChannel")
    BY <1>1, AttemptUnderWay
<1> HIDE DEF f
<1>3. /\ connector' \in Connectors /\ connector'.state = "kConnected" /\ connector'.connect = connector.connect
      /\ connector'.channel = connector.channel /\ ~ connector'.polled
    <2>1. connector' = [[connector EXCEPT !.polled = FALSE] EXCEPT !.state = "kConnected"]
        BY <1>1 DEF RemoveAndResetChannel
    <2> QED
        BY ONLY <1>2, <2>1 DEF Connectors, States
<1>4. active' = {} /\ running' = <<>> /\ running' \in Seq(Functors)
    BY <1>1 DEF OneEvent, ClientTypes
<1>5. /\ pendingFunctors' \in Seq(Functors)
      /\ \A n : Lacks(pendingFunctors', n) <=> Lacks(pendingFunctors, n) /\ f[1] # n
      /\ \A n : Lacks(Functions', n) <=> Lacks(Functions, n) /\ f[1] # n
      /\ \A n : Lacks(Functions, n) => AtMostOnce(Functions', n)
      /\ Destroying(Functions') = Destroying(Functions)
    BY <1>1, <1>2, QueueStep
<1>6. OneEvent'
    BY <1>1, <1>4 DEF OneEvent
<1>7. ResetFirst'
    BY <1>1, <1>2, <1>4, <1>5 DEF ResetFirst
<1>8. OneDriver'
    BY <1>1, <1>2, <1>3, <1>5, Lacking DEF OneDriver
<1>9. AssertionsHold'
    BY <1>1 DEF AssertionsHold
<1> DEFINE s == connector.channel
<1>10. CASE connector.connect /\ NewConnection(s) /\ UNCHANGED openSockets
    <2>1. client \in Clients /\ client' = [client EXCEPT !.connection = s]
        BY <1>10 DEF NewConnection, ClientTypes
    <2>2. client' \in Clients /\ client'.connection = s /\ client'.connect = client.connect
        BY ONLY <1>2, <2>1 DEF Clients
    <2>3. /\ connState' \in [Sockets -> {"none", "kConnected", "kDisconnecting", "kDisconnected"}]
          /\ \A x \in Sockets : connState'[x] = IF x = s THEN "kConnected" ELSE connState[x]
        BY <1>10 DEF NewConnection, ClientTypes
    <2>4. ClientTypes'
        BY <1>1, <1>3, <1>4, <1>5, <1>10, <2>2, <2>3 DEF ClientTypes
    <2>5. StoppedInv'
        BY <1>1, <1>3, <2>2 DEF StoppedInv
    <2>6. OneConnection'
        BY <1>2, <2>2, <2>3 DEF OneConnection, Live
    <2>7. SocketsInv'
        <3> SUFFICES ASSUME asserted PROVE SocketsInv'
            BY <1>1 DEF SocketsInv
        <3>1. connector.polled
            BY <1>1 DEF OneDriver
        <3>2. SocketsOwned'
            BY <1>2, <1>3, <1>10, <2>3, <3>1 DEF SocketsOwned, SocketsInv
        <3>3. \A x \in Sockets : connState'[x] # "none" => x <= socketsMade
            BY <1>2, <2>3 DEF SocketsInv, Sockets
        <3> QED
            BY <1>1, <1>2, <1>3, <1>5, <3>2, <3>3, SocketNumbers DEF SocketsInv
    <2> QED
        BY <1>6, <1>7, <1>8, <1>9, <2>4, <2>5, <2>6, <2>7
<1>11. CASE ~ connector.connect /\ openSockets' = openSockets \ {s} /\ UNCHANGED <<client, connState>>
    <2>1. ClientTypes'
        BY <1>1, <1>3, <1>4, <1>5, <1>11 DEF ClientTypes
    <2>2. StoppedInv' /\ OneConnection'
        BY <1>1, <1>3, <1>11 DEF StoppedInv, OneConnection
    <2>3. SocketsInv'
        <3> SUFFICES ASSUME asserted PROVE SocketsInv'
            BY <1>1 DEF SocketsInv
        <3>1. SocketsOwned'
            BY <1>2, <1>3, <1>11 DEF SocketsOwned
        <3> QED
            BY <1>1, <1>2, <1>3, <1>5, <1>11, <3>1, SocketNumbers DEF SocketsInv
    <2> QED
        BY <1>6, <1>7, <1>8, <1>9, <2>1, <2>2, <2>3
<1> QED
    BY <1>10, <1>11 DEF HandleConnected

LEMMA PeerClosesKeeps == ASSUME ClientInv, PeerCloses PROVE ClientInv'
<1> USE DEF ClientInv
<1>1. PICK s \in Sockets :
        /\ clientAt = "events" /\ "peer" \in active /\ active' = active \ {"peer"}
        /\ connState[s] \in {"kConnected", "kDisconnecting"}
        /\ connState' = [connState EXCEPT ![s] = "kDisconnected"]
        /\ asserted' = (asserted /\ client.connection = s)
        /\ client' = [client EXCEPT !.connection = NoSocket]
        /\ Queue(<<"connectDestroyed", s>>)
        /\ clientAt' = IF client.retry /\ client.connect THEN "restart" ELSE "events"
        /\ UNCHANGED <<connector, openSockets, socketsMade, timers, running, stopped, overtaken>>
    BY DEF PeerCloses, ClientEvent, historyVars
<1> DEFINE f == <<"connectDestroyed", s>>
<1>2. f \in Functors /\ f[1] = "connectDestroyed" /\ f[2] = s
    BY SocketNumbers DEF Functors, FunctorNames
<1> HIDE DEF f
<1>3. Queue(f)
    BY <1>1 DEF f
<1>4. /\ client.connection = s /\ (asserted' <=> asserted)
      /\ \A x \in Sockets : connState[x] \in {"kConnected", "kDisconnecting"} => x = s
    <2>1. /\ client.connection = s
          /\ \A x \in Sockets : connState[x] \in {"kConnected", "kDisconnecting"} => x = s
        BY <1>1 DEF OneConnection
    <2>2. asserted' <=> asserted
        BY <1>1, <2>1
    <2> QED
        BY <2>1, <2>2
<1>5. client \in Clients
    BY DEF ClientTypes
<1>6. client' \in Clients /\ client'.connect = client.connect
    <2>1. NoSocket \in 0..MaxSockets /\ client' = [client EXCEPT !.connection = NoSocket]
        BY <1>1, SocketNumbers
    <2> QED
        BY ONLY <1>5, <2>1 DEF Clients
<1>7. /\ connState' \in [Sockets -> {"none", "kConnected", "kDisconnecting", "kDisconnected"}]
      /\ \A x \in Sockets : connState'[x] = IF x = s THEN "kDisconnected" ELSE connState[x]
    BY <1>1 DEF ClientTypes
<1>8. Live' = {}
    BY <1>4, <1>7 DEF Live
<1>9. /\ connector.state = "kConnected" /\ active' = {} /\ ~ connector.polled /\ running = <<>>
      /\ timers = 0 /\ Lacks(Functions, "startInLoop")
    BY <1>1 DEF OneEvent, OneDriver
<1>10. /\ pendingFunctors' \in Seq(Functors)
       /\ \A n : Lacks(pendingFunctors', n) <=> Lacks(pendingFunctors, n) /\ f[1] # n
       /\ \A n : Lacks(Functions', n) <=> Lacks(Functions, n) /\ f[1] # n
       /\ \A n : AtMostOnce(Functions, n) /\ f[1] # n => AtMostOnce(Functions', n)
       /\ Destroying(Functions') \subseteq Destroying(Functions) \cup {s}
    BY <1>1, <1>2, <1>3, QueueStep
<1>11. clientAt' = "restart" \/ clientAt' = "events"
    BY <1>1
<1>12. ClientTypes'
    BY <1>1, <1>6, <1>7, <1>9, <1>10, <1>11 DEF ClientTypes
<1>13. OneDriver' /\ OneEvent'
    BY <1>1, <1>2, <1>8, <1>9, <1>10, <1>11, Lacking DEF OneDriver, OneEvent
<1>14. ResetFirst'
    <2> SUFFICES ASSUME ~ stopped PROVE ResetFirst'
        BY <1>1 DEF ResetFirst
    <2>1. connector.channel = NoSocket
        BY <1>1 DEF ResetFirst
    <2> QED
        BY <1>1, <1>2, <1>10, <2>1 DEF ResetFirst
<1>15. StoppedInv'
    <2>1. clientAt' = "restart" => client.connect
        BY <1>1
    <2> QED
        BY <1>1, <1>6, <1>9, <2>1 DEF StoppedInv
<1>16. SocketsInv'
    <2> SUFFICES ASSUME asserted PROVE SocketsInv'
        BY <1>4 DEF SocketsInv
    <2>1. SocketsOwned'
        BY <1>1, <1>7 DEF SocketsInv, SocketsOwned
    <2>2. /\ \A x \in Sockets : connState'[x] # "none" => x <= socketsMade
          /\ s <= socketsMade
        BY <1>1, <1>7 DEF SocketsInv
    <2>3. s \in 1..socketsMade
        BY <2>2, SocketsAssumption DEF Sockets, ClientTypes
    <2>4. Destroying(Functions') \subseteq 1..socketsMade
        BY <1>10, <2>3 DEF SocketsInv
    <2> QED
        BY <1>1, <1>2, <1>9, <1>10, <2>1, <2>2, <2>4 DEF SocketsInv
<1>17. AssertionsHold' /\ OneConnection'
    BY <1>1, <1>4, <1>8 DEF AssertionsHold, OneConnection, Live
<1> QED
    BY <1>12, <1>13, <1>14, <1>15, <1>16, <1>17

LEMMA ResetKeeps == ASSUME ClientInv, ResetChannel PROVE ClientInv'
<1> USE DEF ClientInv
<1>1. /\ Functor("resetChannel") /\ connector' = [connector EXCEPT !.channel = NoSocket]
      /\ UNCHANGED <<client, connState, openSockets, socketsMade, timers, pendingFunctors, clientAt, active, stopped,
                     overtaken, asserted>>
    BY DEF ResetChannel, historyVars
<1>2. /\ running' \in Seq(Functors) /\ clientAt = "functors" /\ ~ Lacks(Functions, "resetChannel")
      /\ \A n : Lacks(Functions, n) => Lacks(Functions', n)
      /\ \A n : ~ Lacks(Functions, n) /\ n # "resetChannel" => ~ Lacks(Functions', n)
      /\ \A n : OnlyFirst(Functions, n) => Lacks(Functions', n)
      /\ AtMostOnce(Functions, "resetChannel") => Lacks(Functions', "resetChannel")
      /\ Destroying(Functions') \subseteq Destroying(Functions)
    BY <1>1, RunStep
<1>3. connector \in Connectors /\ NoSocket \in 0..MaxSockets
    BY SocketNumbers DEF ClientTypes
<1>4. /\ connector' \in Connectors /\ connector'.state = connector.state /\ connector'.connect = connector.connect
      /\ connector'.channel = NoSocket /\ connector'.polled = connector.polled
    BY ONLY <1>1, <1>3 DEF Connectors
<1>5. Live' = Live
    BY <1>1 DEF Live
<1>6. ClientTypes' /\ OneEvent'
    BY <1>1, <1>2, <1>4 DEF ClientTypes, OneEvent
<1>7. OneDriver'
    BY <1>1, <1>2, <1>4, <1>5, Lacking DEF OneDriver
<1>8. ResetFirst'
    BY <1>1, <1>2, <1>4 DEF ResetFirst
<1>9. StoppedInv'
    BY <1>1, <1>2, <1>4 DEF StoppedInv
<1>10. SocketsInv'
    BY <1>1, <1>2, <1>4, Lacking DEF SocketsInv, SocketsOwned
<1>11. AssertionsHold' /\ OneConnection'
    BY <1>1 DEF AssertionsHold, OneConnection
<1> QED
    BY <1>6, <1>7, <1>8, <1>9, <1>10, <1>11

LEMMA DestroyedKeeps == ASSUME ClientInv, ConnectDestroyed PROVE ClientInv'
<1> USE DEF ClientInv
<1> DEFINE s == Head(running)[2]
<1>1. /\ Functor("connectDestroyed")
      /\ connState' = [connState EXCEPT ![s] = "none"] /\ openSockets' = openSockets \ {s}
      /\ UNCHANGED <<connector, client, socketsMade, timers, pendingFunctors, clientAt, active, stopped, overtaken,
                     asserted>>
    BY DEF ConnectDestroyed, historyVars
<1>2. /\ running' \in Seq(Functors) /\ clientAt = "functors" /\ s \in Destroying(Functions)
      /\ \A n : ~ Lacks(running, n) /\ n # "connectDestroyed" => ~ Lacks(running', n)
      /\ \A n : Lacks(Functions, n) => Lacks(Functions', n)
      /\ \A n : ~ Lacks(Functions, n) /\ n # "connectDestroyed" => ~ Lacks(Functions', n)
      /\ \A n : OnlyFirst(Functions, n) => Lacks(Functions', n)
      /\ \A n : AtMostOnce(Functions, n) => AtMostOnce(Functions', n)
      /\ Destroying(Functions') \subseteq Destroying(Functions)
    BY <1>1, RunStep
<1> HIDE DEF s
<1>3. /\ connState' \in [Sockets -> {"none", "kConnected", "kDisconnecting", "kDisconnected"}]
      /\ \A x \in Sockets : connState'[x] = IF x = s THEN "none" ELSE connState[x]
    BY <1>1 DEF ClientTypes
<1>4. Live' \subseteq Live
    BY <1>3 DEF Live
<1>5. ClientTypes' /\ OneEvent'
    BY <1>1, <1>2, <1>3 DEF ClientTypes, OneEvent
<1>6. OneDriver'
    BY <1>1, <1>2, <1>4, Lacking DEF OneDriver
<1>7. ResetFirst'
    BY <1>1, <1>2 DEF ResetFirst
<1>8. StoppedInv'
    BY <1>1, <1>2 DEF StoppedInv
<1>9. SocketsInv'
    <2> SUFFICES ASSUME asserted PROVE SocketsInv'
        BY <1>1 DEF SocketsInv
    <2>1. connector.polled => connector.channel # s /\ socketsMade \in Sockets
        BY <1>2, SocketNumbers DEF SocketsInv, ClientTypes
    <2>2. SocketsOwned'
        BY <1>1, <1>3, <2>1 DEF SocketsInv, SocketsOwned
    <2>3. connector.polled => connState'[socketsMade] = "none"
        BY <1>3, <2>1 DEF SocketsInv
    <2> QED
        BY <1>1, <1>2, <1>3, <2>2, <2>3 DEF SocketsInv
<1>10. AssertionsHold' /\ OneConnection'
    BY <1>1, <1>3 DEF AssertionsHold, OneConnection
<1> QED
    BY <1>5, <1>6, <1>7, <1>8, <1>9, <1>10

LEMMA FunctorsDoneKeeps == ASSUME ClientInv, FunctorsDone PROVE ClientInv'
<1> USE DEF ClientInv
<1>1. /\ clientAt = "functors" /\ running = <<>> /\ clientAt' = "poll"
      /\ UNCHANGED <<connector, client, connState, openSockets, socketsMade, timers, pendingFunctors, running, active,
                     stopped, overtaken, asserted>>
    BY DEF FunctorsDone, historyVars
<1>2. Functions' = Functions /\ Live' = Live
    BY <1>1 DEF Functions, Live
<1>3. ClientTypes' /\ OneDriver' /\ OneEvent'
    BY <1>1, <1>2 DEF ClientTypes, OneDriver, OneEvent
<1>4. ResetFirst'
    <2>1. Lacks(running, "resetChannel")
        BY <1>1 DEF Lacks
    <2> QED
        BY <1>1, <1>2, <2>1 DEF ResetFirst
<1>5. StoppedInv' /\ SocketsInv' /\ AssertionsHold' /\ OneConnection'
    BY <1>1, <1>2 DEF StoppedInv, SocketsInv, SocketsOwned, AssertionsHold, OneConnection
<1> QED
    BY <1>3, <1>4, <1>5

LEMMA ClientStarts == ClientInit => ClientInv
<1> SUFFICES ASSUME ClientInit PROVE ClientInv
    OBVIOUS
<1>1. connector \in Connectors /\ connector.state = "kDisconnected" /\ ~ connector.polled /\ connector.channel = NoSocket
    BY DelayAssumption, SocketNumbers DEF ClientInit, NewConnector, Connectors, States
<1>2. /\ running = <<>> /\ pendingFunctors = <<>> /\ Functions = <<>>
    BY DEF ClientInit, Functions
<1>3. /\ \A n : Lacks(Functions, n) /\ OnlyFirst(Functions, n) /\ AtMostOnce(Functions, n)
      /\ Destroying(Functions) = {} /\ Live = {}
    BY <1>2 DEF Lacks, OnlyFirst, AtMostOnce, Destroying, Live, ClientInit
<1>4. ClientTypes
    <2>1. client \in Clients /\ connState \in [Sockets -> {"none", "kConnected", "kDisconnecting", "kDisconnected"}]
        BY SocketNumbers DEF ClientInit, Clients
    <2>2. socketsMade \in 0..MaxSockets /\ timers \in Nat
        BY SocketsAssumption DEF ClientInit
    <2> QED
        BY <1>1, <1>2, <2>1, <2>2 DEF ClientInit, ClientTypes
<1>5. OneDriver /\ OneEvent /\ ResetFirst /\ StoppedInv
    BY <1>1, <1>2, <1>3 DEF ClientInit, OneDriver, OneEvent, ResetFirst, StoppedInv
<1>6. SocketsInv /\ AssertionsHold /\ OneConnection
    BY <1>1, <1>3 DEF ClientInit, SocketsInv, SocketsOwned, AssertionsHold, OneConnection
<1> QED
    BY <1>4, <1>5, <1>6 DEF ClientInv

(* Why the client is clean: stopInLoop is queued from stop() until it has run. *)
LEMMA CleanBecause == ClientInv => ClientClean
<1> SUFFICES ASSUME ClientInv PROVE ClientClean
    OBVIOUS
<1> USE DEF ClientInv
<1>1. Queued("stopInLoop") <=> ~ Lacks(Functions, "stopInLoop")
    BY DEF Queued, Lacks, Functions
<1>2. StopHolds
    BY <1>1 DEF StopHolds, StoppedInv
<1>3. SocketsOwned
    BY DEF SocketsInv, SocketsOwned
<1> QED
    BY <1>2, <1>3 DEF ClientClean

(* The Connector and the TcpClient lose no socket, close none that is in use, keep
   one connection at a time and stop when stop() says so, whatever order the timer of
   retry, the events and stop(), connect() and disconnect() of other threads come in;
   the assertions of Connector hold unless stop() comes just before restart(). *)
THEOREM ClientStaysClean == ClientSpec => []ClientClean
<1>1. ClientInv /\ [ClientNext]_clientVars => ClientInv'
    <2> SUFFICES ASSUME ClientInv, [ClientNext]_clientVars PROVE ClientInv'
        OBVIOUS
    <2> QED
        BY ClientStutters, ConnectKeeps, DisconnectKeeps, StopKeeps, PollKeeps, EventsDoneKeeps, TimerKeeps,
           FailureKeeps, ConnectedKeeps, PeerClosesKeeps, RestartKeeps, RestartedKeeps, RunStartKeeps, RunStopKeeps,
           ResetKeeps, DestroyedKeeps, ShutdownKeeps, FunctorsDoneKeeps DEF ClientNext
<1> QED
    BY <1>1, ClientStarts, CleanBecause, PTL DEF ClientSpec

(* Neither hiredis nor the client of muduo forgets a socket, closes one in use or hides how an attempt
   ended, each by its own specification. *)
THEOREM ConnectsClean == NetSpec /\ ClientSpec => []ConnectClean
BY ConnectsCleanly, ClientStaysClean, PTL DEF ConnectClean

=============================================================================
