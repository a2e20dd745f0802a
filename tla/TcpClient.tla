------------------------------ MODULE TcpClient ------------------------------
(***************************************************************************)
(* The client side of muduo: Connector, which makes sockets until one is   *)
(* connected, and TcpClient, which owns the connection and asks for the    *)
(* next one when it is lost.  All of it runs in one loop, except for       *)
(* connect, disconnect and stop, which any thread may call.                *)
(*                                                                         *)
(* Sockets are numbered; a socket, its channel and its TcpConnection share *)
(* the number.  connect() is called once: a second call may meet a timer   *)
(* of the first, which Connector does not cancel.  The client lives as     *)
(* long as its loop.                                                       *)
(***************************************************************************)
EXTENDS Naturals, Sequences, FiniteSets

CONSTANTS
    kInitRetryDelayMs, kMaxRetryDelayMs,
    MaxSockets              \* bound: sockets made

ASSUME DelayAssumption ==
    kInitRetryDelayMs \in Nat \ {0} /\ kMaxRetryDelayMs \in Nat /\ kInitRetryDelayMs <= kMaxRetryDelayMs
ASSUME SocketsAssumption == MaxSockets \in Nat

VARIABLES
    connector,      \* connect_, state_, retryDelayMs_, channel_ and whether it is in the poller
    client,         \* connect_, retry_, connection_
    connState,      \* connState[s]: the state of the TcpConnection of s, "none" without one
    openSockets,    \* descriptors
    socketsMade,
    timers,         \* startInLoop waiting for its time, how often
    pendingFunctors, running,   \* queued, and those being run
    clientAt,       \* where the loop is: "poll", "events", "functors", "restart", "startInLoop"
    active,         \* the events of this poll
    stopped,        \* stop() has been called (history)
    overtaken,      \* stop() came between the test of connect_ and restart() (history)
    asserted        \* the assertions hold (history)

loopVars == <<pendingFunctors, running, clientAt, active>>
historyVars == <<stopped, overtaken>>
clientVars == <<connector, client, connState, openSockets, socketsMade, timers, loopVars,
                historyVars, asserted>>

NoSocket == 0
Sockets == 1..MaxSockets

NewConnector ==
    [connect |-> FALSE, state |-> "kDisconnected", delay |-> kInitRetryDelayMs,
     channel |-> NoSocket, polled |-> FALSE]

(* enableRetry has been called or not. *)
ClientInit ==
    /\ connector = NewConnector
    /\ client \in [connect : {TRUE}, retry : BOOLEAN, connection : {NoSocket}]
    /\ connState = [s \in Sockets |-> "none"]
    /\ openSockets = {} /\ socketsMade = 0 /\ timers = 0
    /\ pendingFunctors = <<>> /\ running = <<>> /\ clientAt = "idle" /\ active = {}
    /\ stopped = FALSE /\ overtaken = FALSE /\ asserted = TRUE

Queue(functor) == pendingFunctors' = Append(pendingFunctors, functor)

-----------------------------------------------------------------------------
(* Any thread. *)
ClientConnect ==
    /\ clientAt = "idle" /\ clientAt' = "poll"
    /\ client' = [client EXCEPT !.connect = TRUE]
    /\ connector' = [connector EXCEPT !.connect = TRUE]
    /\ Queue(<<"startInLoop", NoSocket>>)
    /\ UNCHANGED <<connState, openSockets, socketsMade, timers, running, active, historyVars, asserted>>

ClientDisconnect ==
    /\ clientAt # "idle" /\ client.connect
    /\ client' = [client EXCEPT !.connect = FALSE]
    /\ \/ \E s \in Sockets :
             /\ s = client.connection /\ connState[s] = "kConnected"
             /\ connState' = [connState EXCEPT ![s] = "kDisconnecting"]
             /\ Queue(<<"shutdownInLoop", s>>)
       \/ /\ \A s \in Sockets : s = client.connection => connState[s] # "kConnected"
          /\ UNCHANGED <<connState, pendingFunctors>>
    /\ UNCHANGED <<connector, openSockets, socketsMade, timers, running, clientAt, active, historyVars, asserted>>

ClientStop ==
    /\ clientAt # "idle" /\ ~ stopped /\ stopped' = TRUE
    /\ client' = [client EXCEPT !.connect = FALSE]
    /\ connector' = [connector EXCEPT !.connect = FALSE]
    /\ overtaken' = (clientAt = "restart")
    /\ Queue(<<"stopInLoop", NoSocket>>)
    /\ UNCHANGED <<connState, openSockets, socketsMade, timers, running, clientAt, active, asserted>>

-----------------------------------------------------------------------------
(* Connector, in the loop: c is the Connector so far, t the timers. *)
Doubled(delay) == IF 2 * delay < kMaxRetryDelayMs THEN 2 * delay ELSE kMaxRetryDelayMs

(* Mutant: the socket of an attempt that failed is not closed. *)
RetryOpen(c, t, s) ==
    /\ UNCHANGED openSockets
    /\ connector' = [c EXCEPT !.state = "kDisconnected", !.delay = IF c.connect THEN Doubled(@) ELSE @]
    /\ timers' = IF c.connect THEN t + 1 ELSE t

Retry(c, t, s) ==
    /\ openSockets' = openSockets \ {s}
    /\ connector' = [c EXCEPT !.state = "kDisconnected", !.delay = IF c.connect THEN Doubled(@) ELSE @]
    /\ timers' = IF c.connect THEN t + 1 ELSE t

(* connect: under way (or connected), to be tried again, or an error for good. *)
Attempt(c, t) ==
    LET s == socketsMade + 1
    IN  /\ socketsMade < MaxSockets /\ socketsMade' = s
        /\ \/ /\ connector' = [c EXCEPT !.state = "kConnecting", !.channel = s, !.polled = TRUE]
              /\ openSockets' = openSockets \cup {s} /\ timers' = t
           \/ Retry(c, t, s)
           \/ connector' = c /\ timers' = t /\ UNCHANGED openSockets

(* startInLoop, with its assertion and the one of connecting. *)
StartInLoop(c, t) ==
    /\ asserted' = (asserted /\ c.state = "kDisconnected" /\ (c.connect => c.channel = NoSocket))
    /\ \/ c.connect /\ Attempt(c, t)
       \/ ~ c.connect /\ connector' = c /\ timers' = t /\ UNCHANGED <<openSockets, socketsMade>>

(* removeAndResetChannel: the object is reset later, its handler may be running. *)
RemoveAndResetChannel(c) == [c EXCEPT !.polled = FALSE]
ResetLater == Queue(<<"resetChannel", NoSocket>>)

-----------------------------------------------------------------------------
(* EventLoop::loop: the events of one poll, then the functors queued so far. *)
PollClient ==
    /\ clientAt = "poll" /\ clientAt' = "events"
    /\ active' \in SUBSET {e \in {"connector", "timer", "peer"} :
                              \/ e = "connector" /\ connector.polled
                              \/ e = "timer" /\ timers > 0
                              \/ e = "peer" /\ \E s \in Sockets : connState[s] \in {"kConnected", "kDisconnecting"}}
    /\ active' # {} \/ pendingFunctors # <<>>
    /\ UNCHANGED <<connector, client, connState, openSockets, socketsMade, timers, pendingFunctors,
                   running, historyVars, asserted>>
EventsDone ==
    /\ clientAt = "events" /\ active = {} /\ clientAt' = "functors"
    /\ running' = pendingFunctors /\ pendingFunctors' = <<>>
    /\ UNCHANGED <<connector, client, connState, openSockets, socketsMade, timers, active, historyVars, asserted>>

ClientEvent(e) == clientAt = "events" /\ e \in active /\ active' = active \ {e}

(* The timer of retry. *)
TimerEvent ==
    /\ ClientEvent("timer") /\ StartInLoop(connector, timers - 1)
    /\ UNCHANGED <<client, connState, pendingFunctors, running, clientAt, historyVars>>

(* handleError; handleWrite with an error or a socket connected to itself. *)
HandleFailure ==
    /\ ClientEvent("connector") /\ connector.state = "kConnecting"
    /\ Retry(RemoveAndResetChannel(connector), timers, connector.channel) /\ ResetLater
    /\ UNCHANGED <<client, connState, socketsMade, running, clientAt, historyVars, asserted>>

NewConnection(s) ==
    /\ client' = [client EXCEPT !.connection = s]
    /\ connState' = [connState EXCEPT ![s] = "kConnected"]

(* handleWrite without an error: a connection, unless the Connector has been stopped. *)
HandleConnected ==
    LET s == connector.channel
    IN  /\ ClientEvent("connector") /\ connector.state = "kConnecting"
        /\ connector' = [RemoveAndResetChannel(connector) EXCEPT !.state = "kConnected"] /\ ResetLater
        /\ \/ connector.connect /\ NewConnection(s) /\ UNCHANGED openSockets
           \/ ~ connector.connect /\ openSockets' = openSockets \ {s} /\ UNCHANGED <<client, connState>>
        /\ UNCHANGED <<socketsMade, timers, running, clientAt, historyVars, asserted>>

(* The server closes the connection: handleClose, and removeConnection up to restart. *)
PeerCloses ==
    \E s \in Sockets :
        /\ ClientEvent("peer") /\ connState[s] \in {"kConnected", "kDisconnecting"}
        /\ connState' = [connState EXCEPT ![s] = "kDisconnected"]
        /\ asserted' = (asserted /\ client.connection = s)
        /\ client' = [client EXCEPT !.connection = NoSocket]
        /\ Queue(<<"connectDestroyed", s>>)
        /\ clientAt' = IF client.retry /\ client.connect THEN "restart" ELSE "events"
        /\ UNCHANGED <<connector, openSockets, socketsMade, timers, running, historyVars>>

(* restart; stop() may fall before connect_ is set again, or after it. *)
RestartConnector ==
    /\ clientAt = "restart" /\ clientAt' = "startInLoop"
    /\ connector' = [connector EXCEPT !.state = "kDisconnected", !.delay = kInitRetryDelayMs,
                                     !.connect = TRUE]
    /\ UNCHANGED <<client, connState, openSockets, socketsMade, timers, pendingFunctors, running, active,
                   historyVars, asserted>>
Restarted ==
    /\ clientAt = "startInLoop" /\ clientAt' = "events" /\ StartInLoop(connector, timers)
    /\ UNCHANGED <<client, connState, pendingFunctors, running, active, historyVars>>

-----------------------------------------------------------------------------
Functor(name) == clientAt = "functors" /\ running # <<>> /\ Head(running)[1] = name /\ running' = Tail(running)

RunStart ==
    /\ Functor("startInLoop") /\ StartInLoop(connector, timers)
    /\ UNCHANGED <<client, connState, pendingFunctors, clientAt, active, historyVars>>
RunStop ==
    /\ Functor("stopInLoop")
    /\ \/ /\ connector.state = "kConnecting"
          /\ Retry(RemoveAndResetChannel(connector), timers, connector.channel) /\ ResetLater
       \/ connector.state # "kConnecting" /\ UNCHANGED <<connector, openSockets, timers, pendingFunctors>>
    /\ UNCHANGED <<client, connState, socketsMade, clientAt, active, historyVars, asserted>>
ResetChannel ==
    /\ Functor("resetChannel") /\ connector' = [connector EXCEPT !.channel = NoSocket]
    /\ UNCHANGED <<client, connState, openSockets, socketsMade, timers, pendingFunctors, clientAt, active,
                   historyVars, asserted>>
(* The last reference to the connection goes, and its Socket closes. *)
ConnectDestroyed ==
    /\ Functor("connectDestroyed")
    /\ \E s \in {Head(running)[2]} :
           connState' = [connState EXCEPT ![s] = "none"] /\ openSockets' = openSockets \ {s}
    /\ UNCHANGED <<connector, client, socketsMade, timers, pendingFunctors, clientAt, active, historyVars,
                   asserted>>
(* The other side sees the end of the stream and may close. *)
ShutdownInLoop ==
    /\ Functor("shutdownInLoop")
    /\ UNCHANGED <<connector, client, connState, openSockets, socketsMade, timers, pendingFunctors, clientAt,
                   active, historyVars, asserted>>
FunctorsDone ==
    /\ clientAt = "functors" /\ running = <<>> /\ clientAt' = "poll"
    /\ UNCHANGED <<connector, client, connState, openSockets, socketsMade, timers, pendingFunctors, running,
                   active, historyVars, asserted>>

ClientNext ==
    \/ ClientConnect \/ ClientDisconnect \/ ClientStop
    \/ PollClient \/ EventsDone \/ TimerEvent \/ HandleFailure \/ HandleConnected \/ PeerCloses \/ RestartConnector
    \/ Restarted
    \/ RunStart \/ RunStop \/ ResetChannel \/ ConnectDestroyed \/ ShutdownInLoop \/ FunctorsDone

ClientSpec == ClientInit /\ [][ClientNext]_clientVars

-----------------------------------------------------------------------------
Queued(name) == \E i \in 1..Len(running \o pendingFunctors) : (running \o pendingFunctors)[i][1] = name

(* Every open socket is the one being connected or has its connection: no retry, stop
   or reconnection forgets one or closes one that is in use (until an assertion fails). *)
SocketsOwned ==
    asserted => openSockets = {s \in Sockets : (connector.polled /\ connector.channel = s) \/ connState[s] # "none"}

(* The assertions of Connector and TcpClient hold, unless stop() came just before
   restart(): then a timer may start a connection before the last channel is reset. *)
AssertionsHold == asserted \/ overtaken

(* There is one connection at a time. *)
OneConnection ==
    \A s \in Sockets : connState[s] \in {"kConnected", "kDisconnecting"} => client.connection = s

(* stop() holds: once it has been carried out nothing is connected any more, whatever
   timer or event was on its way; unless it came just before restart(). *)
StopHolds ==
    stopped /\ ~ overtaken /\ ~ Queued("stopInLoop") => ~ connector.connect /\ connector.state # "kConnecting"

ClientClean == SocketsOwned /\ AssertionsHold /\ OneConnection /\ StopHolds

(* Why.  One thing at a time drives the client: startInLoop that is queued, waits for
   its time or is about to run, an attempt under way, or a connection. *)
FunctorNames == {"startInLoop", "shutdownInLoop", "stopInLoop", "resetChannel", "connectDestroyed"}
Functors == FunctorNames \X (0..MaxSockets)
Functions == running \o pendingFunctors
Lacks(q, name) == \A i \in 1..Len(q) : q[i][1] # name
OnlyFirst(q, name) == \A i \in 1..Len(q) : q[i][1] = name => i = 1
AtMostOnce(q, name) == \A i, j \in 1..Len(q) : q[i][1] = name /\ q[j][1] = name => i = j
Destroying(q) == {q[i][2] : i \in {j \in 1..Len(q) : q[j][1] = "connectDestroyed"}}
Live == {s \in Sockets : connState[s] \in {"kConnected", "kDisconnecting"}}
States == {"kDisconnected", "kConnecting", "kConnected"}
Connectors == [connect : BOOLEAN, state : States, delay : Nat, channel : 0..MaxSockets, polled : BOOLEAN]
Clients == [connect : BOOLEAN, retry : BOOLEAN, connection : 0..MaxSockets]
ClientTypes ==
    /\ connector \in Connectors /\ client \in Clients
    /\ connState \in [Sockets -> {"none", "kConnected", "kDisconnecting", "kDisconnected"}]
    /\ socketsMade \in 0..MaxSockets /\ timers \in Nat /\ openSockets \subseteq Sockets
    /\ pendingFunctors \in Seq(Functors) /\ running \in Seq(Functors)
    /\ active \subseteq {"connector", "timer", "peer"}
    /\ clientAt \in {"idle", "poll", "events", "functors", "restart", "startInLoop"}
OneDriver ==
    /\ connector.polled <=> connector.state = "kConnecting"
    /\ connector.state # "kDisconnected" =>
          timers = 0 /\ Lacks(Functions, "startInLoop") /\ clientAt # "startInLoop"
    /\ Live # {} => connector.state = "kConnected"
    /\ timers > 0 => timers = 1 /\ Lacks(Functions, "startInLoop") /\ clientAt # "startInLoop"
    /\ clientAt = "startInLoop" => Lacks(Functions, "startInLoop")
    /\ clientAt = "restart" => connector.state = "kConnected" /\ Live = {}
    /\ OnlyFirst(Functions, "startInLoop")
    /\ clientAt = "idle" =>
          /\ connector.state = "kDisconnected" /\ timers = 0 /\ running = <<>> /\ pendingFunctors = <<>>
          /\ connector.channel = NoSocket /\ ~ stopped
(* The events of one poll: at most one, and it belongs to what drives the client. *)
OneEvent ==
    /\ clientAt # "functors" => running = <<>>
    /\ clientAt # "events" => active = {}
    /\ \A e, f \in active : e = f
    /\ "timer" \in active => timers > 0
    /\ "peer" \in active => connector.state = "kConnected"
    /\ "connector" \in active => connector.state # "kDisconnected"
(* Until stop() is called a channel that no longer waits is reset before anything
   may start a connection. *)
ResetFirst ==
    ~ stopped =>
        /\ Lacks(Functions, "stopInLoop")
        /\ "timer" \in active \/ "peer" \in active \/ clientAt \in {"restart", "startInLoop"} =>
              connector.channel = NoSocket
        /\ ~ Lacks(Functions, "startInLoop") => connector.channel = NoSocket
        /\ ~ connector.polled /\ connector.channel # NoSocket =>
              /\ clientAt \in {"events", "functors"}
              /\ clientAt = "events" => ~ Lacks(pendingFunctors, "resetChannel")
              /\ clientAt = "functors" => ~ Lacks(running, "resetChannel")
StoppedInv ==
    /\ overtaken => stopped
    /\ stopped /\ ~ overtaken =>
          /\ ~ connector.connect /\ ~ client.connect /\ clientAt # "restart"
          /\ connector.state = "kConnecting" => ~ Lacks(Functions, "stopInLoop")
SocketsInv ==
    asserted =>
        /\ SocketsOwned
        /\ \A s \in Sockets : connState[s] # "none" => s <= socketsMade
        /\ connector.polled =>
              /\ connector.channel = socketsMade /\ connector.channel # NoSocket
              /\ connState[socketsMade] = "none"
              /\ Lacks(Functions, "resetChannel") /\ socketsMade \notin Destroying(Functions)
        /\ ~ Lacks(Functions, "resetChannel") => connector.channel # NoSocket
        /\ AtMostOnce(Functions, "resetChannel")
        /\ Destroying(Functions) \subseteq 1..socketsMade
ClientInv ==
    ClientTypes /\ OneDriver /\ OneEvent /\ ResetFirst /\ StoppedInv /\ SocketsInv /\ AssertionsHold /\ OneConnection
==============================================================================
