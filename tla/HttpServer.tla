----------------------------- MODULE HttpServer -----------------------------
(***************************************************************************)
(* The server of main.cc: HttpServer on a TcpServer, one CHttpConn for     *)
(* every connection, and the pool of business threads that run OnRead.     *)
(*                                                                         *)
(* OnRead parses everything the connection has ever received, from the     *)
(* start: the input buffer is only peeked at.  Several workers may do so   *)
(* for one connection at once, on one parser, while the I/O thread appends *)
(* to the buffer.  What they then see is undefined; here such a parse may  *)
(* or may not find a complete request.                                     *)
(***************************************************************************)
EXTENDS TcpServer

CONSTANTS
    Workers,       \* the threads of thread_pool_
    Segments,      \* Segments[c]: in how many pieces the request of c arrives
    Malformed,     \* connections whose request the parser does not accept
    Resetting      \* connections the client may reset

(* No worker, or connection. *)
Nobody == "nobody"

ASSUME HttpAssumption ==
    /\ {Wakeup, Acceptor, Nobody} \cap Channels = {}
    /\ Workers # {}
    /\ Workers \cap Loops = {}
    /\ Segments \in [Channels -> Nat \ {0}]
    /\ Malformed \subseteq Channels
    /\ Resetting \subseteq Channels

VARIABLES
    s_http_map,    \* connections with an entry in s_http_map
    inputBuffer,   \* inputBuffer[c]: segments read; nothing is ever retrieved
    arrived,       \* arrived[c]: segments the client has sent
    tasks,         \* queue_ of the thread pool: the connection of each OnRead
    wpc, wconn,    \* wpc[w], wconn[w]: what worker w does, for which connection
    length,        \* length[w]: readableBytes() when OnRead was entered
    disturbed,     \* disturbed[w]: has parser or buffer been changed meanwhile?
    handled        \* handled[c]: how often the request of c has been carried out

httpVars == <<s_http_map, inputBuffer, arrived, tasks, wpc, wconn, length, disturbed, handled>>
vars == <<loopVars, channelVars, tcpVars, socketVars, serverVars, httpVars>>

Init ==
    /\ LoopInit /\ TcpInit /\ ServerInit
    /\ s_http_map = {}
    /\ inputBuffer = [c \in Channels |-> 0]
    /\ arrived = [c \in Channels |-> 0]
    /\ tasks = <<>>
    /\ wpc = [w \in Workers |-> "take"]
    /\ wconn = [w \in Workers |-> Nobody]
    /\ length = [w \in Workers |-> 0]
    /\ disturbed = [w \in Workers |-> FALSE]
    /\ handled = [c \in Channels |-> 0]

(* Types. *)
TypeOK ==
    /\ LoopTypeOK /\ TcpTypeOK /\ ServerTypeOK
    /\ s_http_map \subseteq Channels
    /\ inputBuffer \in [Channels -> Nat]
    /\ arrived \in [Channels -> Nat]
    /\ tasks \in Seq(Channels)
    /\ wpc \in [Workers -> {"take", "parse", "handle", "queue"}]
    /\ wconn \in [Workers -> Channels \cup {Nobody}]
    /\ length \in [Workers -> Nat]
    /\ disturbed \in [Workers -> BOOLEAN]
    /\ handled \in [Channels -> Nat]

-----------------------------------------------------------------------------
(* Who keeps the TcpConnection: the server, functors, the loop that handles its
   event, and every CHttpConn, which is kept by the map, tasks and workers. *)
Owned(c) ==
    \/ c \in connections
    \/ OwnedByFunctor(c)
    \/ Guarded(c)
    \/ c \in s_http_map
    \/ \E i \in DOMAIN tasks : tasks[i] = c
    \/ \E w \in Workers : wconn[w] = c

OpenFds == {c \in Channels : state[c] # "none" /\ Owned(c)}

(* The workers that are parsing for c. *)
Parsing(c) == {w \in Workers : wpc[w] = "parse" /\ wconn[w] = c}

-----------------------------------------------------------------------------
(* The clients. *)
Connect(c) ==
    /\ PeerConnects(c)
    /\ UNCHANGED <<loopVars, channelVars, tcpVars, socketVars, httpVars>>

Send(c) ==
    /\ c \in OpenFds
    /\ arrived[c] < Segments[c]
    /\ PeerSends(c, Segments[c])
    /\ arrived' = [arrived EXCEPT ![c] = @ + 1]
    /\ UNCHANGED <<loopVars, channelVars, tcpVars, serverVars, s_http_map, inputBuffer,
                   tasks, wpc, wconn, length, disturbed, handled>>

Hangup(c) ==
    /\ c \in OpenFds
    /\ PeerCloses(c) \/ (c \in Resetting /\ PeerResets(c))
    /\ UNCHANGED <<loopVars, channelVars, tcpVars, serverVars, httpVars>>

-----------------------------------------------------------------------------
(* The loops. *)
PollLoop(l) ==
    /\ Poll(l, ReadyConnections({c \in Channels : loopOf[c] = l}) \cup ReadyAcceptor(l))
    /\ UNCHANGED <<channelVars, tcpVars, socketVars, serverVars, httpVars>>

LoopStepOnly(l) ==
    /\ LoopStep(l)
    /\ UNCHANGED <<channelVars, tcpVars, socketVars, serverVars, httpVars>>

Accept(c) ==
    /\ \/ Cardinality(OpenFds) < MaxFds /\ NewConnection(c)
       \/ Cardinality(OpenFds) >= MaxFds /\ RefuseConnection(c)
    /\ UNCHANGED httpVars

(* The functor at hand has run. *)
Ran(l) == next' = [next EXCEPT ![l] = @ + 1] /\ UNCHANGED <<phase, active, functors>>

(* connectEstablished and onConnection: the connection is up. *)
RunEstablished(l, c) ==
    /\ Running(l, Functor("connectEstablished", c, NoMessage))
    /\ Ran(l)
    /\ Establish(c)
    /\ s_http_map' = s_http_map \cup {c}
    /\ UNCHANGED <<pendingFunctors, wakeupFd, socketVars, serverVars, inputBuffer, arrived,
                   tasks, wpc, wconn, length, disturbed, handled>>

(* handleRead with data, and onMessage: OnRead becomes a task.  Appending may
   move the buffer under a worker that is reading it. *)
HandleRead(l, c) ==
    /\ Handling(l, c, "IN")
    /\ ReadsData(c)
    /\ Handled(l, "IN")
    /\ inputBuffer' = [inputBuffer EXCEPT ![c] = @ + rx[c]]
    /\ rx' = [rx EXCEPT ![c] = 0]
    /\ \/ UNCHANGED disturbed
       \/ disturbed' = [w \in Workers |-> disturbed[w] \/ w \in Parsing(c)]
    /\ tasks' = IF c \in s_http_map THEN Append(tasks, c) ELSE tasks
    /\ UNCHANGED <<peer, sockerr, channelVars, tcpVars, serverVars, phase,
                   pendingFunctors, functors, next, wakeupFd, s_http_map, arrived, wpc, wconn,
                   length, handled>>

(* Mutant: onConnection does not erase the entry. *)
CloseConnectionKeepsEntry(l, c, r) ==
    /\ Handled(l, r)
    /\ Close(c)
    /\ RemoveConnection(l, c)
    /\ UNCHANGED <<socketVars, phase, functors, next, s_http_map, inputBuffer, arrived, tasks,
                   wpc, wconn, length, disturbed, handled>>

(* handleClose, onConnection (down) and the close callback. *)
CloseConnection(l, c, r) ==
    /\ Handled(l, r)
    /\ Close(c)
    /\ s_http_map' = s_http_map \ {c}
    /\ RemoveConnection(l, c)
    /\ UNCHANGED <<socketVars, phase, functors, next, inputBuffer, arrived, tasks,
                   wpc, wconn, length, disturbed, handled>>

HandleEof(l, c) ==
    /\ Handling(l, c, "IN")
    /\ ReadsEof(c)
    /\ CloseConnection(l, c, "IN")

(* POLLHUP closes only without POLLIN; with it the read will.  This server never
   stops reading, and then POLLHUP comes with POLLIN. *)
HandleHup(l, c) ==
    /\ Handling(l, c, "HUP")
    /\ "IN" \in Head(active[l])[2]
    /\ Handled(l, "HUP")
    /\ UNCHANGED <<channelVars, tcpVars, socketVars, serverVars, httpVars, phase,
                   pendingFunctors, functors, next, wakeupFd>>

HandleOther(l, c) ==
    /\ \/ HandleReadError(l, c)
       \/ HandleError(l, c)
       \/ HandleWrite(l, c)
    /\ UNCHANGED <<serverVars, httpVars>>

RunRemove(c) ==
    /\ Running(Base, Functor("removeConnection", c, NoMessage))
    /\ Ran(Base)
    /\ RemoveConnectionInLoop(c)
    /\ UNCHANGED <<channelVars, tcpVars, socketVars, httpVars>>

(* connectDestroyed; the connection is down already. *)
RunDestroyed(l, c) ==
    /\ Running(l, Functor("connectDestroyed", c, NoMessage))
    /\ Ran(l)
    /\ Destroy(c)
    /\ UNCHANGED <<pendingFunctors, wakeupFd, socketVars, serverVars, httpVars>>

RunSend(l, c, m) ==
    /\ Running(l, Functor("sendInLoop", c, m))
    /\ Ran(l)
    /\ SendInLoop(l, c, m)
    /\ UNCHANGED <<socketVars, serverVars, httpVars>>

(* onWriteComplete only logs. *)
RunWriteComplete(l, c) ==
    /\ Running(l, Functor("writeComplete", c, NoMessage))
    /\ Ran(l)
    /\ UNCHANGED <<pendingFunctors, wakeupFd, channelVars, tcpVars, socketVars, serverVars,
                   httpVars>>

OnConnection(l, c) ==
    \/ l = Base /\ (Accept(c) \/ RunRemove(c))
    \/ RunEstablished(l, c)
    \/ HandleRead(l, c)
    \/ HandleEof(l, c)
    \/ HandleHup(l, c)
    \/ HandleOther(l, c)
    \/ RunDestroyed(l, c)
    \/ RunWriteComplete(l, c)
    \/ \E m \in Messages : RunSend(l, c, m)

-----------------------------------------------------------------------------
(* ThreadPool::take, and OnRead: it looks at the buffer and ParseHttpContent
   resets the parser, also under another worker that is using it. *)
Take(w) ==
    /\ wpc[w] = "take"
    /\ tasks # <<>>
    /\ LET c == Head(tasks)
       IN  /\ tasks' = Tail(tasks)
           /\ wconn' = [wconn EXCEPT ![w] = c]
           /\ wpc' = [wpc EXCEPT ![w] = "parse"]
           /\ length' = [length EXCEPT ![w] = inputBuffer[c]]
           /\ disturbed' = [v \in Workers |-> IF v = w THEN Parsing(c) # {}
                                              ELSE disturbed[v] \/ v \in Parsing(c)]
    /\ UNCHANGED <<loopVars, channelVars, tcpVars, socketVars, serverVars, s_http_map,
                   inputBuffer, arrived, handled>>

(* Has the parser found the end of a request?  IsReadAll(). *)
ReadAll(w) ==
    IF disturbed[w] THEN BOOLEAN
    ELSE {length[w] = Segments[wconn[w]] /\ wconn[w] \notin Malformed}

(* An incomplete request is left for the next OnRead, and so is a malformed one. *)
EndParse(w) ==
    /\ wpc[w] = "parse"
    /\ \E all \in ReadAll(w) :
         \/ /\ all
            /\ wpc' = [wpc EXCEPT ![w] = "handle"]
            /\ UNCHANGED wconn
         \/ /\ ~ all
            /\ wpc' = [wpc EXCEPT ![w] = "take"]
            /\ wconn' = [wconn EXCEPT ![w] = Nobody]
    /\ length' = [length EXCEPT ![w] = 0]
    /\ disturbed' = [disturbed EXCEPT ![w] = FALSE]
    /\ UNCHANGED <<loopVars, channelVars, tcpVars, socketVars, serverVars, s_http_map,
                   inputBuffer, arrived, tasks, handled>>

(* The handler the URL selects; what it does is modelled in FileHub.  Then
   TcpConnection::send looks at state_ ... *)
Handle(w) ==
    /\ wpc[w] = "handle"
    /\ handled' = [handled EXCEPT ![wconn[w]] = @ + 1]
    /\ \/ /\ state[wconn[w]] = "kConnected"
          /\ wpc' = [wpc EXCEPT ![w] = "queue"]
          /\ UNCHANGED wconn
       \/ /\ state[wconn[w]] # "kConnected"
          /\ wpc' = [wpc EXCEPT ![w] = "take"]
          /\ wconn' = [wconn EXCEPT ![w] = Nobody]
    /\ UNCHANGED <<loopVars, channelVars, tcpVars, socketVars, serverVars, s_http_map,
                   inputBuffer, arrived, tasks, length, disturbed>>

(* ... and queues the rest for the loop of the connection.  The task is done. *)
QueueSend(w) ==
    LET c == wconn[w]
    IN  /\ wpc[w] = "queue"
        /\ QueueInLoop(w, loopOf[c], <<Functor("sendInLoop", c, handled[c])>>)
        /\ wpc' = [wpc EXCEPT ![w] = "take"]
        /\ wconn' = [wconn EXCEPT ![w] = Nobody]
        /\ UNCHANGED <<phase, active, functors, next, channelVars, tcpVars,
                       socketVars, serverVars, s_http_map, inputBuffer, arrived, tasks,
                       length, disturbed, handled>>

Work(w) == Take(w) \/ EndParse(w) \/ Handle(w) \/ QueueSend(w)

-----------------------------------------------------------------------------
LoopThread(l) ==
    \/ PollLoop(l)
    \/ LoopStepOnly(l)
    \/ \E c \in Channels : OnConnection(l, c)

Client(c) == Connect(c) \/ Send(c) \/ Hangup(c)

(* Every client has come and gone, and the server has let go of it. *)
Quiet ==
    /\ \A c \in Channels : c \in refused \/ (peer[c] # "open" /\ ~ Owned(c))
    /\ UNCHANGED vars

Next ==
    \/ \E l \in Loops : LoopThread(l)
    \/ \E w \in Workers : Work(w)
    \/ \E c \in Channels : Client(c)
    \/ Quiet

Spec == Init /\ [][Next]_vars

-----------------------------------------------------------------------------
(* Whatever is queued for a connection finds it alive, unless the connection was
   closed in between: then a sendInLoop, which is bound to a bare pointer, may
   be all that is left.  (TcpConnection::send, TcpServer::removeConnection) *)
QueuedFindsConnection ==
    \A l \in Loops : \A i \in DOMAIN ToRun(l) :
        LET f == ToRun(l)[i]
        IN  Owned(f[2]) \/ (f[1] = "sendInLoop" /\ state[f[2]] = "kDisconnected")

(* A connection is removed from the server's map once: the assertion of
   removeConnectionInLoop holds, whatever way the connection ended. *)
RemovedOnce ==
    \A c \in Channels :
        LET removals == {i \in DOMAIN ToRun(Base) :
                            ToRun(Base)[i] = Functor("removeConnection", c, NoMessage)}
        IN  removals # {} => Cardinality(removals) = 1 /\ c \in connections

(* Never more descriptors than the process may have: connections that are gone
   but still owned, by a worker say, are counted.  (Acceptor::handleRead) *)
FdsBounded == Cardinality(OpenFds) <= MaxFds

(* Everything the server keeps of its connections agrees: types, queues, map and
   descriptors, however a connection ends. *)
ConnectionsSound == TypeOK /\ QueuedFindsConnection /\ RemovedOnce /\ FdsBounded

(* Functors of one operation for one connection in a queue: is there one, are there
   not two, and do they all carry message n? *)
Has(q, op, c) == \E i \in DOMAIN q : q[i][1] = op /\ q[i][2] = c
Single(q, op, c) ==
    \A i, j \in DOMAIN q : q[i][1] = op /\ q[i][2] = c /\ q[j][1] = op /\ q[j][2] = c => i = j
Carry(q, op, c, n) == \A i \in DOMAIN q : q[i][1] = op /\ q[i][2] = c => q[i][3] = n

Queued(l, op, c) == Has(ToRun(l), op, c)
Once(l, op, c) == Single(ToRun(l), op, c)
Carrying(l, op, c, n) == Carry(ToRun(l), op, c, n)

Lifecycle == {"connectEstablished", "removeConnection", "connectDestroyed"}
Operations == Lifecycle \cup {"writeComplete", "sendInLoop"}
FunctorSet ==
    ((Operations \ {"sendInLoop"}) \X Channels \X {NoMessage}) \cup ({"sendInLoop"} \X Channels \X Nat)

(* A loop that is not handling events has none, and is woken for what is queued; one
   that is not running functors has taken none. *)
LoopsInv ==
    /\ pendingFunctors \in [Loops -> Seq(FunctorSet)]
    /\ functors \in [Loops -> Seq(FunctorSet)]
    /\ \A l \in Loops :
        /\ phase[l] # "functors" => functors[l] = <<>> /\ next[l] = 0
        /\ phase[l] # "events" => active[l] = <<>> /\ (pendingFunctors[l] # <<>> => wakeupFd[l])

(* Where a connection is in its life: what is queued for it tells. *)
Life(c) ==
    /\ \A l \in Loops :
          /\ \A op \in Lifecycle : Once(l, op, c)
          /\ Queued(l, "connectEstablished", c) <=> l = loopOf[c] /\ state[c] = "kConnecting"
          /\ Queued(l, "removeConnection", c) <=>
                l = Base /\ state[c] = "kDisconnected" /\ c \in connections
          /\ Queued(l, "connectDestroyed", c) =>
                l = loopOf[c] /\ state[c] = "kDisconnected" /\ c \notin connections
    /\ state[c] # "kDisconnecting" /\ shut[c] = FALSE
    /\ state[c] = "none" => c \notin connections
    /\ state[c] \in {"kConnecting", "kConnected"} => c \in connections
    /\ state[c] # "none" => loopOf[c] # Base
    /\ c \in s_http_map <=> state[c] = "kConnected"
    /\ index[c] = "kAdded" <=> state[c] = "kConnected"
    /\ IF state[c] = "kConnected" THEN "IN" \in events[c] ELSE events[c] = {}
    /\ c \in backlog => state[c] = "none"
LifeInv == \A c \in Channels : Life(c)

(* Events are those of connections that are not destroyed, each once. *)
Event(l, c) ==
    /\ loopOf[c] = l
    /\ state[c] \in {"kConnected", "kDisconnected"}
    /\ c \in connections \/ Queued(l, "connectDestroyed", c)
EventsInv ==
    \A l \in Loops : \A i \in DOMAIN active[l] :
        /\ active[l][i][2] # {}
        /\ \A j \in DOMAIN active[l] : active[l][j][1] = active[l][i][1] => i = j
        /\ \A c \in Channels : active[l][i][1] = c =>
              Event(l, c) /\ ("IN" \in active[l][i][2] => state[c] = "kConnected")

(* Only what has been up is read from and written to. *)
Been(c) == state[c] \in {"kConnected", "kDisconnected"}
TaskFor(c) == \E i \in DOMAIN tasks : tasks[i] = c
WorkerFor(c) == \E w \in Workers : wconn[w] = c
WorkersInv ==
    /\ \A c \in Channels :
          /\ TaskFor(c) \/ WorkerFor(c) => Been(c)
          /\ \A l \in Loops : Queued(l, "sendInLoop", c) \/ Queued(l, "writeComplete", c) => Been(c)
          /\ Been(c) \/ (outputBuffer[c] = <<>> /\ accepted[c] = <<>> /\ inputBuffer[c] = 0 /\ handled[c] = 0)
    /\ \A w \in Workers : wpc[w] = "take" <=> wconn[w] = Nobody

(* Only a connection that is accepted takes a descriptor. *)
FdsInv == IsFiniteSet(OpenFds) /\ FdsBounded

(* A request in one piece, from the socket to the answer. *)
OneTask(c) == \A i, j \in DOMAIN tasks : tasks[i] = c /\ tasks[j] = c => i = j
SendFor(c) == \E l \in Loops : Queued(l, "sendInLoop", c)

Unread(c) == /\ inputBuffer[c] = 0 /\ handled[c] = 0 /\ accepted[c] = <<>>
             /\ ~ TaskFor(c) /\ ~ WorkerFor(c) /\ ~ SendFor(c)
InTask(c) == /\ inputBuffer[c] = 1 /\ handled[c] = 0 /\ accepted[c] = <<>>
             /\ TaskFor(c) /\ OneTask(c) /\ ~ WorkerFor(c) /\ ~ SendFor(c)
AtWorker(c) == /\ inputBuffer[c] = 1 /\ accepted[c] = <<>> /\ ~ TaskFor(c) /\ ~ SendFor(c)
               /\ \E w \in Workers :
                     /\ \A v \in Workers : wconn[v] = c <=> v = w
                     /\ wpc[w] = "parse" => length[w] = 1 /\ disturbed[w] = FALSE
                     /\ handled[c] = IF wpc[w] = "queue" THEN 1 ELSE 0
AtLoop(c) == /\ inputBuffer[c] = 1 /\ handled[c] = 1 /\ accepted[c] = <<>>
             /\ ~ TaskFor(c) /\ ~ WorkerFor(c) /\ SendFor(c)
             /\ \A l \in Loops : /\ Queued(l, "sendInLoop", c) => l = loopOf[c]
                                 /\ Once(l, "sendInLoop", c) /\ Carrying(l, "sendInLoop", c, 1)
Written(c) == /\ inputBuffer[c] = 1 /\ handled[c] = 1 /\ accepted[c] = <<1>>
              /\ ~ TaskFor(c) /\ ~ WorkerFor(c) /\ ~ SendFor(c)

Request(c) ==
    Segments[c] = 1 /\ state[c] # "kDisconnected" /\ peer[c] # "reset" =>
        /\ arrived[c] = rx[c] + inputBuffer[c] /\ arrived[c] <= 1
        /\ Unread(c) \/ InTask(c) \/ AtWorker(c) \/ AtLoop(c) \/ Written(c)
RequestsInv == \A c \in Channels \ Malformed : Request(c)

ServerInv ==
    TypeOK /\ LoopsInv /\ LifeInv /\ EventsInv /\ WorkersInv /\ OutputRight /\ FdsInv /\ RequestsInv

(* Nothing is under way: every loop waits and nothing is ready, every worker
   waits and has nothing to take. *)
Settled ==
    /\ \A l \in Loops : /\ phase[l] = "poll"
                       /\ ~ wakeupFd[l]
                       /\ ReadyConnections({c \in Channels : loopOf[c] = l}) = {}
    /\ \A w \in Workers : wpc[w] = "take"
    /\ tasks = <<>>
    /\ backlog = {}

(* When the client has gone and the server has settled, nothing keeps the
   connection: no CHttpConn, task or functor holds a TcpConnection for ever.
   (HttpServer::onConnection, TcpServer::removeConnectionInLoop) *)
Freed == Settled => \A c \in Channels : peer[c] # "open" => ~ Owned(c)

(* When the server has settled, a well-formed request that arrived in one piece
   has been carried out once and its answer has been written completely, if the
   client has waited for it; also when the first write was short.
   (CHttpConn::OnRead, TcpConnection::send) *)
AnsweredOnce ==
    Settled => \A c \in OpenFds \ Malformed :
        Segments[c] = 1 /\ arrived[c] = 1 => handled[c] = 1 /\ sent[c] = Bytes(1)

(* The documentation's rule for requests that cannot be parsed: they are
   answered (with 400).  OnRead takes them for incomplete and says nothing. *)
MalformedAnswered ==
    Settled => \A c \in OpenFds \cap Malformed :
        peer[c] = "open" /\ arrived[c] = Segments[c] => sent[c] # <<>>

=============================================================================
