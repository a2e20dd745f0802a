----------------------------- MODULE TcpServer -----------------------------
(***************************************************************************)
(* TcpServer with its Acceptor and EventLoopThreadPool: the base loop      *)
(* accepts connections and hands them round robin to the I/O loops; the    *)
(* end of a connection goes from its I/O loop to the base loop, which      *)
(* forgets it, and back, where it is destroyed.                            *)
(*                                                                         *)
(* A descriptor is open as long as anything owns the connection, which is  *)
(* for the modules that extend this one to say.                            *)
(***************************************************************************)
EXTENDS TcpConnection

CONSTANTS
    Base,          \* the loop of main()
    IoLoops,       \* loops_, the loops of the thread pool, in order; not empty
    MaxFds         \* how many connections the process may have open

ASSUME ServerAssumption ==
    /\ Base \in Loops
    /\ IoLoops \in Seq(Loops \ {Base}) \ {<<>>}
    /\ Loops = {Base} \cup {IoLoops[i] : i \in DOMAIN IoLoops}
    /\ MaxFds \in Nat \ {0}

VARIABLES
    backlog,       \* connections the kernel has for accept()
    refused,       \* connections closed at once for want of descriptors
    connections,   \* connections_
    loopOf,        \* loopOf[c]: the loop of c, Base until it is known
    nextLoop       \* next_ of the EventLoopThreadPool

serverVars == <<backlog, refused, connections, loopOf, nextLoop>>

ServerInit ==
    /\ backlog = {}
    /\ refused = {}
    /\ connections = {}
    /\ loopOf = [c \in Channels |-> Base]
    /\ nextLoop = 0

ServerTypeOK ==
    /\ backlog \subseteq Channels
    /\ refused \subseteq Channels
    /\ connections \subseteq Channels
    /\ loopOf \in [Channels -> Loops]
    /\ nextLoop \in Nat
    /\ nextLoop < Len(IoLoops)

-----------------------------------------------------------------------------
(* A client connects, once for every c. *)
PeerConnects(c) ==
    /\ state[c] = "none"
    /\ c \notin backlog \cup refused
    /\ backlog' = backlog \cup {c}
    /\ UNCHANGED <<refused, connections, loopOf, nextLoop>>

ReadyAcceptor(l) == IF l = Base /\ backlog # {} THEN {<<Acceptor, {"IN"}>>} ELSE {}

(* EventLoopThreadPool::getNextLoop, round robin. *)
GetNextLoop == IoLoops[nextLoop + 1]

(* Acceptor::handleRead when accept() succeeds, and TcpServer::newConnection. *)
NewConnection(c) ==
    /\ Handling(Base, Acceptor, "IN")
    /\ c \in backlog
    /\ backlog' = backlog \ {c}
    /\ connections' = connections \cup {c}
    /\ loopOf' = [loopOf EXCEPT ![c] = GetNextLoop]
    /\ nextLoop' = (nextLoop + 1) % Len(IoLoops)
    /\ state' = [state EXCEPT ![c] = "kConnecting"]
    /\ QueueInLoop(Base, GetNextLoop, <<Functor("connectEstablished", c, NoMessage)>>)
    /\ Handled(Base, "IN")
    /\ UNCHANGED <<refused, outputBuffer, sent, accepted, shut, socketVars, channelVars,
                   phase, functors, next>>

(* Acceptor::handleRead without a free descriptor: idleFd_ is given up to accept
   the connection and close it, or poll() would report it for ever. *)
RefuseConnection(c) ==
    /\ Handling(Base, Acceptor, "IN")
    /\ c \in backlog
    /\ backlog' = backlog \ {c}
    /\ refused' = refused \cup {c}
    /\ Handled(Base, "IN")
    /\ UNCHANGED <<connections, loopOf, nextLoop, tcpVars, socketVars, channelVars, phase,
                   pendingFunctors, functors, next, wakeupFd>>

(* removeConnectionInLoop: forget the connection, have it destroyed by its own
   loop, after the events that loop is handling. *)
RemoveConnectionInLoop(c) ==
    /\ connections' = connections \ {c}
    /\ QueueInLoop(Base, loopOf[c], <<Functor("connectDestroyed", c, NoMessage)>>)
    /\ UNCHANGED <<backlog, refused, loopOf, nextLoop>>

(* removeConnection, the close callback, on loop l. *)
RemoveConnection(l, c) ==
    /\ QueueInLoop(l, Base, <<Functor("removeConnection", c, NoMessage)>>)
    /\ UNCHANGED serverVars

-----------------------------------------------------------------------------
(* Mutant: connectDestroyed is bound to a bare pointer. *)
OwningNotDestroyed == {"connectEstablished", "removeConnection", "writeComplete"}

(* The functors that hold a reference to the connection; sendInLoop is bound to
   the bare pointer. *)
Owning == {"connectEstablished", "removeConnection", "connectDestroyed", "writeComplete"}

(* Is there a functor, queued or in the vector being run, that owns c? *)
OwnedByFunctor(c) ==
    \E l \in Loops : \E q \in {pendingFunctors[l], functors[l]} : \E i \in DOMAIN q :
        q[i][1] \in Owning /\ q[i][2] = c

(* The connection whose event is being handled is kept with tie_. *)
Guarded(c) == \E l \in Loops : active[l] # <<>> /\ Head(active[l])[1] = c

=============================================================================
