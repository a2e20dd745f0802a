----------------------------- MODULE NetConnect -----------------------------
(***************************************************************************)
(* How hiredis opens a connection: redisContextConnectTcp over the         *)
(* addresses of a host, redisContextConnectUnix over a path.  Any system   *)
(* call may fail; an errno is kept only where the code asks for it.  The   *)
(* context is then handed to the caller, who frees it.                     *)
(***************************************************************************)
EXTENDS Naturals, FiniteSets

CONSTANTS
    MaxAddresses,               \* bound: addresses of a host
    REDIS_CONNECT_RETRIES

ASSUME RetriesAssumption == REDIS_CONNECT_RETRIES \in Nat \ {0}

VARIABLES
    netAt,      \* where the connecting thread is
    opts,       \* what was asked for
    addrs,      \* addresses left, the current one included
    cfd,        \* c->fd: is it a socket?
    netErr,     \* c->err
    connected,  \* c->flags & REDIS_CONNECTED
    reuses,     \* attempts that found no free local port
    sockets     \* sockets open, the context's or lost

netVars == <<netAt, opts, addrs, cfd, netErr, connected, reuses, sockets>>

Options == [kind : {"tcp", "unix"}, block : BOOLEAN, timeout : {"none", "valid", "invalid"},
            source : BOOLEAN, reuse : BOOLEAN]
NoOptions == [kind |-> "tcp", block |-> TRUE, timeout |-> "none", source |-> FALSE, reuse |-> FALSE]

NetInit ==
    /\ netAt = "idle" /\ opts = NoOptions /\ addrs = 0 /\ cfd = FALSE
    /\ netErr = "" /\ connected = FALSE /\ reuses = 0 /\ sockets = 0

\* Mutant: the socket of a failed attempt stays open.
CloseFdNever == UNCHANGED <<cfd, sockets>>

(* redisContextCloseFd. *)
CloseFd == cfd' = FALSE /\ sockets' = IF cfd THEN sockets - 1 ELSE sockets
(* The function returns REDIS_ERR with this error in the context. *)
Fail(err) == netAt' = "failed" /\ netErr' = err
FailClosed(err) == Fail(err) /\ CloseFd
FailOpen(err) == Fail(err) /\ UNCHANGED <<cfd, sockets>>
Go(at) == netAt' = at /\ UNCHANGED <<netErr, cfd, sockets>>

(* redisConnect, redisConnectNonBlock, ...WithTimeout, ...Bind..., ...Unix.  Only
   the one with an address of its own may ask to reuse it. *)
NetConnect(o) ==
    /\ netAt = "idle"
    /\ o.reuse => o.source
    /\ o.source => o.kind = "tcp" /\ ~ o.block /\ o.timeout = "none"
    /\ o.timeout # "none" => o.block
    /\ opts' = o
    /\ netAt' = IF o.kind = "unix" THEN "create" ELSE "resolve"
    /\ UNCHANGED <<addrs, cfd, netErr, connected, reuses, sockets>>

(* redisContextTimeoutMsec. *)
TimeoutBad == opts.timeout = "invalid"

Resolve ==
    /\ netAt = "resolve"
    /\ \/ TimeoutBad /\ FailOpen("IO") /\ UNCHANGED addrs
       \/ ~ TimeoutBad /\ FailOpen("OTHER") /\ UNCHANGED addrs          \* neither IPv4 nor IPv6
       \/ ~ TimeoutBad /\ Go("socket") /\ addrs' \in 1..MaxAddresses
    /\ UNCHANGED <<opts, connected, reuses>>

NewSocket(at) == netAt' = at /\ cfd' = TRUE /\ sockets' = sockets + 1 /\ UNCHANGED netErr
(* redisSetBlocking(c, 0) on the new socket fails and closes it: nothing is
   left of it. *)
SocketLost(err) == netAt' = "failed" /\ netErr' = err /\ cfd' = FALSE /\ UNCHANGED sockets

Socket ==
    /\ netAt = "socket"
    /\ \/ addrs = 0 /\ FailOpen("OTHER") /\ UNCHANGED addrs
       \/ addrs > 0 /\ Go("socket") /\ addrs' = addrs - 1               \* socket fails
       \/ addrs > 0 /\ SocketLost("IO") /\ UNCHANGED addrs
       \/ addrs > 0 /\ NewSocket(IF opts.source THEN "bind" ELSE "connect") /\ UNCHANGED addrs
    /\ UNCHANGED <<opts, connected, reuses>>

Bind ==
    /\ netAt = "bind"
    /\ \/ FailOpen("OTHER")                             \* no such address, or it cannot be bound
       \/ opts.reuse /\ FailOpen(netErr)                \* setsockopt(SO_REUSEADDR): no error is set
       \/ Go("connect")
    /\ UNCHANGED <<opts, addrs, connected, reuses>>

(* redisContextWaitReady after connect gave EINPROGRESS, or any other errno. *)
WaitReady(then) ==
    \/ opts.block /\ Go(then)
    \/ opts.block /\ FailOpen("IO")                     \* redisCheckSocketError
    \/ FailClosed("IO")                                 \* poll fails or times out; not EINPROGRESS

Connect ==
    /\ netAt = "connect"
    /\ \/ Go("settle") /\ UNCHANGED <<addrs, reuses>>   \* at once; EINPROGRESS and non-blocking
       \/ /\ netAt' = "socket" /\ addrs' = addrs - 1    \* EHOSTUNREACH
          /\ CloseFd /\ UNCHANGED <<netErr, reuses>>
       \/ /\ opts.reuse /\ reuses' = reuses + 1         \* EADDRNOTAVAIL
          /\ \/ reuses' >= REDIS_CONNECT_RETRIES /\ FailOpen(netErr)
             \/ reuses' < REDIS_CONNECT_RETRIES /\ netAt' = "socket" /\ CloseFd /\ UNCHANGED netErr
          /\ UNCHANGED addrs
       \/ WaitReady("settle") /\ UNCHANGED <<addrs, reuses>>
    /\ UNCHANGED <<opts, connected>>

(* redisSetBlocking(c, 1) and redisSetTcpNoDelay. *)
Settle ==
    /\ netAt = "settle"
    /\ \/ FailClosed("IO") /\ UNCHANGED connected
       \/ Go("ready") /\ connected' = TRUE
    /\ UNCHANGED <<opts, addrs, reuses>>

(* redisContextConnectUnix. *)
CreateSocket ==
    /\ netAt = "create"
    /\ \/ FailOpen("IO")
       \/ SocketLost("IO")
       \/ TimeoutBad /\ netAt' = "failed" /\ cfd' = TRUE /\ sockets' = sockets + 1 /\ UNCHANGED netErr
       \/ ~ TimeoutBad /\ NewSocket("unix")
    /\ UNCHANGED <<opts, addrs, connected, reuses>>
ConnectUnix ==
    /\ netAt = "unix"
    /\ Go("unixsettle") \/ WaitReady("unixsettle")
    /\ UNCHANGED <<opts, addrs, connected, reuses>>
SettleUnix ==
    /\ netAt = "unixsettle"
    /\ \/ opts.block /\ FailClosed("IO") /\ UNCHANGED connected
       \/ Go("ready") /\ connected' = TRUE
    /\ UNCHANGED <<opts, addrs, reuses>>

(* redisFree by the caller. *)
Free ==
    /\ netAt \in {"ready", "failed"}
    /\ netAt' = "idle" /\ CloseFd /\ netErr' = "" /\ connected' = FALSE /\ reuses' = 0 /\ addrs' = 0
    /\ opts' = NoOptions

NetNext ==
    \/ \E o \in Options : NetConnect(o)
    \/ Resolve \/ Socket \/ Bind \/ Connect \/ Settle \/ CreateSocket \/ ConnectUnix \/ SettleUnix \/ Free

NetSpec == NetInit /\ [][NetNext]_netVars

-----------------------------------------------------------------------------
(* Every socket that is open is the one the context will close: no address
   that was tried before, no retry and no error path leaves one behind. *)
NoSocketLost == sockets = IF cfd THEN 1 ELSE 0

(* What the comment of redisConnect says: a context without an error is one
   that is connected.  It does not hold of the two it is silent about: a
   source address that cannot be reused, and a bad timeout for a path. *)
ErrorReported ==
    netAt = "failed" /\ netErr = "" => opts.reuse \/ (opts.kind = "unix" /\ TimeoutBad)

(* Every way out of a connect says what happened and loses no socket. *)
NetClean == NoSocketLost /\ ErrorReported

(* Where the context has a socket, and what was asked of an attempt that is under
   way: no error is in the context until the attempt has failed. *)
NetStage ==
    /\ (cfd = TRUE /\ sockets = 1) \/ (cfd = FALSE /\ sockets = 0)
    /\ netAt \in {"bind", "connect", "settle", "unix", "unixsettle", "ready"} => cfd = TRUE
    /\ netAt \in {"idle", "resolve", "socket", "create"} => cfd = FALSE
    /\ netAt # "failed" => netErr = ""
    /\ netAt = "create" => opts.kind = "unix"
NetInv == NetStage /\ ErrorReported

=============================================================================
