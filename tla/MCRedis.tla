------------------------------ MODULE MCRedis ------------------------------
(***************************************************************************)
(* The connections the process opens, for TLC: CacheConn on the blocking   *)
(* API of hiredis, the making of its sockets, the asynchronous API,        *)
(* CDBConn with its transactions, and the client side of muduo.  They      *)
(* share no state, so one run checks them side by side: subject says which *)
(* of them moves.                                                          *)
(***************************************************************************)
EXTENDS CacheConn, NetConnect, RedisAsync, DbConn, TcpClient

VARIABLE subject

redisVars == <<subject, cacheVars, netVars, acVars, dbVars, clientVars>>

RedisInit ==
    /\ subject \in {"cache", "net", "async", "mysql", "client"}
    /\ CacheInit /\ NetInit
    /\ AsyncInitialize /\ (careless => subject = "async")
    /\ DbInit /\ (~ serverUp => subject = "mysql")
    /\ ClientInit /\ (client.retry => subject = "client")

RedisNext ==
    /\ \/ subject = "cache" /\ CacheNext /\ UNCHANGED <<netVars, acVars, dbVars, clientVars>>
       \/ subject = "net" /\ NetNext /\ UNCHANGED <<cacheVars, acVars, dbVars, clientVars>>
       \/ subject = "async" /\ AsyncNext /\ UNCHANGED <<cacheVars, netVars, dbVars, clientVars>>
       \/ subject = "mysql" /\ DbNext /\ UNCHANGED <<cacheVars, netVars, acVars, clientVars>>
       \/ subject = "client" /\ ClientNext /\ UNCHANGED <<cacheVars, netVars, acVars, dbVars>>
    /\ UNCHANGED subject

(* The fairness of CacheSpec and AsyncSpec, each for its subject. *)
RedisSpec ==
    /\ RedisInit /\ [][RedisNext]_redisVars
    /\ WF_cacheVars(subject = "cache" /\ Conn)
    /\ WF_cacheVars(subject = "cache" /\ \E method \in CacheMethods : Enter(method))
    /\ WF_cacheVars(subject = "cache" /\ Serve)
    /\ WF_cacheVars(subject = "cache" /\ ComeUp)
    /\ WF_cacheVars(subject = "cache" /\ Tick)
    /\ WF_cacheVars(subject = "cache" /\ Restart)
    /\ WF_acVars(subject = "async" /\ Library)
    /\ WF_acVars(subject = "async" /\ Serves)

(* No connection leaks: neither hiredis (NetClean) nor the client of muduo (ClientClean)
   forgets a socket, closes one in use or hides how an attempt ended. *)
ConnectClean == NetClean /\ ClientClean

(* CacheConn: the connection heals by itself (Recovers), where it is the subject. *)
CacheRecovers == subject = "cache" => Recovers
=============================================================================
