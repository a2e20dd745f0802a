----------------------------- MODULE MCThreads -----------------------------
(***************************************************************************)
(* What threads wait on and are woken by, for TLC: the FileInfoLock, the   *)
(* connection pools, the timers of an EventLoop and the tools of FastDFS.  *)
(* They share no state, so one run checks them side by side: subject says  *)
(* which of them moves.                                                    *)
(***************************************************************************)
EXTENDS FileInfoLock, ConnPool, TimerQueue, FdfsTools

\* The scopes of the handlers: share, del, cancel, sharepv; share list; ranking
HandlerScopes == { <<"master", "ranking">>, <<"slave", "slave">>,
                   <<"slave", "ranking", "slave">> }

\* One connection more than threads for the pool that is asked twice, as
\* filehub_slave_maxconncnt (128) is more than num_threads (64).
SmallPools == [p \in {"master", "slave", "ranking"} |->
                 IF p = "slave" THEN Cardinality(Workers) + 1
                 ELSE IF p = "master" THEN 1 ELSE 2]

VARIABLE subject

threadVars == <<subject, lockVars, poolVars, timerVars, toolVars>>

ThreadInit ==
    /\ Init /\ PoolInit /\ TimerInit /\ ToolInit
    /\ subject \in {"lock", "pools", "timers", "tools"}

ThreadNext ==
    /\ \/ subject = "lock" /\ Next /\ UNCHANGED <<poolVars, timerVars, toolVars>>
       \/ subject = "pools" /\ PoolNext /\ UNCHANGED <<lockVars, timerVars, toolVars>>
       \/ subject = "timers" /\ TimerNext /\ UNCHANGED <<lockVars, poolVars, toolVars>>
       \/ subject = "tools" /\ ToolNext /\ UNCHANGED <<lockVars, poolVars, timerVars>>
    /\ UNCHANGED subject

(* The fairness of each, for its subject. *)
ThreadSpec ==
    /\ ThreadInit /\ [][ThreadNext]_threadVars
    /\ \A t \in Threads :
          /\ WF_lockVars(subject = "lock" /\ TryLockFor(t))
          /\ WF_lockVars(subject = "lock" /\ Recheck(t))
          /\ WF_lockVars(subject = "lock" /\ Expire(t))
          /\ WF_lockVars(subject = "lock" /\ Unlock(t))
    /\ \A t \in Workers : WF_poolVars(subject = "pools" /\ Work(t))
    /\ WF_timerVars(subject = "timers" /\ HandleTimers)
    /\ WF_timerVars(subject = "timers" /\ RunFunctor)
    /\ WF_timerVars(subject = "timers" /\ Tick)
    /\ \A t \in ToolUsers : WF_toolVars(subject = "tools" /\ ToolStep(t))
    /\ \A k \in Tools : WF_toolVars(subject = "tools" /\ ToolEnds(k))

(* A handler that waits for connections or for the tools of FastDFS goes on in the
   end: no handler waits for a connection that waits for it (Served), and no call is
   left waiting for a child another thread has reaped (ToolsReturn). *)
Finishes == Served /\ ToolsReturn
=============================================================================
