---------------------------- MODULE FileInfoLock ----------------------------
(***************************************************************************)
(* The class FileInfoLock of api_common.h: a flag locked_ under a mutex,   *)
(* and a condition variable for those who wait at most 1000 ms. What a     *)
(* thread does while it holds the mutex is one step; a waiting thread is   *)
(* asleep until it is notified, wakes spuriously or its time is up, and    *)
(* then has to get the mutex back before it looks at the flag again.       *)
(***************************************************************************)
EXTENDS FiniteSets

CONSTANT Threads

VARIABLES
    locked_,   \* the flag
    at,        \* where each thread is
    expired    \* the waiting threads whose 1000 ms are over

lockVars == <<locked_, at, expired>>

Asleep == {t \in Threads : at[t] = "asleep"}
Awake  == {t \in Threads : at[t] = "awake"}

Init == /\ locked_ = FALSE
        /\ at = [t \in Threads |-> "out"]
        /\ expired = {}

\* ScopedFileInfoLock lock(FileInfoLock::GetInstance(), 1000)
Call(t) == /\ at[t] = "out"
           /\ at' = [at EXCEPT ![t] = "trying"]
           /\ UNCHANGED <<locked_, expired>>

Take(t) == /\ ~ locked_
           /\ locked_' = TRUE
           /\ at' = [at EXCEPT ![t] = "in"]
           /\ expired' = expired \ {t}

Sleep(t) == /\ locked_
            /\ at' = [at EXCEPT ![t] = "asleep"]
            /\ UNCHANGED <<locked_, expired>>

\* TryLockFor up to the first evaluation of the predicate
TryLockFor(t) == at[t] = "trying" /\ (Take(t) \/ Sleep(t))

\* Mutant: when the time is up the predicate is not evaluated again.
RecheckGivesUp(t) ==
    /\ at[t] = "awake"
    /\ \/ t \notin expired /\ (Take(t) \/ Sleep(t))
       \/ /\ t \in expired
          /\ at' = [at EXCEPT ![t] = "out"]
          /\ expired' = expired \ {t}
          /\ UNCHANGED locked_

\* The predicate once more, with the mutex back: wait_for returns it when the
\* time is up, and goes on waiting when it is not.
Recheck(t) ==
    /\ at[t] = "awake"
    /\ \/ Take(t)
       \/ t \notin expired /\ Sleep(t)
       \/ /\ t \in expired /\ locked_
          /\ at' = [at EXCEPT ![t] = "out"]
          /\ expired' = expired \ {t}
          /\ UNCHANGED locked_

\* Mutant: wait in place of wait_for.
ExpireNever(t) == FALSE /\ UNCHANGED lockVars

\* The 1000 ms are over: a sleeping thread is woken by that.
Expire(t) ==
    /\ at[t] \in {"asleep", "awake"} /\ t \notin expired
    /\ expired' = expired \cup {t}
    /\ at' = [at EXCEPT ![t] = "awake"]
    /\ UNCHANGED locked_

SpuriousWakeup(t) ==
    /\ at[t] = "asleep"
    /\ at' = [at EXCEPT ![t] = "awake"]
    /\ UNCHANGED <<locked_, expired>>

\* Mutant: the flag is cleared and nobody is told.
UnlockSilently(t) ==
    /\ at[t] = "in"
    /\ locked_' = FALSE
    /\ at' = [at EXCEPT ![t] = "out"]
    /\ UNCHANGED expired

\* ~ScopedFileInfoLock: Unlock with notify_one, which wakes one of the
\* sleeping threads, if there is one.
Unlock(t) ==
    /\ at[t] = "in"
    /\ locked_' = FALSE
    /\ \/ \E s \in Asleep : at' = [at EXCEPT ![t] = "out", ![s] = "awake"]
       \/ Asleep = {} /\ at' = [at EXCEPT ![t] = "out"]
    /\ UNCHANGED expired

\* The server process dies and is started again.
Restart == /\ locked_' = FALSE
           /\ at' = [t \in Threads |-> "out"]
           /\ expired' = {}

Next == \/ \E t \in Threads : \/ Call(t) \/ TryLockFor(t) \/ Recheck(t)
                              \/ Expire(t) \/ SpuriousWakeup(t) \/ Unlock(t)
        \/ Restart

Spec == Init /\ [][Next]_lockVars

\* Every thread that can run does; time passes; a holder leaves (see
\* LockReleased of FileHub). Nobody has to call.
Fairness == \A t \in Threads :
    /\ WF_lockVars(TryLockFor(t)) /\ WF_lockVars(Recheck(t))
    /\ WF_lockVars(Expire(t)) /\ WF_lockVars(Unlock(t))

FairSpec == Spec /\ Fairness

-----------------------------------------------------------------------------
\* Types, and only threads that wait have a deadline behind them.
TypeOK ==
    /\ locked_ \in BOOLEAN
    /\ at \in [Threads -> {"out", "trying", "asleep", "awake", "in"}]
    /\ expired \subseteq Asleep \cup Awake

\* The flag is up exactly while one thread is between TryLockFor and Unlock.
FlagIsHolder ==
    /\ locked_ <=> \E t \in Threads : at[t] = "in"
    /\ \A s, t \in Threads : at[s] = "in" /\ at[t] = "in" => s = t

\* notify_one loses no wakeup: while the lock is free and somebody sleeps,
\* somebody is awake who will look at the flag, also when the thread that was
\* notified times out at that moment or another one slips in before it.
NoLostWakeup == ~ locked_ /\ Asleep # {} => Awake # {}

\* The lock is a TimedLock: in particular TryLockFor returns false only when
\* another thread is inside at that moment, never because a wakeup was lost.
Abstract == INSTANCE TimedLock
            WITH phase <- [t \in Threads |->
                CASE at[t] = "out" -> "out"
                  [] at[t] = "in"  -> "in"
                  [] OTHER         -> "trying"]

ImplementsTimedLock == Abstract!Spec

\* TryLockFor returns.
TryReturns == \A t \in Threads :
    at[t] \in {"trying", "asleep", "awake"} ~> at[t] \in {"in", "out"}
=============================================================================
