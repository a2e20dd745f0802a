------------------------------ MODULE ConnPool ------------------------------
(***************************************************************************)
(* The connection pools of mysql/db_pool.cc and redis/cache_pool.cc, and   *)
(* the handlers as their users. A pool opens connections up to its         *)
(* maximum; then a thread sleeps on the condition variable of the pool     *)
(* without a timeout until a connection is given back. A handler asks for  *)
(* its connections in the order of its scopes and gives them back in the   *)
(* opposite order, and some handlers ask for a second connection of a pool *)
(* while they hold one. What a thread does under the pool's mutex is one   *)
(* step. The list of free connections is kept as a set.                    *)
(***************************************************************************)
EXTENDS Integers, Sequences, FiniteSets

CONSTANTS
    Workers,
    DBPools, CachePools,  \* filehub_master, filehub_slave; token, ranking_list
    MIN_DB_CONN_CNT,      \* connections a MySQL pool opens at once
    MIN_CACHE_CONN_CNT,   \* and a Redis pool
    MaxConn,              \* maxconncnt of every pool
    Scopes,               \* the pools the handlers ask, in their order
    ConnectFails,         \* may opening a connection fail?
    MaxRequests           \* bound: how many handlers are called in all

Pools == DBPools \cup CachePools

MinConn(p) == IF p \in DBPools THEN MIN_DB_CONN_CNT ELSE MIN_CACHE_CONN_CNT

ASSUME PoolAssumption ==
    /\ IsFiniteSet(Workers)
    /\ DBPools \cap CachePools = {}
    /\ MIN_DB_CONN_CNT \in Nat /\ MIN_CACHE_CONN_CNT \in Nat
    /\ MaxConn \in [Pools -> Nat \ {0}]
    /\ Scopes \subseteq Seq(Pools) \ {<<>>}
    /\ ConnectFails \in BOOLEAN
    /\ MaxRequests \in Nat

VARIABLES
    free_list_,  \* of every pool: the connections nobody holds
    cur_conn,    \* db_cur_conn_cnt_ / cur_conn_cnt_
    asleep,      \* of every pool: the threads in cond_var_.wait
    woken,       \* of every pool: those that are to look again
    wants,       \* of every thread: the pools it has yet to ask
    held,        \* the connections it has, the last one last
    calls

poolVars == <<free_list_, cur_conn, asleep, woken, wants, held, calls>>

Conn(p, i) == <<p, i>>
PoolOf(c)  == c[1]
Conns == Pools \X (Nat \ {0})

\* CDBPool::Init and CachePool::Init: the minimum is opened at once.
PoolInit ==
    /\ free_list_ = [p \in Pools |-> {Conn(p, i) : i \in 1..MinConn(p)}]
    /\ cur_conn = [p \in Pools |-> MinConn(p)]
    /\ asleep = [p \in Pools |-> {}]
    /\ woken = [p \in Pools |-> {}]
    /\ wants = [t \in Workers |-> <<>>]
    /\ held = [t \in Workers |-> <<>>]
    /\ calls = 0

Idle(t) == wants[t] = <<>> /\ held[t] = <<>>

\* A handler is called.
PoolCall(t) ==
    /\ Idle(t) /\ calls < MaxRequests
    /\ calls' = calls + 1
    /\ \E s \in Scopes : wants' = [wants EXCEPT ![t] = s]
    /\ UNCHANGED <<free_list_, cur_conn, asleep, woken, held>>

\* t has connection c of the pool p it asked.
Hand(t, c) ==
    /\ held' = [held EXCEPT ![t] = Append(@, c)]
    /\ wants' = [wants EXCEPT ![t] = Tail(@)]
    /\ UNCHANGED calls

\* front() and pop_front()
TakeFree(t, p) ==
    /\ \E c \in free_list_[p] :
          /\ free_list_' = [free_list_ EXCEPT ![p] = @ \ {c}]
          /\ Hand(t, c)
    /\ woken' = [woken EXCEPT ![p] = @ \ {t}]
    /\ UNCHANGED <<cur_conn, asleep>>

\* cond_var_.wait
Wait(t, p) ==
    /\ free_list_[p] = {}
    /\ asleep' = [asleep EXCEPT ![p] = @ \cup {t}]
    /\ woken' = [woken EXCEPT ![p] = @ \ {t}]
    /\ UNCHANGED <<free_list_, cur_conn, wants, held, calls>>

\* "not at the maximum yet": a connection is opened, and taken
Open(t, p) ==
    /\ free_list_[p] = {}
    /\ cur_conn' = [cur_conn EXCEPT ![p] = @ + 1]
    /\ Hand(t, Conn(p, cur_conn[p] + 1))
    /\ UNCHANGED <<free_list_, asleep, woken>>

\* Mutant: a connection is handed out and stays on the list.
GetNoPop(t, p) ==
    \/ /\ \E c \in free_list_[p] : Hand(t, c)
       /\ UNCHANGED <<free_list_, cur_conn, asleep, woken>>
    \/ cur_conn[p] >= MaxConn[p] /\ Wait(t, p)
    \/ cur_conn[p] < MaxConn[p] /\ Open(t, p)

Get(t, p) ==
    \/ TakeFree(t, p)
    \/ cur_conn[p] >= MaxConn[p] /\ Wait(t, p)
    \/ cur_conn[p] < MaxConn[p] /\ Open(t, p)

Waits(t) == \E p \in Pools : t \in asleep[p] \cup woken[p]

\* t executes the next GetDBConn / GetCacheConn of its handler.
Asks(t, p) == wants[t] # <<>> /\ Head(wants[t]) = p /\ ~ Waits(t)

GetDBConn(t)    == \E p \in DBPools : Asks(t, p) /\ Get(t, p)
GetCacheConn(t) == \E p \in CachePools : Asks(t, p) /\ Get(t, p)

\* The predicate of the wait, evaluated again under the mutex
LookAgain(t) ==
    \E p \in Pools : /\ t \in woken[p]
                     /\ TakeFree(t, p) \/ Wait(t, p)

PoolSpuriousWakeup(t) ==
    \E p \in Pools :
       /\ t \in asleep[p]
       /\ asleep' = [asleep EXCEPT ![p] = @ \ {t}]
       /\ woken' = [woken EXCEPT ![p] = @ \cup {t}]
       /\ UNCHANGED <<free_list_, cur_conn, wants, held, calls>>

\* notify_one
Notify(p) ==
    \/ \E s \in asleep[p] :
          /\ asleep' = [asleep EXCEPT ![p] = @ \ {s}]
          /\ woken' = [woken EXCEPT ![p] = @ \cup {s}]
    \/ asleep[p] = {} /\ UNCHANGED <<asleep, woken>>

\* Mutant: nobody is told that a connection is free again.
ReleaseSilently(t, p) ==
    /\ wants[t] = <<>> /\ held[t] # <<>>
    /\ LET c == held[t][Len(held[t])]
       IN /\ PoolOf(c) = p
          /\ free_list_' = [free_list_ EXCEPT ![p] = @ \cup {c}]
    /\ held' = [held EXCEPT ![t] = SubSeq(@, 1, Len(@) - 1)]
    /\ UNCHANGED <<cur_conn, asleep, woken, wants, calls>>

\* The end of a scope: AutoRelDBCon, AutoRelCacheCon
Release(t, p) ==
    /\ wants[t] = <<>> /\ held[t] # <<>>
    /\ LET c == held[t][Len(held[t])]
       IN /\ PoolOf(c) = p
          /\ free_list_' = [free_list_ EXCEPT ![p] = @ \cup {c}]
    /\ Notify(p)
    /\ held' = [held EXCEPT ![t] = SubSeq(@, 1, Len(@) - 1)]
    /\ UNCHANGED <<cur_conn, wants, calls>>

RelDBConn(t)    == \E p \in DBPools : Release(t, p)
RelCacheConn(t) == \E p \in CachePools : Release(t, p)

\* A connection cannot be opened: the pool returns NULL, the handler uses it,
\* and the process dies and is started again.
NullConn(t) ==
    /\ ConnectFails
    /\ \E p \in Pools : /\ Asks(t, p)
                        /\ free_list_[p] = {} /\ cur_conn[p] < MaxConn[p]
    /\ free_list_' = [p \in Pools |-> {Conn(p, i) : i \in 1..MinConn(p)}]
    /\ cur_conn' = [p \in Pools |-> MinConn(p)]
    /\ asleep' = [p \in Pools |-> {}]
    /\ woken' = [p \in Pools |-> {}]
    /\ wants' = [s \in Workers |-> <<>>]
    /\ held' = [s \in Workers |-> <<>>]
    /\ UNCHANGED calls

Done == calls = MaxRequests /\ (\A t \in Workers : Idle(t)) /\ UNCHANGED poolVars

Work(t) == \/ GetDBConn(t) \/ GetCacheConn(t) \/ LookAgain(t)
           \/ RelDBConn(t) \/ RelCacheConn(t)

PoolNext == \/ \E t \in Workers : \/ PoolCall(t) \/ Work(t) \/ PoolSpuriousWakeup(t)
                              \/ NullConn(t)
        \/ Done

PoolSpec == PoolInit /\ [][PoolNext]_poolVars

\* A thread that can go on does.
PoolFairness == \A t \in Workers : WF_poolVars(Work(t))
PoolFairSpec == PoolSpec /\ PoolFairness

-----------------------------------------------------------------------------
\* Types; a connection is only on the list of its own pool, and a thread waits
\* for the pool it has asked and for no other.
PoolTypeOK ==
    /\ free_list_ \in [Pools -> SUBSET Conns]
    /\ cur_conn \in [Pools -> Nat]
    /\ asleep \in [Pools -> SUBSET Workers]
    /\ woken \in [Pools -> SUBSET Workers]
    /\ wants \in [Workers -> Seq(Pools)]
    /\ held \in [Workers -> Seq(Conns)]
    /\ calls \in 0..MaxRequests
    /\ \A p \in Pools :
          /\ \A c \in free_list_[p] : PoolOf(c) = p
          /\ asleep[p] \cap woken[p] = {}
          /\ \A t \in asleep[p] \cup woken[p] :
                wants[t] # <<>> /\ Head(wants[t]) = p

HeldSet(t) == {held[t][i] : i \in 1..Len(held[t])}

\* A connection is in one place only: on the free list or with one thread, and
\* there only once. Neither MySQL nor hiredis connections may be shared.
ConnExclusive ==
    /\ \A t \in Workers : /\ \A i, j \in 1..Len(held[t]) :
                                held[t][i] = held[t][j] => i = j
                          /\ \A s \in Workers \ {t} :
                                HeldSet(s) \cap HeldSet(t) = {}
                          /\ \A p \in Pools : HeldSet(t) \cap free_list_[p] = {}

\* No pool opens more connections than its maximum, or than the minimum it
\* starts with if that is more, and every one it opened is still in use.
ConnBound ==
    \A p \in Pools :
        /\ cur_conn[p] <= MaxConn[p] \/ cur_conn[p] = MinConn(p)
        /\ cur_conn[p] = Cardinality(free_list_[p])
              + Cardinality({c \in UNION {HeldSet(t) : t \in Workers} :
                               PoolOf(c) = p})

\* Every free connection a sleeping thread could use has been announced: while
\* threads sleep, as many others have been woken as there are connections on
\* the list, and those will look.
WakeupCovers ==
    \A p \in Pools : asleep[p] # {} =>
        Cardinality(free_list_[p]) <= Cardinality(woken[p])

\* What makes them inductive: what a pool has opened is on its list or with a
\* thread, and that is never too much.
Opened(p) == {Conn(p, i) : i \in 1..cur_conn[p]}
HeldOf(p) == {c \in UNION {HeldSet(t) : t \in Workers} : PoolOf(c) = p}

Accounted == \A p \in Pools : free_list_[p] \cup HeldOf(p) = Opened(p)

Bounded == \A p \in Pools :
              cur_conn[p] <= MaxConn[p] \/ cur_conn[p] = MinConn(p)

PoolInv == PoolTypeOK /\ ConnExclusive /\ Accounted /\ Bounded /\ WakeupCovers

\* The pools are sound: every connection is in one place, there are never too
\* many, and none lies idle while a thread sleeps that was not told of it.
PoolsSound == PoolTypeOK /\ ConnExclusive /\ ConnBound /\ WakeupCovers

\* Every handler gets its connections and ends: although share lists and
\* rankings hold a connection of filehub_slave while they ask for another one
\* there, the threads do not all wait for each other as long as the pool is
\* larger than the number of threads.
Served == \A t \in Workers : ~ Idle(t) ~> Idle(t)
=============================================================================
