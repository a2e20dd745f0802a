--------------------------- MODULE Threads_proofs ---------------------------
(***************************************************************************)
(* What threads wait on, for any number of threads. The FileInfoLock       *)
(* excludes, loses no wakeup and implements TimedLock. The connection      *)
(* pools are sound, for any pools and connections: the inductive invariant *)
(* accounts for every connection a pool has opened, free or held.  The     *)
(* calls of the FastDFS tools keep to their own children and pipes, for    *)
(* any number of threads and calls, and the timer queue loses no timer and *)
(* uses none that is deleted, for any number of timers, times and threads. *)
(* The buffers of AsyncLogging are there whenever they are needed, and no  *)
(* line is lost, repeated or out of order on its way through them.         *)
(***************************************************************************)
EXTENDS FileInfoLock, ConnPool, FdfsTools, TimerQueue, AsyncLogging,
        FiniteSetTheorems, FunctionTheorems, SequenceTheorems, WellFoundedInduction, TLAPS

-----------------------------------------------------------------------------
(* The FileInfoLock *)

LockInv == TypeOK /\ FlagIsHolder

\* The types of FileInfoLock, and that its flag has one holder, are preserved
\* by every step of TryLockFor and Unlock.
LEMMA LockInductive == Spec => []LockInv
  <1>1. Init => LockInv
    BY DEF Init, LockInv, TypeOK, FlagIsHolder, Asleep, Awake
  <1>2. LockInv /\ [Next]_lockVars => LockInv'
    <2> SUFFICES ASSUME LockInv, [Next]_lockVars PROVE LockInv'
      OBVIOUS
    <2> USE DEF LockInv, TypeOK, FlagIsHolder, Asleep, Awake
    <2>1. ASSUME NEW t \in Threads, Call(t) PROVE LockInv'
      BY <2>1 DEF Call
    <2>2. ASSUME NEW t \in Threads, TryLockFor(t) PROVE LockInv'
      BY <2>2 DEF TryLockFor, Take, Sleep
    <2>3. ASSUME NEW t \in Threads, Recheck(t) PROVE LockInv'
      BY <2>3 DEF Recheck, Take, Sleep
    <2>4. ASSUME NEW t \in Threads, Expire(t) PROVE LockInv'
      BY <2>4 DEF Expire
    <2>5. ASSUME NEW t \in Threads, SpuriousWakeup(t) PROVE LockInv'
      BY <2>5 DEF SpuriousWakeup
    <2>6. ASSUME NEW t \in Threads, Unlock(t) PROVE LockInv'
      BY <2>6 DEF Unlock
    <2>7. CASE Restart
      BY <2>7 DEF Restart
    <2>8. CASE UNCHANGED lockVars
      BY <2>8 DEF lockVars
    <2> QED
      BY <2>1, <2>2, <2>3, <2>4, <2>5, <2>6, <2>7, <2>8 DEF Next
  <1> QED
    BY <1>1, <1>2, PTL DEF Spec

\* The flag of FileInfoLock is up exactly while a thread is between
\* TryLockFor and Unlock, and there is never more than one.
THEOREM FlagSafe == Spec => []FlagIsHolder
  <1>1. LockInv => FlagIsHolder
    BY DEF LockInv
  <1> QED BY <1>1, LockInductive, PTL

\* notify_one suffices: whenever the lock is free and threads sleep on it,
\* one of the waiting threads is awake and will take it, whatever timeouts,
\* spurious wakeups and newcomers come in between.
THEOREM Handover == Spec => []NoLostWakeup
  <1>1. Init => NoLostWakeup
    BY DEF Init, NoLostWakeup, Asleep
  <1>2. LockInv /\ NoLostWakeup /\ [Next]_lockVars => NoLostWakeup'
    <2> SUFFICES ASSUME LockInv, NoLostWakeup, [Next]_lockVars
                 PROVE  NoLostWakeup'
      OBVIOUS
    <2> USE DEF LockInv, TypeOK, NoLostWakeup, Asleep, Awake
    <2>1. ASSUME NEW t \in Threads, Call(t) PROVE NoLostWakeup'
      BY <2>1 DEF Call
    <2>2. ASSUME NEW t \in Threads, TryLockFor(t) PROVE NoLostWakeup'
      BY <2>2 DEF TryLockFor, Take, Sleep
    <2>3. ASSUME NEW t \in Threads, Recheck(t) PROVE NoLostWakeup'
      BY <2>3 DEF Recheck, Take, Sleep
    <2>4. ASSUME NEW t \in Threads, Expire(t) PROVE NoLostWakeup'
      BY <2>4 DEF Expire
    <2>5. ASSUME NEW t \in Threads, SpuriousWakeup(t) PROVE NoLostWakeup'
      BY <2>5 DEF SpuriousWakeup
    <2>6. ASSUME NEW t \in Threads, Unlock(t) PROVE NoLostWakeup'
      BY <2>6 DEF Unlock
    <2>7. CASE Restart
      BY <2>7 DEF Restart
    <2>8. CASE UNCHANGED lockVars
      BY <2>8 DEF lockVars
    <2> QED
      BY <2>1, <2>2, <2>3, <2>4, <2>5, <2>6, <2>7, <2>8 DEF Next
  <1> QED
    BY <1>1, <1>2, LockInductive, PTL DEF Spec

\* FileInfoLock implements TimedLock: only one thread gets in, and TryLockFor
\* gives up only while another thread is inside.
THEOREM LockImplements == Spec => ImplementsTimedLock
  <1> DEFINE phase == [t \in Threads |->
                         CASE at[t] = "out" -> "out"
                           [] at[t] = "in"  -> "in"
                           [] OTHER         -> "trying"]
  <1>1. Init => Abstract!Init
    BY DEF Init, Abstract!Init
  <1>2. LockInv /\ [Next]_lockVars => [Abstract!Next]_phase
    <2> SUFFICES ASSUME LockInv, [Next]_lockVars
                 PROVE  [Abstract!Next]_phase
      OBVIOUS
    <2> USE DEF LockInv, TypeOK, FlagIsHolder
    <2>1. ASSUME NEW t \in Threads, Call(t) PROVE Abstract!Try(t)
      BY <2>1 DEF Call, Abstract!Try
    <2>2. ASSUME NEW t \in Threads, at[t] \in {"trying", "awake"}, Take(t)
          PROVE  Abstract!Enter(t)
      BY <2>2 DEF Take, Abstract!Enter
    <2>3. ASSUME NEW t \in Threads, at[t] \in {"trying", "awake"}, Sleep(t)
          PROVE  UNCHANGED phase
      BY <2>3 DEF Sleep
    <2>4. ASSUME NEW t \in Threads, at[t] = "awake", locked_,
                 at' = [at EXCEPT ![t] = "out"]
          PROVE  Abstract!GiveUp(t)
      BY <2>4 DEF Abstract!GiveUp
    <2>5. ASSUME NEW t \in Threads, Expire(t) \/ SpuriousWakeup(t)
          PROVE  UNCHANGED phase
      BY <2>5 DEF Expire, SpuriousWakeup
    <2>6. ASSUME NEW t \in Threads, Unlock(t) PROVE Abstract!Leave(t)
      BY <2>6 DEF Unlock, Asleep, Abstract!Leave
    <2>7. CASE Restart
      BY <2>7 DEF Restart, Abstract!Next, Abstract!Restart
    <2>8. CASE UNCHANGED lockVars
      BY <2>8 DEF lockVars
    <2>9. ASSUME NEW t \in Threads, TryLockFor(t) \/ Recheck(t)
          PROVE  Abstract!Next \/ UNCHANGED phase
      BY <2>2, <2>3, <2>4, <2>9 DEF TryLockFor, Recheck, Abstract!Next
    <2> HIDE DEF phase
    <2> QED
      BY <2>1, <2>5, <2>6, <2>7, <2>8, <2>9 DEF Next, Abstract!Next
  <1> QED
    BY <1>1, <1>2, LockInductive, PTL
    DEF Spec, ImplementsTimedLock, Abstract!Spec

-----------------------------------------------------------------------------
(* Connections in hand *)

Elements(s) == {s[i] : i \in 1..Len(s)}
Distinct(s) == \A i, j \in 1..Len(s) : s[i] = s[j] => i = j

\* One more in hand.
LEMMA AppendElements ==
    ASSUME NEW S, NEW s \in Seq(S), NEW c \in S
    PROVE  /\ Append(s, c) \in Seq(S)
           /\ Elements(Append(s, c)) = Elements(s) \cup {c}
           /\ Distinct(s) /\ c \notin Elements(s) => Distinct(Append(s, c))
  <1> DEFINE a == Append(s, c)
  <1>1. /\ a \in Seq(S) /\ Len(a) = Len(s) + 1 /\ Len(s) \in Nat
        /\ \A i \in 1..Len(s) : a[i] = s[i]
        /\ a[Len(s) + 1] = c
    OBVIOUS
  <1> HIDE DEF a
  <1>2. Elements(a) = Elements(s) \cup {c}
    BY <1>1 DEF Elements
  <1>3. ASSUME Distinct(s), c \notin Elements(s) PROVE Distinct(a)
    BY <1>1, <1>3 DEF Elements, Distinct
  <1> QED BY <1>1, <1>2, <1>3 DEF a

\* The last one given back.
LEMMA DropElements ==
    ASSUME NEW S, NEW s \in Seq(S), s # <<>>, Distinct(s)
    PROVE  /\ SubSeq(s, 1, Len(s) - 1) \in Seq(S)
           /\ s[Len(s)] \in Elements(s)
           /\ Elements(SubSeq(s, 1, Len(s) - 1)) = Elements(s) \ {s[Len(s)]}
           /\ Distinct(SubSeq(s, 1, Len(s) - 1))
  <1> DEFINE d == SubSeq(s, 1, Len(s) - 1)
  <1>1. Len(s) \in Nat /\ Len(s) >= 1
    OBVIOUS
  <1>2. /\ d \in Seq(S) /\ Len(d) = Len(s) - 1
        /\ \A i \in 1..(Len(s) - 1) : d[i] = s[i]
    <2> DEFINE n == Len(s) - 1
    <2>1. n \in Int /\ \A i \in 1..n : s[i] \in S
      BY <1>1
    <2>2. /\ d \in Seq(S) /\ Len(d) = IF 1 <= n THEN n - 1 + 1 ELSE 0
          /\ \A i \in 1..(n - 1 + 1) : d[i] = s[1 + i - 1]
      <3> HIDE DEF n
      <3>1. SubSeq(s, 1, n) \in Seq(S)
        BY <2>1, SubSeqProperties
      <3>2. /\ Len(SubSeq(s, 1, n)) = IF 1 <= n THEN n - 1 + 1 ELSE 0
            /\ \A i \in 1..(n - 1 + 1) : SubSeq(s, 1, n)[i] = s[1 + i - 1]
        BY <2>1, SubSeqProperties
      <3> QED BY <3>1, <3>2 DEF n
    <2>3. n - 1 + 1 = n /\ \A i \in 1..n : 1 + i - 1 = i
      BY <2>1
    <2> QED BY <1>1, <2>2, <2>3
  <1> HIDE DEF d
  <1>3. s[Len(s)] \in Elements(s)
    BY <1>1 DEF Elements
  <1>4. Elements(d) = Elements(s) \ {s[Len(s)]}
    BY <1>1, <1>2 DEF Elements, Distinct
  <1>5. Distinct(d)
    BY <1>1, <1>2 DEF Distinct
  <1> QED BY <1>2, <1>3, <1>4, <1>5 DEF d

\* ConnExclusive in these terms.
LEMMA ExclusiveSets ==
    ConnExclusive <=>
        /\ \A t \in Workers : Distinct(held[t])
        /\ \A t \in Workers : \A s \in Workers \ {t} :
              HeldSet(s) \cap HeldSet(t) = {}
        /\ \A t \in Workers, p \in Pools : HeldSet(t) \cap free_list_[p] = {}
  BY DEF ConnExclusive, Distinct

\* A thread is handed a connection nobody has and no list keeps.
LEMMA HandEffect ==
    ASSUME PoolTypeOK, ConnExclusive, NEW t \in Workers, NEW c \in Conns,
           held' = [held EXCEPT ![t] = Append(@, c)],
           \A s \in Workers : c \notin HeldSet(s),
           \A p \in Pools : /\ free_list_'[p] \subseteq free_list_[p]
                            /\ c \notin free_list_'[p]
    PROVE  /\ ConnExclusive'
           /\ held' \in [Workers -> Seq(Conns)]
           /\ \A p \in Pools : HeldOf(p)' =
                 IF p = PoolOf(c) THEN HeldOf(p) \cup {c} ELSE HeldOf(p)
  <1>1. held \in [Workers -> Seq(Conns)]
    BY DEF PoolTypeOK
  <1>2. /\ \A s \in Workers : Distinct(held[s])
        /\ \A s \in Workers : \A r \in Workers \ {s} :
              HeldSet(r) \cap HeldSet(s) = {}
        /\ \A s \in Workers, p \in Pools : HeldSet(s) \cap free_list_[p] = {}
    BY ExclusiveSets
  <1>3. /\ held'[t] = Append(held[t], c)
        /\ \A s \in Workers : s # t => held'[s] = held[s]
    BY <1>1
  <1>4. \A s \in Workers : HeldSet(s) = Elements(held[s])
    BY DEF HeldSet, Elements
  <1>5. \A s \in Workers : HeldSet(s)' = Elements(held'[s])
    BY DEF HeldSet, Elements
  <1>6. /\ held'[t] \in Seq(Conns) /\ Distinct(held'[t])
        /\ HeldSet(t)' = HeldSet(t) \cup {c}
    BY <1>1, <1>2, <1>3, <1>4, <1>5, AppendElements
  <1>7. \A s \in Workers : s # t => HeldSet(s)' = HeldSet(s)
    BY <1>3, <1>4, <1>5
  <1>8. ConnExclusive'
    <2>1. \A s \in Workers : Distinct(held'[s])
      BY <1>2, <1>3, <1>6
    <2>2. \A s \in Workers : \A r \in Workers \ {s} :
              HeldSet(r)' \cap HeldSet(s)' = {}
      BY <1>2, <1>6, <1>7
    <2>3. \A s \in Workers, p \in Pools : HeldSet(s)' \cap free_list_'[p] = {}
      BY <1>2, <1>6, <1>7
    <2> QED BY <2>1, <2>2, <2>3 DEF ConnExclusive, Distinct
  <1>9. ASSUME NEW p \in Pools
        PROVE  HeldOf(p)' =
                 IF p = PoolOf(c) THEN HeldOf(p) \cup {c} ELSE HeldOf(p)
    BY <1>6, <1>7 DEF HeldOf
  <1> QED BY <1>1, <1>3, <1>6, <1>8, <1>9

\* A thread gives back the connection it took last.
LastHeld(t) == held[t][Len(held[t])]

LEMMA DropEffect ==
    ASSUME PoolTypeOK, ConnExclusive, NEW t \in Workers, NEW p \in Pools,
           Release(t, p)
    PROVE  /\ ConnExclusive'
           /\ held' \in [Workers -> Seq(Conns)]
           /\ LastHeld(t) \in Conns /\ LastHeld(t) \in HeldOf(p)
           /\ \A q \in Pools : HeldOf(q)' =
                 IF q = p THEN HeldOf(p) \ {LastHeld(t)} ELSE HeldOf(q)
  <1> DEFINE c == LastHeld(t)
  <1>0. /\ held[t] # <<>> /\ PoolOf(c) = p /\ c = held[t][Len(held[t])]
        /\ held' = [held EXCEPT ![t] = SubSeq(@, 1, Len(@) - 1)]
        /\ free_list_' = [free_list_ EXCEPT ![p] = @ \cup {c}]
    BY DEF Release, LastHeld
  <1> HIDE DEF c
  <1>1. held \in [Workers -> Seq(Conns)] /\ free_list_ \in [Pools -> SUBSET Conns]
    BY DEF PoolTypeOK
  <1>2. /\ \A s \in Workers : Distinct(held[s])
        /\ \A s \in Workers : \A r \in Workers \ {s} :
              HeldSet(r) \cap HeldSet(s) = {}
        /\ \A s \in Workers, q \in Pools : HeldSet(s) \cap free_list_[q] = {}
    BY ExclusiveSets
  <1>3. /\ held'[t] = SubSeq(held[t], 1, Len(held[t]) - 1)
        /\ \A s \in Workers : s # t => held'[s] = held[s]
        /\ \A q \in Pools : free_list_'[q] =
              IF q = p THEN free_list_[p] \cup {c} ELSE free_list_[q]
    BY <1>0, <1>1
  <1>4. \A s \in Workers : HeldSet(s) = Elements(held[s])
    BY DEF HeldSet, Elements
  <1>5. \A s \in Workers : HeldSet(s)' = Elements(held'[s])
    BY DEF HeldSet, Elements
  <1>6. /\ held'[t] \in Seq(Conns) /\ Distinct(held'[t])
        /\ HeldSet(t)' = HeldSet(t) \ {c} /\ c \in HeldSet(t)
    BY <1>0, <1>1, <1>2, <1>3, <1>4, <1>5, DropElements
  <1>7. \A s \in Workers : s # t => HeldSet(s)' = HeldSet(s)
    BY <1>3, <1>4, <1>5
  <1>8. ConnExclusive'
    <2>1. \A s \in Workers : Distinct(held'[s])
      BY <1>2, <1>3, <1>6
    <2>2. \A s \in Workers : \A r \in Workers \ {s} :
              HeldSet(r)' \cap HeldSet(s)' = {}
      BY <1>2, <1>6, <1>7
    <2>3. \A s \in Workers, q \in Pools : HeldSet(s)' \cap free_list_'[q] = {}
      BY <1>2, <1>3, <1>6, <1>7
    <2> QED BY <2>1, <2>2, <2>3 DEF ConnExclusive, Distinct
  <1>9. ASSUME NEW q \in Pools
        PROVE  HeldOf(q)' = IF q = p THEN HeldOf(p) \ {c} ELSE HeldOf(q)
    BY <1>0, <1>2, <1>6, <1>7 DEF HeldOf
  <1>10. c \in Conns /\ c \in HeldOf(p)
    <2>1. Len(held[t]) \in 1..Len(held[t])
      BY <1>0, <1>1
    <2> QED BY <1>0, <1>1, <1>6, <2>1 DEF HeldOf
  <1>11. c = LastHeld(t)
    BY DEF c
  <1>12. held' \in [Workers -> Seq(Conns)]
    BY <1>0, <1>1, <1>6
  <1> QED BY <1>8, <1>9, <1>10, <1>11, <1>12

-----------------------------------------------------------------------------
(* Counting *)

\* What is counted is finite, and the connections of a pool add up.
LEMMA Counted ==
    ASSUME PoolTypeOK, ConnExclusive, Accounted, NEW p \in Pools
    PROVE  /\ IsFiniteSet(free_list_[p]) /\ IsFiniteSet(woken[p])
           /\ Cardinality(free_list_[p]) \in Nat
           /\ Cardinality(woken[p]) \in Nat
           /\ cur_conn[p] = Cardinality(free_list_[p]) + Cardinality(HeldOf(p))
  <1>1. cur_conn[p] \in Nat /\ woken[p] \in SUBSET Workers
    BY DEF PoolTypeOK
  <1>2. IsFiniteSet(Opened(p)) /\ Cardinality(Opened(p)) = cur_conn[p]
    <2>1. /\ IsFiniteSet(1..cur_conn[p])
          /\ Cardinality(1..cur_conn[p]) = cur_conn[p]
      <3>1. IsFiniteSet(1..cur_conn[p]) /\ Cardinality(1..cur_conn[p])
                = IF 1 > cur_conn[p] THEN 0 ELSE cur_conn[p] - 1 + 1
        BY <1>1, FS_Interval
      <3> QED BY <1>1, <3>1
    <2> DEFINE f == [i \in 1..cur_conn[p] |-> Conn(p, i)]
    <2>2. f \in Bijection(1..cur_conn[p], Opened(p))
      <3>1. f \in [1..cur_conn[p] -> Opened(p)]
        BY DEF Opened
      <3>2. \A i, j \in 1..cur_conn[p] : f[i] = f[j] => i = j
        BY DEF Conn
      <3>3. \A c \in Opened(p) : \E i \in 1..cur_conn[p] : f[i] = c
        BY DEF Opened
      <3> HIDE DEF f
      <3> QED BY <3>1, <3>2, <3>3, Fun_IsBij
    <2>3. ExistsBijection(1..cur_conn[p], Opened(p))
      BY <2>2 DEF ExistsBijection
    <2> QED BY <2>1, <2>3, FS_Bijection
  <1>3. /\ free_list_[p] \in SUBSET Opened(p) /\ HeldOf(p) \in SUBSET Opened(p)
        /\ free_list_[p] \cup HeldOf(p) = Opened(p)
    BY DEF Accounted
  <1>4. free_list_[p] \cap HeldOf(p) = {}
    BY ExclusiveSets DEF HeldOf
  <1>5. IsFiniteSet(free_list_[p]) /\ IsFiniteSet(HeldOf(p))
    BY <1>2, <1>3, FS_Subset
  <1>6. Cardinality(free_list_[p]) \in Nat /\ Cardinality(HeldOf(p)) \in Nat
    BY <1>5, FS_CardinalityType
  <1>7. Cardinality(Opened(p)) = Cardinality(free_list_[p])
            + Cardinality(HeldOf(p)) - Cardinality({})
    BY <1>3, <1>4, <1>5, FS_Union
  <1>8. Cardinality(Opened(p)) = Cardinality(free_list_[p])
            + Cardinality(HeldOf(p))
    BY <1>6, <1>7, FS_EmptySet
  <1>9. IsFiniteSet(woken[p])
    BY <1>1, FS_Subset, PoolAssumption
  <1> QED BY <1>2, <1>5, <1>6, <1>8, <1>9, FS_CardinalityType

\* An invariant pool is a sound one.
LEMMA InvSound == PoolInv => PoolsSound
  <1> SUFFICES ASSUME PoolInv PROVE PoolsSound
    OBVIOUS
  <1>1. ASSUME NEW p \in Pools
        PROVE  /\ cur_conn[p] <= MaxConn[p] \/ cur_conn[p] = MinConn(p)
               /\ cur_conn[p] = Cardinality(free_list_[p])
                     + Cardinality({c \in UNION {HeldSet(t) : t \in Workers} :
                                      PoolOf(c) = p})
    BY Counted DEF PoolInv, Bounded, HeldOf
  <1> QED BY <1>1 DEF PoolInv, PoolsSound, ConnBound

-----------------------------------------------------------------------------
(* The steps *)

\* A pool as Init leaves it, and as the restarted process finds it.
Fresh ==
    /\ free_list_ = [p \in Pools |-> {Conn(p, i) : i \in 1..MinConn(p)}]
    /\ cur_conn = [p \in Pools |-> MinConn(p)]
    /\ asleep = [p \in Pools |-> {}]
    /\ woken = [p \in Pools |-> {}]
    /\ wants = [s \in Workers |-> <<>>]
    /\ held = [s \in Workers |-> <<>>]
    /\ calls \in 0..MaxRequests

LEMMA FreshPools == Fresh => PoolInv
  <1> SUFFICES ASSUME Fresh PROVE PoolInv
    OBVIOUS
  <1> USE DEF Fresh
  <1>1. \A p \in Pools : MinConn(p) \in Nat
    BY PoolAssumption DEF MinConn
  <1>2. \A t \in Workers : held[t] = <<>> /\ HeldSet(t) = {}
    BY DEF HeldSet
  <1>3. \A p \in Pools : HeldOf(p) = {}
    BY <1>2 DEF HeldOf
  <1>4. ASSUME NEW p \in Pools
        PROVE  /\ free_list_[p] \in SUBSET Conns
               /\ \A c \in free_list_[p] : PoolOf(c) = p
    BY <1>1 DEF Conn, Conns, PoolOf
  <1>5. PoolTypeOK
    <2>1. /\ free_list_ \in [Pools -> SUBSET Conns]
          /\ cur_conn \in [Pools -> Nat]
          /\ asleep \in [Pools -> SUBSET Workers]
          /\ woken \in [Pools -> SUBSET Workers]
      BY <1>1, <1>4
    <2>2. /\ wants \in [Workers -> Seq(Pools)]
          /\ held \in [Workers -> Seq(Conns)]
      <3>1. <<>> \in Seq(Pools) /\ <<>> \in Seq(Conns)
        OBVIOUS
      <3> QED BY <3>1
    <2> QED BY <1>4, <2>1, <2>2 DEF PoolTypeOK
  <1>6. ConnExclusive
    BY <1>2 DEF ConnExclusive
  <1>7. Accounted
    BY <1>3 DEF Accounted, Opened
  <1>8. Bounded /\ WakeupCovers
    BY DEF Bounded, WakeupCovers
  <1> QED BY <1>5, <1>6, <1>7, <1>8 DEF PoolInv

\* front() and pop_front() keep it: a woken thread that takes a connection
\* leaves one less of each.
LEMMA TakeStep ==
    ASSUME PoolInv, NEW t \in Workers, NEW p \in Pools,
           wants[t] # <<>>, Head(wants[t]) = p, t \notin asleep[p],
           TakeFree(t, p)
    PROVE  PoolInv'
  <1> USE DEF PoolInv
  <1>1. PICK c \in free_list_[p] :
           /\ free_list_' = [free_list_ EXCEPT ![p] = @ \ {c}]
           /\ Hand(t, c)
    BY DEF TakeFree
  <1>2. /\ held' = [held EXCEPT ![t] = Append(@, c)]
        /\ wants' = [wants EXCEPT ![t] = Tail(@)]
        /\ woken' = [woken EXCEPT ![p] = @ \ {t}]
        /\ cur_conn' = cur_conn /\ asleep' = asleep /\ calls' = calls
    BY <1>1 DEF TakeFree, Hand
  <1>3. c \in Conns /\ PoolOf(c) = p
    BY DEF PoolTypeOK
  <1>4. /\ free_list_'[p] = free_list_[p] \ {c}
        /\ woken'[p] = woken[p] \ {t}
        /\ \A q \in Pools : q # p => /\ free_list_'[q] = free_list_[q]
                                     /\ woken'[q] = woken[q]
    BY <1>1, <1>2 DEF PoolTypeOK
  <1>5. /\ ConnExclusive'
        /\ held' \in [Workers -> Seq(Conns)]
        /\ \A q \in Pools : HeldOf(q)' =
              IF q = p THEN HeldOf(q) \cup {c} ELSE HeldOf(q)
    <2>1. \A s \in Workers : c \notin HeldSet(s)
      BY ExclusiveSets
    <2>2. \A q \in Pools : /\ free_list_'[q] \subseteq free_list_[q]
                           /\ c \notin free_list_'[q]
      BY <1>3, <1>4 DEF PoolTypeOK
    <2> QED BY <1>2, <1>3, <2>1, <2>2, HandEffect
  <1>6. PoolTypeOK'
    <2>1. Tail(wants[t]) \in Seq(Pools)
      BY DEF PoolTypeOK
    <2>2. /\ wants' \in [Workers -> Seq(Pools)]
          /\ \A s \in Workers : s # t => wants'[s] = wants[s]
      BY <1>2, <2>1 DEF PoolTypeOK
    <2>3. ASSUME NEW q \in Pools
          PROVE  /\ free_list_'[q] \subseteq free_list_[q]
                 /\ woken'[q] \subseteq woken[q]
                 /\ t \notin asleep[q] \cup woken'[q]
      BY <1>4 DEF PoolTypeOK
    <2>4. /\ free_list_' \in [Pools -> SUBSET Conns]
          /\ woken' \in [Pools -> SUBSET Workers]
      BY <1>1, <1>2, <2>3 DEF PoolTypeOK
    <2>5. \A q \in Pools :
             /\ \A d \in free_list_'[q] : PoolOf(d) = q
             /\ asleep[q] \cap woken'[q] = {}
             /\ \A s \in asleep[q] \cup woken'[q] :
                   wants'[s] # <<>> /\ Head(wants'[s]) = q
      BY <2>2, <2>3 DEF PoolTypeOK
    <2> QED BY <1>2, <1>5, <2>2, <2>4, <2>5 DEF PoolTypeOK
  <1>7. Accounted'
    BY <1>2, <1>4, <1>5 DEF Accounted, Opened
  <1>8. Bounded'
    BY <1>2 DEF Bounded
  <1>9. WakeupCovers'
    <2>1. ASSUME NEW q \in Pools, asleep[q] # {}
          PROVE  Cardinality(free_list_'[q]) <= Cardinality(woken'[q])
      <3>1. CASE q # p
        BY <1>4, <2>1, <3>1 DEF WakeupCovers
      <3>2. CASE q = p
        <4>1. /\ IsFiniteSet(free_list_[p]) /\ IsFiniteSet(woken[p])
              /\ Cardinality(free_list_[p]) \in Nat
              /\ Cardinality(woken[p]) \in Nat
          BY Counted
        <4>2. Cardinality(free_list_'[p]) = Cardinality(free_list_[p]) - 1
          BY <1>4, <4>1, FS_RemoveElement
        <4>3. \/ Cardinality(woken'[p]) = Cardinality(woken[p])
              \/ Cardinality(woken'[p]) = Cardinality(woken[p]) - 1
          <5>1. CASE t \in woken[p]
            BY <1>4, <4>1, <5>1, FS_RemoveElement
          <5>2. CASE t \notin woken[p]
            <6>1. woken'[p] = woken[p]
              BY <1>4, <5>2
            <6> QED BY <6>1
          <5> QED BY <5>1, <5>2
        <4>4. Cardinality(free_list_[p]) <= Cardinality(woken[p])
          BY <2>1, <3>2 DEF WakeupCovers
        <4> QED BY <3>2, <4>1, <4>2, <4>3, <4>4
      <3> QED BY <3>1, <3>2
    <2> QED BY <1>2, <2>1 DEF WakeupCovers
  <1> QED BY <1>5, <1>6, <1>7, <1>8, <1>9

\* A step that moves no connection.
LEMMA SameConnections ==
    ASSUME PoolInv, UNCHANGED <<free_list_, cur_conn, held>>
    PROVE  ConnExclusive' /\ Accounted' /\ Bounded'
  <1>1. \A t \in Workers : HeldSet(t)' = HeldSet(t)
    BY DEF HeldSet
  <1>2. ConnExclusive'
    BY <1>1 DEF PoolInv, ConnExclusive
  <1>3. \A p \in Pools : HeldOf(p)' = HeldOf(p) /\ Opened(p)' = Opened(p)
    BY <1>1 DEF HeldOf, Opened
  <1>4. Accounted' /\ Bounded'
    BY <1>3 DEF PoolInv, Accounted, Bounded
  <1> QED BY <1>2, <1>4

\* cond_var_.wait keeps it: the list is empty.
LEMMA WaitStep ==
    ASSUME PoolInv, NEW t \in Workers, NEW p \in Pools,
           wants[t] # <<>>, Head(wants[t]) = p, Wait(t, p)
    PROVE  PoolInv'
  <1> USE DEF PoolInv
  <1>1. /\ free_list_[p] = {}
        /\ asleep' = [asleep EXCEPT ![p] = @ \cup {t}]
        /\ woken' = [woken EXCEPT ![p] = @ \ {t}]
        /\ UNCHANGED <<free_list_, cur_conn, wants, held, calls>>
    BY DEF Wait
  <1>2. /\ asleep'[p] = asleep[p] \cup {t}
        /\ woken'[p] = woken[p] \ {t}
        /\ \A q \in Pools : q # p => /\ asleep'[q] = asleep[q]
                                     /\ woken'[q] = woken[q]
    BY <1>1 DEF PoolTypeOK
  <1>3. PoolTypeOK'
    <2>1. /\ asleep' \in [Pools -> SUBSET Workers]
          /\ woken' \in [Pools -> SUBSET Workers]
      BY <1>1 DEF PoolTypeOK
    <2>2. ASSUME NEW q \in Pools
          PROVE  /\ asleep'[q] \cap woken'[q] = {}
                 /\ \A s \in asleep'[q] \cup woken'[q] :
                       wants[s] # <<>> /\ Head(wants[s]) = q
      <3>1. CASE q # p
        BY <1>2, <3>1 DEF PoolTypeOK
      <3>2. CASE q = p
        BY <1>2, <3>2 DEF PoolTypeOK
      <3> QED BY <3>1, <3>2
    <2> QED BY <1>1, <2>1, <2>2 DEF PoolTypeOK
  <1>4. ConnExclusive' /\ Accounted' /\ Bounded'
    BY <1>1, SameConnections
  <1>5. WakeupCovers'
    <2>1. ASSUME NEW q \in Pools, asleep'[q] # {}
          PROVE  Cardinality(free_list_[q]) <= Cardinality(woken'[q])
      <3>1. CASE q # p
        BY <1>2, <2>1, <3>1 DEF WakeupCovers
      <3>2. CASE q = p
        <4>1. woken'[p] \subseteq woken[p] /\ IsFiniteSet(woken[p])
          BY <1>2, Counted
        <4>2. Cardinality(woken'[p]) \in Nat
          BY <4>1, FS_Subset, FS_CardinalityType
        <4>3. Cardinality(free_list_[p]) = 0
          BY <1>1, FS_EmptySet
        <4> QED BY <3>2, <4>2, <4>3
      <3> QED BY <3>1, <3>2
    <2> QED BY <1>1, <2>1 DEF WakeupCovers
  <1> QED BY <1>3, <1>4, <1>5

\* Opening a connection below the maximum keeps it: the new one is not among
\* those the pool has opened, so nobody has it.
LEMMA OpenStep ==
    ASSUME PoolInv, NEW t \in Workers, NEW p \in Pools,
           Asks(t, p), cur_conn[p] < MaxConn[p], Open(t, p)
    PROVE  PoolInv'
  <1> USE DEF PoolInv
  <1> DEFINE c == Conn(p, cur_conn[p] + 1)
  <1>1. /\ cur_conn' = [cur_conn EXCEPT ![p] = @ + 1]
        /\ held' = [held EXCEPT ![t] = Append(@, c)]
        /\ wants' = [wants EXCEPT ![t] = Tail(@)]
        /\ free_list_' = free_list_ /\ asleep' = asleep
        /\ woken' = woken /\ calls' = calls
    BY DEF Open, Hand
  <1>2. /\ cur_conn[p] \in Nat /\ MaxConn[p] \in Nat
        /\ cur_conn'[p] = cur_conn[p] + 1
        /\ \A q \in Pools : q # p => cur_conn'[q] = cur_conn[q]
    BY <1>1, PoolAssumption DEF PoolTypeOK
  <1>3. /\ c \in Conns /\ PoolOf(c) = p /\ c \notin Opened(p)
        /\ Opened(p)' = Opened(p) \cup {c}
        /\ \A q \in Pools : q # p => Opened(q)' = Opened(q)
    <2>1. c \in Conns /\ PoolOf(c) = p
      BY <1>2 DEF Conn, Conns, PoolOf
    <2>2. c \notin Opened(p)
      BY <1>2 DEF Conn, Opened
    <2>3. 1..cur_conn'[p] = 1..cur_conn[p] \cup {cur_conn[p] + 1}
      BY <1>2
    <2>4. Opened(p)' = Opened(p) \cup {c}
      BY <2>3 DEF Opened
    <2>5. \A q \in Pools : q # p => Opened(q)' = Opened(q)
      BY <1>2 DEF Opened
    <2> QED BY <2>1, <2>2, <2>4, <2>5
  <1>4. /\ \A s \in Workers : c \notin HeldSet(s)
        /\ \A q \in Pools : c \notin free_list_[q]
    <2>1. c \notin free_list_[p] /\ c \notin HeldOf(p)
      BY <1>3 DEF Accounted
    <2> HIDE DEF c
    <2>2. \A s \in Workers : c \notin HeldSet(s)
      BY <1>3, <2>1 DEF HeldOf
    <2>3. \A q \in Pools : c \notin free_list_[q]
      BY <1>3, <2>1 DEF PoolTypeOK
    <2> QED BY <2>2, <2>3
  <1> HIDE DEF c
  <1>5. /\ ConnExclusive'
        /\ held' \in [Workers -> Seq(Conns)]
        /\ \A q \in Pools : HeldOf(q)' =
              IF q = p THEN HeldOf(q) \cup {c} ELSE HeldOf(q)
    BY <1>1, <1>3, <1>4, HandEffect
  <1>6. PoolTypeOK'
    <2>1. Tail(wants[t]) \in Seq(Pools) /\ ~ Waits(t)
      BY DEF PoolTypeOK, Asks
    <2>2. /\ wants' \in [Workers -> Seq(Pools)]
          /\ \A s \in Workers : s # t => wants'[s] = wants[s]
      BY <1>1, <2>1 DEF PoolTypeOK
    <2>3. cur_conn' \in [Pools -> Nat]
      BY <1>1, <1>2 DEF PoolTypeOK
    <2>4. \A q \in Pools : \A s \in asleep[q] \cup woken[q] :
              wants'[s] # <<>> /\ Head(wants'[s]) = q
      BY <2>1, <2>2 DEF PoolTypeOK, Waits
    <2> QED BY <1>1, <1>5, <2>2, <2>3, <2>4 DEF PoolTypeOK
  <1>7. Accounted'
    BY <1>1, <1>3, <1>5 DEF Accounted
  <1>8. Bounded'
    BY <1>1, <1>2 DEF Bounded
  <1>9. WakeupCovers'
    BY <1>1 DEF WakeupCovers
  <1> QED BY <1>5, <1>6, <1>7, <1>8, <1>9

\* GetDBConn and GetCacheConn keep it.
LEMMA GetStep ==
    ASSUME PoolInv, NEW t \in Workers, NEW p \in Pools, Asks(t, p), Get(t, p)
    PROVE  PoolInv'
  <1>1. wants[t] # <<>> /\ Head(wants[t]) = p /\ t \notin asleep[p]
    BY DEF Asks, Waits
  <1>2. CASE TakeFree(t, p)
    BY <1>1, <1>2, TakeStep
  <1>3. CASE Wait(t, p)
    BY <1>1, <1>3, WaitStep
  <1>4. CASE cur_conn[p] < MaxConn[p] /\ Open(t, p)
    BY <1>4, OpenStep
  <1> QED BY <1>2, <1>3, <1>4 DEF Get

\* The predicate of the wait, evaluated again, keeps it.
LEMMA LookStep ==
    ASSUME PoolInv, NEW t \in Workers, LookAgain(t)
    PROVE  PoolInv'
  <1>1. PICK p \in Pools : t \in woken[p] /\ (TakeFree(t, p) \/ Wait(t, p))
    BY DEF LookAgain
  <1>2. wants[t] # <<>> /\ Head(wants[t]) = p /\ t \notin asleep[p]
    BY <1>1 DEF PoolInv, PoolTypeOK
  <1> QED BY <1>1, <1>2, TakeStep, WaitStep

\* A called handler keeps it: its thread was idle, so it waits for nothing.
LEMMA CallStep ==
    ASSUME PoolInv, NEW t \in Workers, PoolCall(t)
    PROVE  PoolInv'
  <1> USE DEF PoolInv
  <1>1. /\ wants[t] = <<>> /\ calls < MaxRequests /\ calls' = calls + 1
        /\ UNCHANGED <<free_list_, cur_conn, asleep, woken, held>>
    BY DEF PoolCall, Idle
  <1>2. PICK s \in Scopes : wants' = [wants EXCEPT ![t] = s]
    BY DEF PoolCall
  <1>3. wants' \in [Workers -> Seq(Pools)]
    BY <1>2, PoolAssumption DEF PoolTypeOK
  <1>4. \A q \in Pools : \A r \in asleep[q] \cup woken[q] :
            wants'[r] = wants[r]
    BY <1>1, <1>2 DEF PoolTypeOK
  <1>5. calls' \in 0..MaxRequests
    BY <1>1, PoolAssumption DEF PoolTypeOK
  <1>6. PoolTypeOK'
    BY <1>1, <1>3, <1>4, <1>5 DEF PoolTypeOK
  <1>7. ConnExclusive' /\ Accounted' /\ Bounded'
    BY <1>1, SameConnections
  <1>8. WakeupCovers'
    BY <1>1 DEF WakeupCovers
  <1> QED BY <1>6, <1>7, <1>8

\* Waking a thread, for a reason or for none, moves it from one set to the
\* other: one more looks, so what was covered is covered with one to spare.
LEMMA WakeEffect ==
    ASSUME PoolTypeOK, NEW p \in Pools, NEW s \in asleep[p],
           IsFiniteSet(woken[p]),
           asleep' = [asleep EXCEPT ![p] = @ \ {s}],
           woken' = [woken EXCEPT ![p] = @ \cup {s}]
    PROVE  /\ asleep' \in [Pools -> SUBSET Workers]
           /\ woken' \in [Pools -> SUBSET Workers]
           /\ \A q \in Pools :
                 /\ asleep'[q] \subseteq asleep[q]
                 /\ asleep'[q] \cap woken'[q] = {}
                 /\ asleep'[q] \cup woken'[q] = asleep[q] \cup woken[q]
                 /\ q # p => woken'[q] = woken[q]
           /\ Cardinality(woken'[p]) = Cardinality(woken[p]) + 1
  <1>1. /\ asleep'[p] = asleep[p] \ {s} /\ woken'[p] = woken[p] \cup {s}
        /\ \A q \in Pools : q # p => /\ asleep'[q] = asleep[q]
                                     /\ woken'[q] = woken[q]
    BY DEF PoolTypeOK
  <1>2. s \in Workers /\ s \notin woken[p]
    BY DEF PoolTypeOK
  <1>3. /\ asleep' \in [Pools -> SUBSET Workers]
        /\ woken' \in [Pools -> SUBSET Workers]
    BY <1>2 DEF PoolTypeOK
  <1>4. ASSUME NEW q \in Pools
        PROVE  /\ asleep'[q] \subseteq asleep[q]
               /\ asleep'[q] \cap woken'[q] = {}
               /\ asleep'[q] \cup woken'[q] = asleep[q] \cup woken[q]
               /\ q # p => woken'[q] = woken[q]
    <2>1. CASE q # p
      BY <1>1, <2>1 DEF PoolTypeOK
    <2>2. CASE q = p
      BY <1>1, <2>2 DEF PoolTypeOK
    <2> QED BY <2>1, <2>2
  <1>5. Cardinality(woken'[p]) = Cardinality(woken[p]) + 1
    BY <1>1, <1>2, FS_AddElement
  <1> QED BY <1>3, <1>4, <1>5

\* A spurious wakeup keeps it.
LEMMA SpuriousStep ==
    ASSUME PoolInv, NEW t \in Workers, PoolSpuriousWakeup(t)
    PROVE  PoolInv'
  <1> USE DEF PoolInv
  <1>1. PICK p \in Pools :
           /\ t \in asleep[p]
           /\ asleep' = [asleep EXCEPT ![p] = @ \ {t}]
           /\ woken' = [woken EXCEPT ![p] = @ \cup {t}]
           /\ UNCHANGED <<free_list_, cur_conn, wants, held, calls>>
    BY DEF PoolSpuriousWakeup
  <1>2. /\ asleep' \in [Pools -> SUBSET Workers]
        /\ woken' \in [Pools -> SUBSET Workers]
        /\ \A q \in Pools :
              /\ asleep'[q] \subseteq asleep[q]
              /\ asleep'[q] \cap woken'[q] = {}
              /\ asleep'[q] \cup woken'[q] = asleep[q] \cup woken[q]
              /\ q # p => woken'[q] = woken[q]
        /\ Cardinality(woken'[p]) = Cardinality(woken[p]) + 1
    BY <1>1, Counted, WakeEffect
  <1>3. PoolTypeOK'
    BY <1>1, <1>2 DEF PoolTypeOK
  <1>4. ConnExclusive' /\ Accounted' /\ Bounded'
    BY <1>1, SameConnections
  <1>5. WakeupCovers'
    <2>1. ASSUME NEW q \in Pools, asleep'[q] # {}
          PROVE  Cardinality(free_list_[q]) <= Cardinality(woken'[q])
      <3>1. Cardinality(free_list_[q]) <= Cardinality(woken[q])
        BY <1>2, <2>1 DEF WakeupCovers
      <3>2. /\ Cardinality(free_list_[q]) \in Nat
            /\ Cardinality(woken[q]) \in Nat
        BY Counted
      <3>3. CASE q # p
        BY <1>2, <3>1, <3>3
      <3>4. CASE q = p
        BY <1>2, <3>1, <3>2, <3>4
      <3> QED BY <3>3, <3>4
    <2> QED BY <1>1, <2>1 DEF WakeupCovers
  <1> QED BY <1>3, <1>4, <1>5

\* Giving a connection back keeps it: the list grows by one, and if anybody
\* sleeps, one more is woken.
LEMMA ReleaseStep ==
    ASSUME PoolInv, NEW t \in Workers, NEW p \in Pools, Release(t, p)
    PROVE  PoolInv'
  <1> USE DEF PoolInv
  <1> DEFINE c == held[t][Len(held[t])]
  <1>1. /\ wants[t] = <<>> /\ held[t] # <<>> /\ PoolOf(c) = p
        /\ free_list_' = [free_list_ EXCEPT ![p] = @ \cup {c}]
        /\ held' = [held EXCEPT ![t] = SubSeq(@, 1, Len(@) - 1)]
        /\ cur_conn' = cur_conn /\ wants' = wants /\ calls' = calls
        /\ Notify(p)
    BY DEF Release
  <1> HIDE DEF c
  <1>2. /\ ConnExclusive'
        /\ held' \in [Workers -> Seq(Conns)]
        /\ c \in Conns /\ c \in HeldOf(p)
        /\ \A q \in Pools : HeldOf(q)' =
              IF q = p THEN HeldOf(p) \ {c} ELSE HeldOf(q)
    BY DropEffect DEF c, LastHeld
  <1>3. \A q \in Pools : free_list_'[q] =
              IF q = p THEN free_list_[p] \cup {c} ELSE free_list_[q]
    BY <1>1 DEF PoolTypeOK
  <1>4. Accounted'
    <2>1. ASSUME NEW q \in Pools
          PROVE  free_list_'[q] \cup HeldOf(q)' = Opened(q)
      <3>1. CASE q # p
        BY <1>2, <1>3, <3>1 DEF Accounted
      <3>2. CASE q = p
        BY <1>2, <1>3, <3>2 DEF Accounted
      <3> QED BY <3>1, <3>2
    <2> QED BY <1>1, <2>1 DEF Accounted, Opened
  <1>5. Bounded'
    BY <1>1 DEF Bounded
  <1>6. /\ Cardinality(free_list_[p]) \in Nat
        /\ Cardinality(woken[p]) \in Nat
        /\ IsFiniteSet(free_list_[p]) /\ IsFiniteSet(woken[p])
        /\ Cardinality(free_list_'[p]) = Cardinality(free_list_[p]) + 1
    <2>1. c \notin free_list_[p]
      BY <1>2, ExclusiveSets DEF HeldOf
    <2>2. free_list_'[p] = free_list_[p] \cup {c}
      BY <1>3
    <2>3. /\ Cardinality(free_list_[p]) \in Nat
          /\ Cardinality(woken[p]) \in Nat
          /\ IsFiniteSet(free_list_[p]) /\ IsFiniteSet(woken[p])
      BY Counted
    <2>4. Cardinality(free_list_[p] \cup {c}) = Cardinality(free_list_[p]) + 1
      BY <2>1, <2>3, FS_AddElement
    <2> QED BY <2>2, <2>3, <2>4
  <1>7. free_list_' \in [Pools -> SUBSET Conns]
    BY <1>1, <1>2 DEF PoolTypeOK
  <1>8. \A q \in Pools : \A d \in free_list_'[q] : PoolOf(d) = q
    BY <1>1, <1>3 DEF PoolTypeOK
  <1>9. CASE \E s \in asleep[p] :
                /\ asleep' = [asleep EXCEPT ![p] = @ \ {s}]
                /\ woken' = [woken EXCEPT ![p] = @ \cup {s}]
    <2>1. /\ asleep' \in [Pools -> SUBSET Workers]
          /\ woken' \in [Pools -> SUBSET Workers]
          /\ \A q \in Pools :
                /\ asleep'[q] \subseteq asleep[q]
                /\ asleep'[q] \cap woken'[q] = {}
                /\ asleep'[q] \cup woken'[q] = asleep[q] \cup woken[q]
                /\ q # p => woken'[q] = woken[q]
          /\ Cardinality(woken'[p]) = Cardinality(woken[p]) + 1
      BY <1>6, <1>9, WakeEffect
    <2>2. PoolTypeOK'
      BY <1>1, <1>2, <1>7, <1>8, <2>1 DEF PoolTypeOK
    <2>3. ASSUME NEW q \in Pools, asleep'[q] # {}
          PROVE  Cardinality(free_list_'[q]) <= Cardinality(woken'[q])
      <3>1. Cardinality(free_list_[q]) <= Cardinality(woken[q])
        BY <2>1, <2>3 DEF WakeupCovers
      <3>2. CASE q # p
        BY <1>3, <2>1, <3>1, <3>2
      <3>3. CASE q = p
        BY <1>6, <2>1, <3>1, <3>3
      <3> QED BY <3>2, <3>3
    <2>4. WakeupCovers'
      BY <2>3 DEF WakeupCovers
    <2> QED BY <1>2, <1>4, <1>5, <2>2, <2>4
  <1>10. CASE asleep[p] = {} /\ UNCHANGED <<asleep, woken>>
    <2>1. PoolTypeOK'
      BY <1>1, <1>2, <1>7, <1>8, <1>10 DEF PoolTypeOK
    <2>2. ASSUME NEW q \in Pools, asleep'[q] # {}
          PROVE  Cardinality(free_list_'[q]) <= Cardinality(woken'[q])
      <3>1. q # p
        BY <1>10, <2>2
      <3>2. free_list_'[q] = free_list_[q]
        BY <1>3, <3>1
      <3> QED BY <1>10, <2>2, <3>2 DEF WakeupCovers
    <2>3. WakeupCovers'
      BY <2>2 DEF WakeupCovers
    <2> QED BY <1>2, <1>4, <1>5, <2>1, <2>3
  <1> QED BY <1>1, <1>9, <1>10 DEF Notify

\* A process that starts again has the pools Init gives it.
LEMMA NullStep ==
    ASSUME PoolInv, NEW t \in Workers, NullConn(t)
    PROVE  PoolInv'
  <1>1. Fresh'
    BY DEF NullConn, PoolInv, PoolTypeOK, Fresh
  <1>2. (Fresh => PoolInv)'
    BY FreshPools, PTL
  <1> QED BY <1>1, <1>2

\* Every step keeps the invariant.
LEMMA PoolStep == PoolInv /\ [PoolNext]_poolVars => PoolInv'
  <1> SUFFICES ASSUME PoolInv, [PoolNext]_poolVars PROVE PoolInv'
    OBVIOUS
  <1>1. ASSUME NEW t \in Workers, PoolCall(t) PROVE PoolInv'
    BY <1>1, CallStep
  <1>2. ASSUME NEW t \in Workers, GetDBConn(t) \/ GetCacheConn(t) PROVE PoolInv'
    <2>1. PICK p \in Pools : Asks(t, p) /\ Get(t, p)
      BY <1>2 DEF GetDBConn, GetCacheConn, Pools
    <2> QED BY <2>1, GetStep
  <1>3. ASSUME NEW t \in Workers, LookAgain(t) PROVE PoolInv'
    BY <1>3, LookStep
  <1>4. ASSUME NEW t \in Workers, RelDBConn(t) \/ RelCacheConn(t) PROVE PoolInv'
    <2>1. PICK p \in Pools : Release(t, p)
      BY <1>4 DEF RelDBConn, RelCacheConn, Pools
    <2> QED BY <2>1, ReleaseStep
  <1>5. ASSUME NEW t \in Workers, PoolSpuriousWakeup(t) PROVE PoolInv'
    BY <1>5, SpuriousStep
  <1>6. ASSUME NEW t \in Workers, NullConn(t) PROVE PoolInv'
    BY <1>6, NullStep
  <1>7. CASE UNCHANGED poolVars
    <2>1. UNCHANGED <<free_list_, cur_conn, asleep, woken, wants, held, calls>>
      BY <1>7 DEF poolVars
    <2>2. PoolTypeOK' /\ WakeupCovers'
      BY <2>1 DEF PoolInv, PoolTypeOK, WakeupCovers
    <2> QED BY <2>1, <2>2, SameConnections DEF PoolInv
  <1>8. CASE Done
    BY <1>7, <1>8 DEF Done
  <1> QED BY <1>1, <1>2, <1>3, <1>4, <1>5, <1>6, <1>7, <1>8 DEF PoolNext, Work

-----------------------------------------------------------------------------
\* The pools are sound for any number of threads, pools and connections, with
\* spurious wakeups, connections that cannot be opened and restarts: GetDBConn,
\* RelDBConn, GetCacheConn and RelCacheConn never hand a connection to two
\* threads, never open one too many, and never leave one idle while a thread
\* sleeps that was not told of it.
THEOREM PoolsAreSound == PoolSpec => []PoolsSound
  <1>1. PoolInit => PoolInv
    <2>1. PoolInit => Fresh
      BY PoolAssumption DEF PoolInit, Fresh
    <2> QED BY <2>1, FreshPools
  <1>2. PoolInv /\ [PoolNext]_poolVars => PoolInv'
    BY PoolStep
  <1>3. PoolInv => PoolsSound
    BY InvSound
  <1> QED BY <1>1, <1>2, <1>3, PTL DEF PoolSpec

-----------------------------------------------------------------------------
(* The tools of FastDFS *)

\* Where the calls are after one of them has gone on, which numbers stay its own.
CallNumbers ==
    /\ \A t \in ToolUsers : toolAt[t] = "idle" <=> tool[t] = NoTool
    /\ \A t, s \in ToolUsers : tool[t] = tool[s] /\ t # s => tool[t] = NoTool
    /\ \A t \in ToolUsers : tool[t] <= made
ToolPCs == {"idle"} \cup UnforkedPCs \cup ForkedPCs

LEMMA CallOf ==
    ASSUME ToolSetsOK, CallNumbers, NEW t \in ToolUsers, toolAt[t] # "idle"
    PROVE  /\ tool[t] \in Tools /\ tool[t] # NoTool
           /\ \A pcs : tool[t] \in Calls(pcs) <=> toolAt[t] \in pcs
  <1>1. tool[t] \in Tools /\ tool[t] # NoTool
    BY ToolAssumption DEF ToolSetsOK, CallNumbers, Tools, NoTool
  <1> QED BY <1>1 DEF CallNumbers, Calls

\* A call that goes on is in the sets of calls it now belongs to.
LEMMA CallMoves ==
    ASSUME ToolSetsOK, CallNumbers, NEW t \in ToolUsers, toolAt[t] # "idle",
           NEW there \in ToolPCs \ {"idle"}, ToolGoto(t, there), UNCHANGED <<tool, made>>
    PROVE  /\ toolAt' \in [ToolUsers -> ToolPCs] /\ tool' \in [ToolUsers -> 0..MaxTools]
           /\ CallNumbers' /\ toolAt'[t] = there
           /\ \A pcs : Calls(pcs)' = IF there \in pcs THEN Calls(pcs) \cup {tool[t]}
                                     ELSE Calls(pcs) \ {tool[t]}
  <1>1. toolAt' \in [ToolUsers -> ToolPCs] /\ tool' \in [ToolUsers -> 0..MaxTools]
    BY DEF ToolSetsOK, ToolGoto, ToolPCs
  <1>2. \A s \in ToolUsers : toolAt'[s] = IF s = t THEN there ELSE toolAt[s]
    BY DEF ToolSetsOK, ToolGoto
  <1>3. CallNumbers'
    BY <1>2 DEF CallNumbers
  <1>4. tool[t] \in Tools /\ tool[t] # NoTool
    BY CallOf
  <1>5. ASSUME NEW pcs
        PROVE  Calls(pcs)' = IF there \in pcs THEN Calls(pcs) \cup {tool[t]}
                             ELSE Calls(pcs) \ {tool[t]}
    <2>1. \A k \in Tools : k # tool[t] => (k \in Calls(pcs)' <=> k \in Calls(pcs))
      BY <1>2 DEF Calls
    <2>2. tool[t] \in Calls(pcs)' <=> there \in pcs
      BY <1>2, <1>4 DEF Calls, CallNumbers
    <2>3. Calls(pcs) \subseteq Tools /\ Calls(pcs)' \subseteq Tools
      BY DEF Calls, Tools
    <2> QED BY <1>4, <2>1, <2>2, <2>3
  <1> QED BY <1>1, <1>2, <1>3, <1>5

\* A call that returns is in none of them.
LEMMA CallReturns ==
    ASSUME ToolSetsOK, CallNumbers, NEW t \in ToolUsers, toolAt[t] # "idle",
           NEW what, ToolReturn(t, what), UNCHANGED made
    PROVE  /\ toolAt' \in [ToolUsers -> ToolPCs] /\ tool' \in [ToolUsers -> 0..MaxTools]
           /\ CallNumbers' /\ toolAt'[t] = "idle" /\ \A s \in ToolUsers : tool'[s] # tool[t]
           /\ \A pcs : "idle" \notin pcs => Calls(pcs)' = Calls(pcs) \ {tool[t]}
  <1>1. toolAt' \in [ToolUsers -> ToolPCs] /\ tool' \in [ToolUsers -> 0..MaxTools]
    BY ToolAssumption DEF ToolSetsOK, ToolReturn, ToolGoto, ToolPCs, NoTool
  <1>2. \A s \in ToolUsers : /\ toolAt'[s] = IF s = t THEN "idle" ELSE toolAt[s]
                             /\ tool'[s] = IF s = t THEN NoTool ELSE tool[s]
    BY DEF ToolSetsOK, ToolReturn, ToolGoto
  <1>3. made \in Nat /\ UNCHANGED made
    BY DEF ToolSetsOK
  <1>4. CallNumbers'
    BY <1>2, <1>3 DEF CallNumbers, NoTool
  <1>5. tool[t] \in Tools /\ tool[t] # NoTool
    BY CallOf
  <1>6. \A s \in ToolUsers : tool'[s] # tool[t]
    BY <1>2, <1>5 DEF CallNumbers
  <1>7. ASSUME NEW pcs, "idle" \notin pcs
        PROVE  Calls(pcs)' = Calls(pcs) \ {tool[t]}
    <2>1. \A k \in Tools : k # tool[t] => (k \in Calls(pcs)' <=> k \in Calls(pcs))
      BY <1>2, <1>7 DEF Calls, CallNumbers
    <2>2. tool[t] \notin Calls(pcs)'
      BY <1>6 DEF Calls
    <2>3. Calls(pcs) \subseteq Tools /\ Calls(pcs)' \subseteq Tools
      BY DEF Calls, Tools
    <2> QED BY <2>1, <2>2, <2>3
  <1> QED BY <1>1, <1>2, <1>4, <1>6, <1>7

\* Sets of calls are finite, and so are those of children.
LEMMA CallsFinite ==
    /\ \A pcs : IsFiniteSet(Calls(pcs)) /\ Cardinality(Calls(pcs)) \in Nat
    /\ IsFiniteSet(Unreaped) /\ Cardinality(Unreaped) \in Nat
    /\ Cardinality(Unreaped) <= MaxTools
  <1>1. IsFiniteSet(Tools) /\ Cardinality(Tools) = MaxTools
    BY FS_Interval, ToolAssumption DEF Tools
  <1>2. \A pcs : Calls(pcs) \subseteq Tools
    BY DEF Calls
  <1>3. Unreaped \subseteq Tools
    BY DEF Unreaped
  <1>4. \A pcs : IsFiniteSet(Calls(pcs)) /\ Cardinality(Calls(pcs)) \in Nat
    BY <1>1, <1>2, FS_Subset, FS_CardinalityType
  <1>5. /\ IsFiniteSet(Unreaped) /\ Cardinality(Unreaped) \in Nat
        /\ Cardinality(Unreaped) <= MaxTools
    BY <1>1, <1>3, FS_Subset, FS_CardinalityType
  <1> QED BY <1>4, <1>5

\* The lemmas above, for the sets the invariant is about.
LEMMA Moves ==
    ASSUME ToolInv, NEW t \in ToolUsers, toolAt[t] # "idle",
           NEW there \in ToolPCs \ {"idle"}, ToolGoto(t, there), UNCHANGED <<tool, made>>
    PROVE  /\ toolAt' \in [ToolUsers -> ToolPCs] /\ tool' \in [ToolUsers -> 0..MaxTools]
           /\ made' \in 0..MaxTools /\ CallNumbers' /\ toolAt'[t] = there
           /\ tool[t] \in Tools /\ tool[t] <= made
           /\ \A s \in ToolUsers : s # t => toolAt'[s] = toolAt[s]
           /\ \A pcs : tool[t] \in Calls(pcs) <=> toolAt[t] \in pcs
           /\ \A pcs : Calls(pcs)' = IF there \in pcs THEN Calls(pcs) \cup {tool[t]}
                                     ELSE Calls(pcs) \ {tool[t]}
  <1>1. ToolSetsOK /\ CallNumbers
    BY DEF ToolInv, CallsInv, CallNumbers
  <1>2. made' \in 0..MaxTools /\ tool[t] <= made
    BY <1>1 DEF ToolSetsOK, CallNumbers
  <1>3. \A s \in ToolUsers : s # t => toolAt'[s] = toolAt[s]
    BY <1>1 DEF ToolSetsOK, ToolGoto
  <1>4. tool[t] \in Tools /\ \A pcs : tool[t] \in Calls(pcs) <=> toolAt[t] \in pcs
    BY <1>1, CallOf
  <1>5. /\ toolAt' \in [ToolUsers -> ToolPCs] /\ tool' \in [ToolUsers -> 0..MaxTools]
        /\ CallNumbers' /\ toolAt'[t] = there
        /\ \A pcs : Calls(pcs)' = IF there \in pcs THEN Calls(pcs) \cup {tool[t]}
                                  ELSE Calls(pcs) \ {tool[t]}
    BY <1>1, CallMoves
  <1> QED BY <1>2, <1>3, <1>4, <1>5

LEMMA Returns ==
    ASSUME ToolInv, NEW t \in ToolUsers, toolAt[t] # "idle",
           NEW what, ToolReturn(t, what), UNCHANGED made
    PROVE  /\ toolAt' \in [ToolUsers -> ToolPCs] /\ tool' \in [ToolUsers -> 0..MaxTools]
           /\ made' \in 0..MaxTools /\ CallNumbers' /\ toolAt'[t] = "idle"
           /\ tool[t] \in Tools /\ tool[t] <= made
           /\ \A s \in ToolUsers : /\ tool'[s] # tool[t]
                                   /\ tool'[s] # NoTool => tool'[s] = tool[s]
                                   /\ s # t => toolAt'[s] = toolAt[s] /\ tool'[s] = tool[s]
           /\ \A pcs : tool[t] \in Calls(pcs) <=> toolAt[t] \in pcs
           /\ \A pcs : "idle" \notin pcs => Calls(pcs)' = Calls(pcs) \ {tool[t]}
  <1>1. ToolSetsOK /\ CallNumbers
    BY DEF ToolInv, CallsInv, CallNumbers
  <1>2. made' \in 0..MaxTools /\ tool[t] <= made
    BY <1>1 DEF ToolSetsOK, CallNumbers
  <1>3. \A s \in ToolUsers : /\ tool'[s] # NoTool => tool'[s] = tool[s]
                             /\ s # t => toolAt'[s] = toolAt[s] /\ tool'[s] = tool[s]
    BY <1>1 DEF ToolSetsOK, ToolReturn, ToolGoto
  <1>4. tool[t] \in Tools /\ \A pcs : tool[t] \in Calls(pcs) <=> toolAt[t] \in pcs
    BY <1>1, CallOf
  <1>5. /\ toolAt' \in [ToolUsers -> ToolPCs] /\ tool' \in [ToolUsers -> 0..MaxTools]
        /\ CallNumbers' /\ toolAt'[t] = "idle" /\ \A s \in ToolUsers : tool'[s] # tool[t]
        /\ \A pcs : "idle" \notin pcs => Calls(pcs)' = Calls(pcs) \ {tool[t]}
    BY <1>1, CallReturns
  <1> QED BY <1>2, <1>3, <1>4, <1>5

\* A call that fails before it has a child changes nothing but its pipe.
LEMMA FailsEarly ==
    ASSUME ToolInv, NEW t \in ToolUsers, toolAt[t] \in UnforkedPCs,
           ToolReturn(t, "failed"), UNCHANGED <<made, child, inherited, gone, unread>>
    PROVE  ToolSetsOK' /\ CallsInv' /\ ChildrenInv' /\ lies' = 0
           /\ tool[t] \notin unread /\ tool[t] \notin worked
           /\ worked' = worked
  <1>0. toolAt[t] # "idle"
    BY DEF UnforkedPCs
  <1>1. /\ toolAt' \in [ToolUsers -> ToolPCs] /\ tool' \in [ToolUsers -> 0..MaxTools]
        /\ made' \in 0..MaxTools /\ CallNumbers' /\ tool[t] \in Tools
        /\ tool[t] \in Calls(UnforkedPCs) /\ tool[t] \notin Calls(ForkedPCs)
        /\ Calls(UnforkedPCs)' = Calls(UnforkedPCs) \ {tool[t]}
        /\ Calls(ForkedPCs)' = Calls(ForkedPCs) \ {tool[t]}
    BY <1>0, Returns DEF UnforkedPCs, ForkedPCs
  <1>2. ToolSetsOK'
    BY <1>1 DEF ToolInv, ToolSetsOK, ToolPCs
  <1>3. child[tool[t]] = "none"
    BY <1>1 DEF ToolInv, CallsInv
  <1>4. tool[t] \notin worked /\ tool[t] \notin unread
    BY <1>3 DEF ToolInv, CallsInv, AnswersInv
  <1>5. worked' = worked /\ lies' = 0
    BY <1>4 DEF ToolInv, AnswersInv, ToolReturn
  <1>6. CallsInv'
    BY <1>1, <1>5 DEF ToolInv, CallsInv, CallNumbers
  <1>7. ChildrenInv'
    BY <1>1 DEF ToolInv, ChildrenInv, Unreaped
  <1> QED BY <1>2, <1>4, <1>5, <1>6, <1>7

\* fork: one child more, and one thread more that has to wait for it.
LEMMA Forks ==
    ASSUME ToolInv, NEW t \in ToolUsers, toolAt[t] \in UnforkedPCs, Forked(t),
           NEW there \in ForkedPCs, ToolGoto(t, there),
           UNCHANGED <<callVars, made, gone, writeFds>>
    PROVE  ToolSetsOK' /\ CallsInv' /\ ChildrenInv'
  <1>0. toolAt[t] # "idle" /\ there \in ToolPCs \ {"idle"} /\ UNCHANGED <<tool, worked, lies>>
    BY DEF UnforkedPCs, ForkedPCs, ToolPCs, callVars
  <1>1. /\ toolAt' \in [ToolUsers -> ToolPCs] /\ tool' \in [ToolUsers -> 0..MaxTools]
        /\ made' \in 0..MaxTools /\ CallNumbers' /\ tool[t] \in Tools /\ tool[t] <= made
        /\ tool[t] \in Calls(UnforkedPCs) /\ tool[t] \notin Calls(ForkedPCs)
        /\ Calls(UnforkedPCs)' = Calls(UnforkedPCs) \ {tool[t]}
        /\ Calls(ForkedPCs)' = Calls(ForkedPCs) \cup {tool[t]}
    BY <1>0, Moves DEF UnforkedPCs, ForkedPCs
  <1>2. writeFds \subseteq Tools
    BY ToolAssumption DEF ToolInv, PipesInv, ToolSetsOK, Calls, Tools
  <1>3. ToolSetsOK'
    BY <1>1, <1>2 DEF ToolInv, ToolSetsOK, ToolPCs, Forked
  <1>4. /\ child[tool[t]] = "none" /\ child'[tool[t]] = "running"
        /\ \A k \in Tools : k # tool[t] => child'[k] = child[k]
    BY <1>1 DEF ToolInv, ToolSetsOK, CallsInv, Forked
  <1>5. CallsInv'
    <2>1. ASSUME NEW k \in Tools, k > made \/ k \in Calls(UnforkedPCs)'
          PROVE  child'[k] = "none"
      <3>1. made \in Nat /\ k # tool[t]
        BY <1>1, <2>1 DEF ToolInv, ToolSetsOK, Tools
      <3> QED BY <1>1, <1>4, <2>1, <3>1 DEF ToolInv, CallsInv
    <2>2. \A k \in worked' : k \in Tools /\ child'[k] # "none"
      BY <1>0, <1>4 DEF ToolInv, CallsInv
    <2> QED BY <1>1, <2>1, <2>2 DEF CallsInv, CallNumbers
  <1>6. ChildrenInv'
    <2>1. Unreaped' = Unreaped \cup {tool[t]} /\ tool[t] \notin Unreaped
      BY <1>1, <1>4 DEF Unreaped
    <2>2. Cardinality(Unreaped') = Cardinality(Unreaped) + 1
      BY <2>1, CallsFinite, FS_AddElement
    <2>3. Cardinality(Calls(ForkedPCs)') = Cardinality(Calls(ForkedPCs)) + 1
      BY <1>1, CallsFinite, FS_AddElement
    <2> QED BY <2>2, <2>3, CallsFinite DEF ToolInv, ToolSetsOK, ChildrenInv
  <1> QED BY <1>3, <1>5, <1>6

\* A call that goes on before its fork, or after it, keeps the children.
LEMMA GoesOn ==
    ASSUME ToolInv, NEW t \in ToolUsers, NEW there,
           \/ toolAt[t] \in UnforkedPCs /\ there \in UnforkedPCs
           \/ toolAt[t] \in ForkedPCs /\ there \in ForkedPCs,
           ToolGoto(t, there), UNCHANGED <<callVars, made, child, inherited, gone>>
    PROVE  ToolSetsOK' /\ CallsInv' /\ ChildrenInv'
  <1>0. /\ toolAt[t] # "idle" /\ there \in ToolPCs \ {"idle"}
        /\ UNCHANGED <<tool, worked, lies, made, child, inherited, gone>>
    BY DEF UnforkedPCs, ForkedPCs, ToolPCs, callVars
  <1>1. /\ toolAt' \in [ToolUsers -> ToolPCs] /\ tool' \in [ToolUsers -> 0..MaxTools]
        /\ made' \in 0..MaxTools /\ CallNumbers'
        /\ Calls(UnforkedPCs)' = Calls(UnforkedPCs)
        /\ Calls(ForkedPCs)' = Calls(ForkedPCs)
    <2>1. /\ toolAt' \in [ToolUsers -> ToolPCs] /\ tool' \in [ToolUsers -> 0..MaxTools]
          /\ made' \in 0..MaxTools /\ CallNumbers'
          /\ \A pcs : tool[t] \in Calls(pcs) <=> toolAt[t] \in pcs
          /\ \A pcs : Calls(pcs)' = IF there \in pcs THEN Calls(pcs) \cup {tool[t]}
                                     ELSE Calls(pcs) \ {tool[t]}
      BY <1>0, Moves
    <2>2. there \in UnforkedPCs <=> toolAt[t] \in UnforkedPCs
      BY DEF UnforkedPCs, ForkedPCs
    <2>3. there \in ForkedPCs <=> toolAt[t] \in ForkedPCs
      BY DEF UnforkedPCs, ForkedPCs
    <2>4. Calls(UnforkedPCs)' = Calls(UnforkedPCs)
      BY <2>1, <2>2
    <2>5. Calls(ForkedPCs)' = Calls(ForkedPCs)
      BY <2>1, <2>3
    <2> QED BY <2>1, <2>4, <2>5
  <1>2. ToolSetsOK'
    BY <1>0, <1>1 DEF ToolInv, ToolSetsOK, ToolPCs
  <1>3. CallsInv'
    BY <1>0, <1>1 DEF ToolInv, CallsInv, CallNumbers
  <1>4. ChildrenInv'
    BY <1>0, <1>1 DEF ToolInv, ChildrenInv, Unreaped
  <1> QED BY <1>2, <1>3, <1>4

\* The end of a wait: a child is gone with its thread, or the thread found none.
LEMMA ToolWaitEnds ==
    ASSUME ToolInv, NEW t \in ToolUsers, toolAt[t] \in ForkedPCs, NEW what,
           ToolReturn(t, what), UNCHANGED <<made, inherited>>,
           \/ (\E k \in Zombies : Reap(k)) /\ UNCHANGED gone
           \/ gone' = gone + 1 /\ UNCHANGED child
    PROVE  ToolSetsOK' /\ CallsInv' /\ ChildrenInv'
  <1>0. toolAt[t] # "idle"
    BY DEF ForkedPCs
  <1>1. /\ toolAt' \in [ToolUsers -> ToolPCs] /\ tool' \in [ToolUsers -> 0..MaxTools]
        /\ made' \in 0..MaxTools /\ CallNumbers' /\ tool[t] \in Tools
        /\ tool[t] \notin Calls(UnforkedPCs) /\ tool[t] \in Calls(ForkedPCs)
        /\ Calls(UnforkedPCs)' = Calls(UnforkedPCs) \ {tool[t]}
        /\ Calls(ForkedPCs)' = Calls(ForkedPCs) \ {tool[t]}
    BY <1>0, Returns DEF UnforkedPCs, ForkedPCs
  <1>2. child' \in [Tools -> {"none", "running", "zombie", "reaped"}] /\ gone' \in Nat
    BY DEF ToolInv, ToolSetsOK, Reap
  <1>3. ToolSetsOK'
    BY <1>1, <1>2 DEF ToolInv, ToolSetsOK, ToolPCs
  <1>4. \A k \in Tools : child'[k] = child[k] \/ (child[k] = "zombie" /\ child'[k] = "reaped")
    BY DEF ToolInv, ToolSetsOK, Reap, Zombies
  <1>5. CallsInv'
    <2>1. worked' = worked \ {tool[t]}
      BY DEF ToolReturn
    <2>2. \A k \in Tools : child[k] = "none" <=> child'[k] = "none"
      BY <1>4
    <2> QED BY <1>1, <2>1, <2>2 DEF ToolInv, CallsInv, CallNumbers
  <1>6. Cardinality(Calls(ForkedPCs)') = Cardinality(Calls(ForkedPCs)) - 1
    BY <1>1, CallsFinite, FS_RemoveElement
  <1>7. CASE (\E k \in Zombies : Reap(k)) /\ UNCHANGED gone
    <2>1. PICK k \in Zombies : Reap(k)
      BY <1>7
    <2>2. Unreaped' = Unreaped \ {k} /\ k \in Unreaped
      BY <2>1 DEF ToolInv, ToolSetsOK, Reap, Zombies, Unreaped
    <2>3. Cardinality(Unreaped') = Cardinality(Unreaped) - 1
      BY <2>2, CallsFinite, FS_RemoveElement
    <2>4. ChildrenInv'
      BY <1>6, <1>7, <2>3, CallsFinite DEF ToolInv, ToolSetsOK, ChildrenInv
    <2> QED BY <1>3, <1>5, <2>4
  <1>8. CASE gone' = gone + 1 /\ UNCHANGED child
    <2>1. Unreaped' = Unreaped
      BY <1>8 DEF Unreaped
    <2>2. ChildrenInv'
      BY <1>6, <1>8, <2>1, CallsFinite DEF ToolInv, ToolSetsOK, ChildrenInv
    <2> QED BY <1>3, <1>5, <2>2
  <1> QED BY <1>7, <1>8

\* What a call that returns after its fork may leave behind: no pipe, no lie.
LEMMA ReturnsClean ==
    ASSUME ToolInv, NEW t \in ToolUsers, toolAt[t] \in ForkedPCs \ WritePCs, NEW what,
           ToolReturn(t, what), UNCHANGED <<made, writeFds, leaked>>,
           \/ toolAt[t] \notin PipePCs /\ UNCHANGED <<unread, readFds>>
           \/ CloseReadEnd(t),
           what = "ok" => tool[t] \in worked
    PROVE  PipesInv' /\ AnswersInv'
  <1>0. toolAt[t] # "idle"
    BY DEF ForkedPCs
  <1>1. /\ toolAt'[t] = "idle" /\ tool[t] \in Tools /\ tool[t] <= made
        /\ \A s \in ToolUsers : /\ tool'[s] # tool[t]
                                /\ tool'[s] # NoTool => tool'[s] = tool[s]
                                /\ s # t => toolAt'[s] = toolAt[s] /\ tool'[s] = tool[s]
        /\ tool[t] \in Calls(PipePCs) <=> toolAt[t] \in PipePCs
        /\ tool[t] \notin Calls(WritePCs)
        /\ Calls(PipePCs)' = Calls(PipePCs) \ {tool[t]}
        /\ Calls(WritePCs)' = Calls(WritePCs) \ {tool[t]}
    BY <1>0, Returns DEF PipePCs, WritePCs
  <1>2. tool[t] \notin leaked
    BY DEF ToolInv, PipesInv
  <1>3. tool[t] \notin writeFds
    BY <1>1, <1>2 DEF ToolInv, PipesInv
  <1>4. /\ readFds' \subseteq readFds \ {tool[t]} /\ readFds \ {tool[t]} \subseteq readFds'
        /\ unread' = unread \ {tool[t]}
    BY <1>1, <1>2 DEF ToolInv, PipesInv, AnswersInv, CloseReadEnd
  <1>5. PipesInv'
    <2>1. /\ readFds' \subseteq leaked' \cup Calls(PipePCs)'
          /\ writeFds' \subseteq leaked' \cup Calls(WritePCs)'
          /\ writeFds' \subseteq readFds'
      BY <1>1, <1>3, <1>4 DEF ToolInv, PipesInv
    <2>2. \A k \in leaked' : k \in 1..made' /\ \A s \in ToolUsers : tool'[s] # k
      <3>1. made \in Nat
        BY DEF ToolInv, ToolSetsOK
      <3>2. \A k \in leaked : k # NoTool
        BY <3>1 DEF ToolInv, PipesInv, NoTool
      <3> QED BY <1>1, <3>2 DEF ToolInv, PipesInv
    <2> QED BY <2>1, <2>2 DEF PipesInv
  <1>6. AnswersInv'
    <2>1. worked' = worked \ {tool[t]} /\ lies' = 0
      BY DEF ToolReturn, ToolInv, AnswersInv
    <2>2. unread' \subseteq readFds' \cap worked'
      BY <1>4, <2>1 DEF ToolInv, AnswersInv
    <2>3. ASSUME NEW s \in ToolUsers, toolAt'[s] \in {"up_waitpid", "url_wait"}
          PROVE  tool'[s] \in worked'
      BY <1>1, <2>1, <2>3 DEF ToolInv, AnswersInv
    <2> QED BY <2>1, <2>2, <2>3 DEF AnswersInv
  <1> QED BY <1>5, <1>6

\* A call that goes on: what becomes of its pipe, and of what is in it.
LEMMA PipesGoOn ==
    ASSUME ToolInv, NEW t \in ToolUsers, toolAt[t] # "idle",
           NEW there \in ToolPCs \ {"idle"}, ToolGoto(t, there),
           UNCHANGED <<callVars, made, leaked>>,
           readFds' \subseteq readFds \cup {tool[t]}, writeFds' \subseteq writeFds \cup {tool[t]},
           writeFds' \subseteq readFds',
           there \in PipePCs \/ tool[t] \notin readFds',
           there \in WritePCs \/ tool[t] \notin writeFds',
           unread' \subseteq unread \cap readFds',
           there \in {"up_waitpid", "url_wait"} => tool[t] \in worked
    PROVE  PipesInv' /\ AnswersInv'
  <1>0. UNCHANGED <<tool, worked, lies>>
    BY DEF callVars
  <1>1. /\ toolAt'[t] = there /\ tool[t] \in Tools
        /\ \A s \in ToolUsers : s # t => toolAt'[s] = toolAt[s]
        /\ Calls(PipePCs)' = IF there \in PipePCs THEN Calls(PipePCs) \cup {tool[t]}
                             ELSE Calls(PipePCs) \ {tool[t]}
        /\ Calls(WritePCs)' = IF there \in WritePCs THEN Calls(WritePCs) \cup {tool[t]}
                              ELSE Calls(WritePCs) \ {tool[t]}
    BY <1>0, Moves
  <1>2. /\ readFds' \subseteq leaked' \cup Calls(PipePCs)'
        /\ writeFds' \subseteq leaked' \cup Calls(WritePCs)'
    BY <1>1 DEF ToolInv, PipesInv
  <1>4. PipesInv'
    BY <1>0, <1>2 DEF ToolInv, PipesInv
  <1>5. ASSUME NEW s \in ToolUsers, toolAt'[s] \in {"up_waitpid", "url_wait"}
        PROVE  tool'[s] \in worked'
    BY <1>0, <1>1, <1>5 DEF ToolInv, AnswersInv
  <1>6. AnswersInv'
    BY <1>0, <1>5 DEF ToolInv, AnswersInv
  <1> QED BY <1>4, <1>6

\* Where a call stands tells what it has open.
LEMMA PipeOf ==
    ASSUME ToolInv, NEW t \in ToolUsers, toolAt[t] # "idle"
    PROVE  /\ tool[t] \notin leaked
           /\ tool[t] \in readFds => toolAt[t] \in PipePCs
           /\ tool[t] \in writeFds => toolAt[t] \in WritePCs
  <1>1. \A pcs : tool[t] \in Calls(pcs) <=> toolAt[t] \in pcs
    BY CallOf DEF ToolInv, CallsInv, CallNumbers
  <1>2. tool[t] \notin leaked
    BY DEF ToolInv, PipesInv
  <1> QED BY <1>1, <1>2 DEF ToolInv, PipesInv

LEMMA PipeKeeps ==
    ASSUME ToolInv, NEW t \in ToolUsers, NEW here, NEW there,
           <<here, there>> \in {<<"up_pipe", "up_fork">>, <<"url_pipe", "url_fork">>},
           Pipe(t, here, there)
    PROVE  ToolInv'
  <1>0. /\ here \in {"up_pipe", "url_pipe"} /\ there \in {"up_fork", "url_fork"}
        /\ toolAt[t] = here /\ toolAt[t] # "idle"
        /\ UNCHANGED <<made, child, unread, inherited, leaked, gone>>
    BY DEF Pipe
  <1>1. tool[t] \notin readFds /\ tool[t] \notin writeFds
    BY <1>0, PipeOf DEF PipePCs, WritePCs
  <1>2. CASE /\ readFds' = readFds \cup {tool[t]} /\ writeFds' = writeFds \cup {tool[t]}
             /\ ToolGoto(t, there) /\ UNCHANGED callVars
    <2>1. ToolSetsOK' /\ CallsInv' /\ ChildrenInv'
      BY <1>0, <1>2, GoesOn DEF UnforkedPCs
    <2>2. PipesInv' /\ AnswersInv'
      <3>1. unread \subseteq readFds /\ writeFds \subseteq readFds
        BY DEF ToolInv, PipesInv, AnswersInv
      <3>2. there \in ToolPCs \ {"idle"} /\ there \in PipePCs /\ there \in WritePCs
        BY <1>0 DEF ToolPCs, UnforkedPCs, PipePCs, WritePCs
      <3> QED BY <1>0, <1>2, <3>1, <3>2, PipesGoOn
    <2> QED BY <2>1, <2>2 DEF ToolInv
  <1>3. CASE ToolReturn(t, "failed") /\ UNCHANGED <<readFds, writeFds>>
    <2>1. /\ ToolSetsOK' /\ CallsInv' /\ ChildrenInv' /\ lies' = 0 /\ worked' = worked
      BY <1>0, <1>3, FailsEarly DEF UnforkedPCs
    <2>2. /\ \A s \in ToolUsers : /\ tool'[s] # NoTool => tool'[s] = tool[s]
                                  /\ s # t => toolAt'[s] = toolAt[s] /\ tool'[s] = tool[s]
          /\ toolAt'[t] = "idle"
          /\ Calls(PipePCs)' = Calls(PipePCs) \ {tool[t]}
          /\ Calls(WritePCs)' = Calls(WritePCs) \ {tool[t]}
      BY <1>0, <1>3, Returns DEF PipePCs, WritePCs
    <2>3. \A k \in leaked : k \in 1..made /\ k # NoTool
      BY DEF ToolInv, ToolSetsOK, PipesInv, NoTool
    <2>4. PipesInv'
      BY <1>0, <1>1, <1>3, <2>2, <2>3 DEF ToolInv, PipesInv
    <2>5. AnswersInv'
      BY <1>0, <1>3, <2>1, <2>2 DEF ToolInv, AnswersInv
    <2> QED BY <2>1, <2>4, <2>5 DEF ToolInv
  <1> QED BY <1>2, <1>3 DEF Pipe

LEMMA UploadForkKeeps ==
    ASSUME ToolInv, NEW t \in ToolUsers, UploadFork(t)
    PROVE  ToolInv'
  <1>0. toolAt[t] = "up_fork" /\ toolAt[t] # "idle" /\ UNCHANGED <<made, unread, leaked, gone>>
    BY DEF UploadFork
  <1>1. unread \subseteq readFds \cap worked /\ writeFds \subseteq readFds /\ tool[t] \notin leaked
    BY <1>0, PipeOf DEF ToolInv, PipesInv, AnswersInv
  <1>2. CASE /\ Forked(t) /\ ToolGoto(t, "up_close") /\ UNCHANGED <<callVars, readFds, writeFds>>
    <2>1. ToolSetsOK' /\ CallsInv' /\ ChildrenInv'
      BY <1>0, <1>2, Forks DEF UnforkedPCs, ForkedPCs
    <2>2. "up_close" \in (ToolPCs \ {"idle"}) \cap PipePCs \cap WritePCs
      BY DEF ToolPCs, ForkedPCs, PipePCs, WritePCs
    <2>3. PipesInv' /\ AnswersInv'
      BY <1>0, <1>1, <1>2, <2>2, PipesGoOn
    <2> QED BY <2>1, <2>3 DEF ToolInv
  <1>3. CASE /\ readFds' = readFds \ {tool[t]} /\ writeFds' = writeFds \ {tool[t]}
             /\ ToolReturn(t, "failed") /\ UNCHANGED <<child, inherited>>
    <2>1. /\ ToolSetsOK' /\ CallsInv' /\ ChildrenInv' /\ lies' = 0 /\ worked' = worked
          /\ tool[t] \notin unread
      BY <1>0, <1>3, FailsEarly DEF UnforkedPCs
    <2>2. /\ \A s \in ToolUsers : /\ tool'[s] # NoTool => tool'[s] = tool[s]
                                  /\ s # t => toolAt'[s] = toolAt[s] /\ tool'[s] = tool[s]
          /\ toolAt'[t] = "idle"
          /\ Calls(PipePCs)' = Calls(PipePCs) \ {tool[t]}
          /\ Calls(WritePCs)' = Calls(WritePCs) \ {tool[t]}
      BY <1>0, <1>3, Returns DEF PipePCs, WritePCs
    <2>3. \A k \in leaked : k \in 1..made /\ k # NoTool
      BY DEF ToolInv, ToolSetsOK, PipesInv, NoTool
    <2>4. PipesInv'
      BY <1>0, <1>1, <1>3, <2>2, <2>3 DEF ToolInv, PipesInv
    <2>5. AnswersInv'
      BY <1>0, <1>3, <2>1, <2>2 DEF ToolInv, AnswersInv
    <2> QED BY <2>1, <2>4, <2>5 DEF ToolInv
  <1> QED BY <1>2, <1>3 DEF UploadFork

LEMMA UrlForkKeeps ==
    ASSUME ToolInv, NEW t \in ToolUsers, UrlFork(t)
    PROVE  ToolInv'
  <1>0. toolAt[t] = "url_fork" /\ toolAt[t] # "idle" /\ UNCHANGED <<made, unread, readFds, writeFds, gone>>
    BY DEF UrlFork
  <1>1. unread \subseteq readFds \cap worked /\ writeFds \subseteq readFds /\ tool[t] \notin leaked
    BY <1>0, PipeOf DEF ToolInv, PipesInv, AnswersInv
  <1>2. CASE Forked(t) /\ ToolGoto(t, "url_close") /\ UNCHANGED <<callVars, leaked>>
    <2>1. ToolSetsOK' /\ CallsInv' /\ ChildrenInv'
      BY <1>0, <1>2, Forks DEF UnforkedPCs, ForkedPCs
    <2>2. "url_close" \in (ToolPCs \ {"idle"}) \cap PipePCs \cap WritePCs
      BY DEF ToolPCs, ForkedPCs, PipePCs, WritePCs
    <2>3. PipesInv' /\ AnswersInv'
      BY <1>0, <1>1, <1>2, <2>2, PipesGoOn
    <2> QED BY <2>1, <2>3 DEF ToolInv
  <1>3. CASE /\ ToolReturn(t, "failed") /\ leaked' = leaked \cup {tool[t]}
             /\ UNCHANGED <<child, inherited>>
    <2>1. /\ ToolSetsOK' /\ CallsInv' /\ ChildrenInv' /\ lies' = 0 /\ worked' = worked
      BY <1>0, <1>3, FailsEarly DEF UnforkedPCs
    <2>2. /\ \A s \in ToolUsers : /\ tool'[s] # NoTool => tool'[s] = tool[s]
                                  /\ tool'[s] # tool[t]
                                  /\ s # t => toolAt'[s] = toolAt[s] /\ tool'[s] = tool[s]
          /\ toolAt'[t] = "idle" /\ tool[t] \in Tools /\ tool[t] <= made
          /\ Calls(PipePCs)' = Calls(PipePCs) \ {tool[t]}
          /\ Calls(WritePCs)' = Calls(WritePCs) \ {tool[t]}
      BY <1>0, <1>3, Returns DEF PipePCs, WritePCs
    <2>3. \A k \in leaked : k \in 1..made /\ k # NoTool
      BY DEF ToolInv, ToolSetsOK, PipesInv, NoTool
    <2>4. tool[t] \in 1..made
      BY <2>2 DEF ToolInv, ToolSetsOK, Tools
    <2>5. PipesInv'
      BY <1>0, <1>1, <1>3, <2>2, <2>3, <2>4 DEF ToolInv, PipesInv
    <2>6. AnswersInv'
      BY <1>0, <1>3, <2>1, <2>2 DEF ToolInv, AnswersInv
    <2> QED BY <2>1, <2>5, <2>6 DEF ToolInv
  <1> QED BY <1>2, <1>3 DEF UrlFork

LEMMA RemoveForkKeeps ==
    ASSUME ToolInv, NEW t \in ToolUsers, RemoveFork(t)
    PROVE  ToolInv'
  <1>0. /\ toolAt[t] = "rm_fork" /\ toolAt[t] # "idle"
        /\ UNCHANGED <<made, unread, readFds, writeFds, leaked, gone>>
    BY DEF RemoveFork
  <1>1. /\ unread \subseteq readFds \cap worked /\ writeFds \subseteq readFds
        /\ tool[t] \notin readFds /\ tool[t] \notin writeFds
    BY <1>0, PipeOf DEF ToolInv, PipesInv, AnswersInv, PipePCs
  <1>2. CASE Forked(t) /\ ToolGoto(t, "rm_wait") /\ UNCHANGED callVars
    <2>1. ToolSetsOK' /\ CallsInv' /\ ChildrenInv'
      BY <1>0, <1>2, Forks DEF UnforkedPCs, ForkedPCs
    <2>2. "rm_wait" \in ToolPCs \ {"idle"}
      BY DEF ToolPCs, ForkedPCs
    <2>3. PipesInv' /\ AnswersInv'
      BY <1>0, <1>1, <1>2, <2>2, PipesGoOn
    <2> QED BY <2>1, <2>3 DEF ToolInv
  <1>3. CASE ToolReturn(t, "failed") /\ UNCHANGED <<child, inherited>>
    <2>1. /\ ToolSetsOK' /\ CallsInv' /\ ChildrenInv' /\ lies' = 0 /\ worked' = worked
      BY <1>0, <1>3, FailsEarly DEF UnforkedPCs
    <2>2. /\ \A s \in ToolUsers : /\ tool'[s] # NoTool => tool'[s] = tool[s]
                                  /\ s # t => toolAt'[s] = toolAt[s] /\ tool'[s] = tool[s]
          /\ toolAt'[t] = "idle"
          /\ Calls(PipePCs)' = Calls(PipePCs) \ {tool[t]}
          /\ Calls(WritePCs)' = Calls(WritePCs) \ {tool[t]}
      BY <1>0, <1>3, Returns DEF PipePCs, WritePCs
    <2>3. \A k \in leaked : k \in 1..made /\ k # NoTool
      BY DEF ToolInv, ToolSetsOK, PipesInv, NoTool
    <2>4. PipesInv'
      BY <1>0, <1>1, <1>3, <2>2, <2>3 DEF ToolInv, PipesInv
    <2>5. AnswersInv'
      BY <1>0, <1>3, <2>1, <2>2 DEF ToolInv, AnswersInv
    <2> QED BY <2>1, <2>4, <2>5 DEF ToolInv
  <1> QED BY <1>2, <1>3 DEF RemoveFork

LEMMA CloseKeeps ==
    ASSUME ToolInv, NEW t \in ToolUsers, NEW here, NEW there,
           <<here, there>> \in {<<"up_close", "up_select">>, <<"url_close", "url_read">>},
           CloseWriteEnd(t, here, there)
    PROVE  ToolInv'
  <1>0. /\ here \in {"up_close", "url_close"} /\ there \in {"up_select", "url_read"}
        /\ toolAt[t] = here /\ toolAt[t] # "idle" /\ ToolGoto(t, there)
        /\ writeFds' = writeFds \ {tool[t]}
        /\ UNCHANGED <<callVars, made, child, unread, readFds, inherited, leaked, gone>>
    BY DEF CloseWriteEnd
  <1>1. ToolSetsOK' /\ CallsInv' /\ ChildrenInv'
    BY <1>0, GoesOn DEF ForkedPCs
  <1>2. unread \subseteq readFds /\ writeFds \subseteq readFds
    BY DEF ToolInv, PipesInv, AnswersInv
  <1>3. there \in ToolPCs \ {"idle"} /\ there \in PipePCs
    BY <1>0 DEF ToolPCs, ForkedPCs, PipePCs
  <1>4. PipesInv' /\ AnswersInv'
    BY <1>0, <1>2, <1>3, PipesGoOn
  <1> QED BY <1>1, <1>4 DEF ToolInv

\* select, read and the second reader: from the pipe to the wait.
LEMMA ReadKeeps ==
    ASSUME ToolInv, NEW t \in ToolUsers, Select(t) \/ UploadRead(t) \/ UrlRead(t)
    PROVE  ToolInv'
  <1>0. /\ toolAt[t] \in {"up_select", "up_read", "url_read"} /\ toolAt[t] # "idle"
        /\ UNCHANGED <<callVars, made, child, writeFds, inherited, leaked, gone>>
    BY DEF Select, UploadRead, UrlRead
  <1>1. /\ unread \subseteq readFds \cap worked /\ writeFds \subseteq readFds
        /\ tool[t] \notin writeFds
    BY <1>0, PipeOf DEF ToolInv, PipesInv, AnswersInv, WritePCs
  <1>2. ASSUME NEW there \in {"up_read", "up_give_up", "up_waitpid", "url_wait", "url_wait_empty"},
               ToolGoto(t, there), readFds' \subseteq readFds, readFds \ {tool[t]} \subseteq readFds',
               unread' \subseteq unread \cap readFds',
               there \in {"up_give_up", "up_waitpid"} => tool[t] \notin readFds',
               there \in {"up_waitpid", "url_wait"} => tool[t] \in worked
        PROVE  ToolInv'
    <2>1. ToolSetsOK' /\ CallsInv' /\ ChildrenInv'
      BY <1>0, <1>2, GoesOn DEF ForkedPCs
    <2>2. there \in ToolPCs \ {"idle"} /\ (there \in {"up_give_up", "up_waitpid"} \/ there \in PipePCs)
      BY <1>2 DEF ToolPCs, ForkedPCs, PipePCs
    <2>3. PipesInv' /\ AnswersInv'
      BY <1>0, <1>1, <1>2, <2>2, PipesGoOn
    <2> QED BY <2>1, <2>3 DEF ToolInv
  <1>3. CASE Select(t)
    BY <1>1, <1>2, <1>3 DEF Select, CloseReadEnd
  <1>4. CASE UploadRead(t)
    BY <1>1, <1>2, <1>4 DEF UploadRead, CloseReadEnd
  <1>5. CASE UrlRead(t)
    BY <1>1, <1>2, <1>5 DEF UrlRead
  <1> QED BY <1>3, <1>4, <1>5

\* The three ways to wait for the own child.
LEMMA WaitPidKeeps ==
    ASSUME ToolInv, NEW t \in ToolUsers, UploadWait(t) \/ UploadGiveUp(t) \/ RemoveWait(t)
    PROVE  ToolInv'
  <1>0. PICK here, taken, found :
               /\ here \in {"up_waitpid", "up_give_up", "rm_wait"}
               /\ WaitPid(t, here, taken, found)
               /\ taken = "ok" => tool[t] \in worked
               /\ "ok" \in found => here = "up_waitpid"
    BY DEF UploadWait, UploadGiveUp, RemoveWait
  <1>1. /\ here \in {"up_waitpid", "up_give_up", "rm_wait"}
        /\ WaitPid(t, here, taken, found)
        /\ taken = "ok" => tool[t] \in worked
        /\ "ok" \in found => here = "up_waitpid"
    BY ONLY <1>0
  <1>2. /\ toolAt[t] = here /\ toolAt[t] # "idle" /\ UNCHANGED <<made, pipeVars>>
        /\ toolAt[t] \in ForkedPCs \ WritePCs /\ toolAt[t] \notin PipePCs
    BY <1>1 DEF WaitPid, ForkedPCs, WritePCs, PipePCs
  <1>3. UNCHANGED <<unread, readFds, writeFds, inherited, leaked>>
    BY <1>2 DEF pipeVars
  <1>4. toolAt[t] = "up_waitpid" => tool[t] \in worked
    BY DEF ToolInv, AnswersInv
  <1>5. tool[t] \in Tools
    BY <1>2, CallOf DEF ToolInv, CallsInv, CallNumbers
  <1>6. \E what : /\ ToolReturn(t, what) /\ (what = "ok" => tool[t] \in worked)
                  /\ \/ child[tool[t]] = "zombie" /\ Reap(tool[t]) /\ UNCHANGED gone
                     \/ gone' = gone + 1 /\ UNCHANGED child
    BY <1>1, <1>2, <1>4 DEF WaitPid
  <1>7. PICK what : /\ ToolReturn(t, what) /\ (what = "ok" => tool[t] \in worked)
                    /\ \/ child[tool[t]] = "zombie" /\ Reap(tool[t]) /\ UNCHANGED gone
                       \/ gone' = gone + 1 /\ UNCHANGED child
    BY <1>6
  <1>8. \/ (\E k \in Zombies : Reap(k)) /\ UNCHANGED gone
        \/ gone' = gone + 1 /\ UNCHANGED child
    BY <1>5, <1>7 DEF Zombies
  <1>9. ToolSetsOK' /\ CallsInv' /\ ChildrenInv'
    BY <1>2, <1>3, <1>7, <1>8, ToolWaitEnds
  <1>10. PipesInv' /\ AnswersInv'
    BY <1>2, <1>3, <1>7, ReturnsClean
  <1> QED BY <1>9, <1>10 DEF ToolInv

\* wait(NULL): whosever child it is that is taken.
LEMMA UrlWaitKeeps ==
    ASSUME ToolInv, NEW t \in ToolUsers, UrlWait(t)
    PROVE  ToolInv'
  <1>1. /\ toolAt[t] \in {"url_wait", "url_wait_empty"} /\ CloseReadEnd(t)
        /\ UNCHANGED <<made, writeFds, inherited, leaked>>
        /\ toolAt[t] \in ForkedPCs \ WritePCs
    BY DEF UrlWait, ForkedPCs, WritePCs
  <1>2. PICK what : ToolReturn(t, what) /\ (what = "ok" => toolAt[t] = "url_wait")
    BY DEF UrlWait
  <1>3. what = "ok" => tool[t] \in worked
    BY <1>2 DEF ToolInv, AnswersInv
  <1>4. \/ (\E k \in Zombies : Reap(k)) /\ UNCHANGED gone
        \/ gone' = gone + 1 /\ UNCHANGED child
    BY DEF UrlWait
  <1>5. ToolSetsOK' /\ CallsInv' /\ ChildrenInv'
    BY <1>1, <1>2, <1>4, ToolWaitEnds
  <1>6. PipesInv' /\ AnswersInv'
    BY <1>1, <1>2, <1>3, ReturnsClean
  <1> QED BY <1>5, <1>6 DEF ToolInv

\* A new call has a number nobody had before it.
LEMMA CallingKeeps ==
    ASSUME ToolInv, NEW t \in ToolUsers,
           NEW there \in {"up_pipe", "url_pipe", "rm_fork"}, Calling(t, there)
    PROVE  ToolInv'
  <1>0. /\ toolAt[t] = "idle" /\ made < MaxTools /\ made' = made + 1
        /\ tool' = [tool EXCEPT ![t] = made + 1] /\ ToolGoto(t, there)
        /\ UNCHANGED <<child, worked, unread, readFds, writeFds, inherited, leaked, lies, gone>>
    BY DEF Calling, pipeVars
  <1>1. /\ made \in Nat /\ made + 1 \in Tools /\ made + 1 \in 0..MaxTools /\ made + 1 # NoTool
    BY <1>0, ToolAssumption DEF ToolInv, ToolSetsOK, Tools, NoTool
  <1>2. /\ there \in UnforkedPCs /\ there \notin ForkedPCs /\ there \notin PipePCs
        /\ there \notin WritePCs /\ there # "idle"
    BY DEF UnforkedPCs, ForkedPCs, PipePCs, WritePCs
  <1>3. ToolSetsOK'
    BY <1>0, <1>1, <1>2 DEF ToolInv, ToolSetsOK, ToolGoto
  <1>4. \A s \in ToolUsers : /\ toolAt'[s] = IF s = t THEN there ELSE toolAt[s]
                             /\ tool'[s] = IF s = t THEN made + 1 ELSE tool[s]
    BY <1>0 DEF ToolInv, ToolSetsOK, ToolGoto
  <1>5. \A s \in ToolUsers : tool[s] \in Nat /\ tool[s] <= made
    BY ToolAssumption DEF ToolInv, ToolSetsOK, CallsInv
  <1>6. \A pcs : "idle" \notin pcs =>
            /\ there \in pcs => Calls(pcs)' = Calls(pcs) \cup {made + 1}
            /\ there \notin pcs => Calls(pcs)' = Calls(pcs)
    <2>1. ASSUME NEW pcs, "idle" \notin pcs, NEW k \in Tools
          PROVE  k \in Calls(pcs)' <=> k \in Calls(pcs) \/ (there \in pcs /\ k = made + 1)
      BY <1>0, <1>4, <2>1 DEF Calls
    <2>2. \A pcs : Calls(pcs) \subseteq Tools /\ Calls(pcs)' \subseteq Tools
      BY DEF Calls, Tools
    <2> QED BY <1>1, <2>1, <2>2
  <1>7. /\ Calls(UnforkedPCs)' = Calls(UnforkedPCs) \cup {made + 1}
        /\ Calls(ForkedPCs)' = Calls(ForkedPCs)
        /\ Calls(PipePCs)' = Calls(PipePCs) /\ Calls(WritePCs)' = Calls(WritePCs)
    <2>1. /\ "idle" \notin UnforkedPCs /\ "idle" \notin ForkedPCs
          /\ "idle" \notin PipePCs /\ "idle" \notin WritePCs
      BY DEF UnforkedPCs, ForkedPCs, PipePCs, WritePCs
    <2>2. Calls(UnforkedPCs)' = Calls(UnforkedPCs) \cup {made + 1}
      BY ONLY <1>2, <1>6, <2>1
    <2>3. Calls(ForkedPCs)' = Calls(ForkedPCs)
      BY ONLY <1>2, <1>6, <2>1
    <2>4. Calls(PipePCs)' = Calls(PipePCs)
      BY ONLY <1>2, <1>6, <2>1
    <2>5. Calls(WritePCs)' = Calls(WritePCs)
      BY ONLY <1>2, <1>6, <2>1
    <2> QED BY <2>2, <2>3, <2>4, <2>5
  <1>8. CallsInv'
    <2>1. \A s \in ToolUsers : toolAt'[s] = "idle" <=> tool'[s] = NoTool
      BY <1>1, <1>2, <1>4 DEF ToolInv, CallsInv
    <2>2. \A s, r \in ToolUsers : tool'[s] = tool'[r] /\ s # r => tool'[s] = NoTool
      BY <1>1, <1>4, <1>5 DEF ToolInv, CallsInv
    <2>3. \A s \in ToolUsers : tool'[s] <= made'
      BY <1>0, <1>1, <1>4, <1>5
    <2>4. \A k \in Tools : k > made' \/ k \in Calls(UnforkedPCs)' => child'[k] = "none"
      <3>1. \A k \in Tools : k > made + 1 \/ k = made + 1 => k > made
        BY <1>1 DEF Tools
      <3> QED BY <1>0, <1>7, <3>1 DEF ToolInv, CallsInv
    <2>5. \A k \in worked' : k \in Tools /\ child'[k] # "none"
      BY <1>0 DEF ToolInv, CallsInv
    <2> QED BY <2>1, <2>2, <2>3, <2>4, <2>5 DEF CallsInv
  <1>9. ChildrenInv'
    BY <1>0, <1>7 DEF ToolInv, ChildrenInv, Unreaped
  <1>10. PipesInv'
    <2>1. \A k \in leaked : k \in 1..made' /\ \A s \in ToolUsers : tool'[s] # k
      BY <1>0, <1>1, <1>4 DEF ToolInv, PipesInv
    <2> QED BY <1>0, <1>7, <2>1 DEF ToolInv, PipesInv
  <1>11. AnswersInv'
    BY <1>0, <1>4 DEF ToolInv, AnswersInv
  <1> QED BY <1>3, <1>8, <1>9, <1>10, <1>11 DEF ToolInv

LEMMA ToolWorksKeeps ==
    ASSUME ToolInv, NEW k \in Tools, ToolWorks(k)
    PROVE  ToolInv'
  <1>0. /\ child[k] = "running" /\ worked' = worked \cup {k}
        /\ unread' = IF k \in readFds THEN unread \cup {k} ELSE unread
        /\ UNCHANGED <<toolAt, tool, made, child, readFds, writeFds, inherited, leaked, lies, gone>>
    BY DEF ToolWorks
  <1>1. \A pcs : Calls(pcs)' = Calls(pcs)
    BY <1>0 DEF Calls
  <1>2. ToolSetsOK'
    BY <1>0 DEF ToolInv, ToolSetsOK
  <1>3. CallsInv'
    BY <1>0, <1>1 DEF ToolInv, CallsInv
  <1>4. ChildrenInv' /\ PipesInv'
    BY <1>0, <1>1 DEF ToolInv, ChildrenInv, PipesInv, Unreaped
  <1>5. AnswersInv'
    BY <1>0 DEF ToolInv, AnswersInv
  <1> QED BY <1>2, <1>3, <1>4, <1>5 DEF ToolInv

LEMMA ToolEndsKeeps ==
    ASSUME ToolInv, NEW k \in Tools, ToolEnds(k)
    PROVE  ToolInv'
  <1>0. /\ child[k] = "running" /\ child' = [child EXCEPT ![k] = "zombie"]
        /\ inherited' = [inherited EXCEPT ![k] = {}]
        /\ UNCHANGED <<toolAt, tool, worked, lies, made, unread, readFds, writeFds, leaked, gone>>
    BY DEF ToolEnds, callVars
  <1>1. \A pcs : Calls(pcs)' = Calls(pcs)
    BY <1>0 DEF Calls
  <1>2. ToolSetsOK'
    BY <1>0 DEF ToolInv, ToolSetsOK
  <1>3. \A j \in Tools : child'[j] = IF j = k THEN "zombie" ELSE child[j]
    BY <1>0 DEF ToolInv, ToolSetsOK
  <1>4. CallsInv'
    BY <1>0, <1>1, <1>3 DEF ToolInv, CallsInv
  <1>5. Unreaped' = Unreaped
    BY <1>0, <1>3 DEF Unreaped
  <1>6. ChildrenInv' /\ PipesInv'
    BY <1>0, <1>1, <1>5 DEF ToolInv, ChildrenInv, PipesInv
  <1>7. AnswersInv'
    BY <1>0 DEF ToolInv, AnswersInv
  <1> QED BY <1>2, <1>4, <1>6, <1>7 DEF ToolInv

LEMMA ToolInitRight == ToolInit => ToolInv
  <1> SUFFICES ASSUME ToolInit PROVE ToolInv
    OBVIOUS
  <1>1. \A pcs : "idle" \notin pcs => Calls(pcs) = {}
    BY DEF ToolInit, Calls
  <1>2. Calls(UnforkedPCs) = {} /\ Calls(ForkedPCs) = {}
    BY <1>1 DEF UnforkedPCs, ForkedPCs
  <1>3. ToolSetsOK
    BY ToolAssumption DEF ToolInit, ToolSetsOK, NoTool
  <1>4. CallsInv
    BY <1>2 DEF ToolInit, CallsInv, NoTool
  <1>5. Unreaped = {}
    BY DEF ToolInit, Unreaped
  <1>6. ChildrenInv
    BY <1>2, <1>5, FS_EmptySet DEF ToolInit, ChildrenInv
  <1>7. PipesInv /\ AnswersInv
    BY DEF ToolInit, PipesInv, AnswersInv
  <1> QED BY <1>3, <1>4, <1>6, <1>7 DEF ToolInv

LEMMA ToolsSoundFollows == ToolInv => ToolsSound
  <1> SUFFICES ASSUME ToolInv PROVE ToolsSound
    OBVIOUS
  <1>1. gone \in 0..MaxTools
    BY CallsFinite, ToolAssumption DEF ToolInv, ToolSetsOK, ChildrenInv
  <1>2. ToolTypeOK
    BY <1>1 DEF ToolInv, CallsInv, PipesInv, AnswersInv, ToolTypeOK
  <1>3. OutcomeTrue
    BY DEF ToolInv, AnswersInv, OutcomeTrue
  <1>4. ASSUME \A t \in ToolUsers : toolAt[t] = "idle"
        PROVE  Cardinality(Unreaped) = gone
    <2>1. Calls(ForkedPCs) = {}
      BY <1>4 DEF Calls, ForkedPCs
    <2> QED BY <2>1, FS_EmptySet DEF ToolInv, ToolSetsOK, ChildrenInv
  <1>5. readFds \cup writeFds \subseteq leaked \cup {tool[t] : t \in ToolUsers}
    BY DEF ToolInv, PipesInv, Calls
  <1> QED BY <1>2, <1>3, <1>4, <1>5 DEF ToolsSound, AllWaitedFor, PipesClosed

\* The children of any number of threads: although wait(NULL) takes whichever
\* child has ended, and a child holds the pipes of others, no call reports what its
\* own tool has not done, no child is forgotten but for one that was taken in its
\* place, and no pipe stays open but where getFullUrlByFileid cannot fork.
THEOREM ToolsAreSound == ToolSpec => []ToolsSound
  <1>1. ToolInv /\ [ToolNext]_toolVars => ToolInv'
    <2> SUFFICES ASSUME ToolInv, [ToolNext]_toolVars PROVE ToolInv'
      OBVIOUS
    <2>1. ASSUME NEW t \in ToolUsers, ToolCall(t) PROVE ToolInv'
      BY <2>1, CallingKeeps DEF ToolCall, CallUpload, CallUrl, CallRemove
    <2>2. ASSUME NEW t \in ToolUsers, ToolStep(t) PROVE ToolInv'
      BY <2>2, PipeKeeps, UploadForkKeeps, UrlForkKeeps, RemoveForkKeeps, CloseKeeps,
         ReadKeeps, WaitPidKeeps, UrlWaitKeeps DEF ToolStep
    <2>3. ASSUME NEW k \in Tools, ToolWorks(k) \/ ToolEnds(k) PROVE ToolInv'
      BY <2>3, ToolWorksKeeps, ToolEndsKeeps
    <2>4. CASE UNCHANGED toolVars
      BY <2>4 DEF toolVars, ToolInv, ToolSetsOK, CallsInv, ChildrenInv, PipesInv,
                  AnswersInv, Calls, Unreaped
    <2> QED BY <2>1, <2>2, <2>3, <2>4 DEF ToolNext
  <1> QED BY <1>1, ToolInitRight, ToolsSoundFollows, PTL DEF ToolSpec


-----------------------------------------------------------------------------
(* The timers *)

\* Every set of numbers that is not empty has a least one.
LEMMA NatLess == IsWellFoundedOn({ss \in Nat \X Nat : ss[1] < ss[2]}, Nat)
  BY NatLessThanWellFounded DEF OpToRel

LEMMA MinIs ==
    ASSUME NEW T, T \subseteq Nat, T # {}
    PROVE  Min(T) \in T /\ \A y \in T : Min(T) <= y
  <1> DEFINE R == {ss \in Nat \X Nat : ss[1] < ss[2]}
  <1>1. IsWellFoundedOn(R, Nat)
    BY NatLess
  <1> HIDE DEF R
  <1>2. PICK x \in T : \A y \in T : ~ (<<y, x>> \in R)
    BY <1>1, WFMin
  <1>3. \A y \in T : ~ (y < x)
    BY <1>2 DEF R
  <1>4. \A y \in T : x <= y
    BY <1>3
  <1> QED BY <1>4 DEF Min

LEMMA MaxOfTwo ==
    ASSUME NEW x \in Int, NEW y \in Int
    PROVE  Max({x, y}) \in {x, y} /\ Max({x, y}) >= x /\ Max({x, y}) >= y
  <1>1. \E m \in {x, y} : \A z \in {x, y} : m >= z
    <2>1. CASE x >= y
      BY <2>1
    <2>2. CASE ~ (x >= y)
      BY <2>2
    <2> QED BY <2>1, <2>2
  <1> QED BY <1>1 DEF Max

\* The timerfd is armed for at least one unit.
LEMMA ArmedIs ==
    ASSUME NEW when \in Nat, clock \in Nat, ResetTimerfd(when)
    PROVE  left' \in Nat /\ left' > 0 /\ rung' = FALSE
  <1>1. /\ Max({when - clock, 1}) \in {when - clock, 1} /\ Max({when - clock, 1}) >= 1
    BY MaxOfTwo
  <1>2. left' = Max({when - clock, 1}) /\ rung' = FALSE
    BY DEF ResetTimerfd, HowMuchTimeFromNow
  <1> HIDE DEF Max
  <1>3. Max({when - clock, 1}) \in Int
    BY <1>1
  <1> QED BY <1>1, <1>2, <1>3

LEMMA EntriesOf ==
    ASSUME TimerSetsOK, IdsInv, PlacesInv, TimersAlive
    PROVE  /\ timers \subseteq (Nat \ {0}) \X Addresses
           /\ \A e \in timers : ActiveAt(e[2]) /\ e = <<timer[e[2]].when, e[2]>>
           /\ \A id \in activeTimers : <<timer[id[1]].when, id[1]>> \in timers
           /\ \A a \in Addresses : ActiveAt(a) => <<a, timer[a].seq>> \in activeTimers /\ ~ InRound(a)
  <1>1. \A id \in activeTimers : /\ id[1] \in Addresses /\ timer[id[1]].seq = id[2]
                                 /\ id = <<id[1], id[2]>> /\ id[2] # 0
    BY DEF TimerSetsOK, PlacesInv, TimersAlive
  <1>2. ASSUME NEW id \in activeTimers
        PROVE  timer[id[1]].when \in Nat \ {0}
    <2>1. id[1] \in Addresses /\ timer[id[1]].seq # 0
      BY <1>1
    <2>2. timer[id[1]].when \in Nat
      BY <2>1 DEF TimerSetsOK
    <2>3. timer[id[1]].when > 0
      BY ONLY <2>1, IdsInv DEF IdsInv
    <2> QED BY ONLY <2>2, <2>3
  <1>3. timers \subseteq (Nat \ {0}) \X Addresses
    BY <1>1, <1>2 DEF TimersAlive
  <1>4. \A e \in timers : ActiveAt(e[2]) /\ e = <<timer[e[2]].when, e[2]>>
    BY <1>1 DEF TimersAlive, ActiveAt
  <1>5. \A id \in activeTimers : <<timer[id[1]].when, id[1]>> \in timers
    BY DEF TimersAlive
  <1>6. \A a \in Addresses : ActiveAt(a) => <<a, timer[a].seq>> \in activeTimers /\ ~ InRound(a)
    <2>1. ASSUME NEW a \in Addresses, ActiveAt(a)
          PROVE  <<a, timer[a].seq>> \in activeTimers /\ ~ InRound(a)
      <3>1. PICK id \in activeTimers : id[1] = a
        BY <2>1 DEF ActiveAt
      <3>2. <<a, timer[a].seq>> \in activeTimers
        BY <1>1, <3>1
      <3>3. <<timer[a].when, a>> \in timers
        BY <1>5, <3>1
      <3>4. \E e \in timers : e[2] = a
        BY <3>3
      <3> QED BY <3>2, <3>4 DEF TimersAlive, InRound
    <2> QED BY <2>1
  <1> QED BY <1>3, <1>4, <1>5, <1>6

\* addTimerInLoop leaves the timerfd armed if it was, or if there was no timer.
LEMMA ArmsForNew ==
    ASSUME TimerInv, NEW a, NEW when \in Nat \ {0}, NEW seq, AddTimerInLoop(a, when, seq)
    PROVE  left' \in Nat /\ rung' \in BOOLEAN /\ (loop = "poll" => left' > 0 \/ rung')
  <1>1. clock \in Nat /\ left \in Nat /\ rung \in BOOLEAN /\ (loop = "poll" /\ timers # {} => left > 0 \/ rung)
    BY DEF TimerInv, TimerSetsOK, TimersSound, AlarmSet
  <1>2. CASE timers = {} \/ when < Earliest(timers)
    <2>1. ResetTimerfd(when)
      BY <1>2 DEF AddTimerInLoop
    <2> QED BY <1>1, <2>1, ArmedIs
  <1>3. CASE ~ (timers = {} \/ when < Earliest(timers))
    <2>1. timers # {} /\ left' = left /\ rung' = rung
      BY <1>3 DEF AddTimerInLoop, KeepTimerfd
    <2> QED BY <1>1, <2>1
  <1> QED BY <1>2, <1>3

\* A new Timer is at an address nobody points to, under a number nobody has.
LEMMA NewTimerIs ==
    ASSUME TimerInv, NEW a \in Addresses, NEW when \in Nat \ {0}, NEW interval \in Nat,
           NewTimer(a, when, interval)
    PROVE  /\ ~ ActiveAt(a) /\ ~ InRound(a) /\ ~ QueuedAt(a)
           /\ created \in Nat /\ created' = created + 1
           /\ timer' \in [Addresses -> [seq : Nat, when : Nat, interval : Nat]]
           /\ timer'[a] = [seq |-> created + 1, when |-> when, interval |-> interval]
           /\ \A b \in Addresses : b # a => timer'[b] = timer[b]
           /\ issued' \in Seq([at : Addresses, interval : Nat]) /\ Len(issued') = created'
           /\ \A s \in 1..created : s \in 1..created' /\ issued'[s] = issued[s]
           /\ created' \in 1..created' /\ issued'[created'] = [at |-> a, interval |-> interval]
           /\ IdsInv'
  <1>1. /\ timer[a] = NoTimer /\ created' = created + 1
        /\ timer' = [timer EXCEPT ![a] = [seq |-> created', when |-> when, interval |-> interval]]
        /\ issued' = Append(issued, [at |-> a, interval |-> interval])
    BY DEF NewTimer
  <1>2. /\ created \in Nat /\ Len(issued) = created
        /\ timer \in [Addresses -> [seq : Nat, when : Nat, interval : Nat]]
        /\ issued \in Seq([at : Addresses, interval : Nat])
    BY DEF TimerInv, TimerSetsOK
  <1>3. timer[a].seq = 0
    BY <1>1 DEF NoTimer
  <1>4. ~ ActiveAt(a) /\ ~ InRound(a) /\ ~ QueuedAt(a)
    <2>1. ~ ActiveAt(a)
      BY <1>3 DEF TimerInv, TimersSound, TimersAlive, PlacesInv, ActiveAt
    <2>2. ~ InRound(a)
      BY <1>3 DEF TimerInv, TimersSound, TimersAlive, InRound
    <2>3. \A i \in DOMAIN functors : functors[i][3] # 0
      BY <1>2 DEF TimerInv, PlacesInv
    <2>4. ~ QueuedAt(a)
      BY <1>3, <2>3 DEF TimerInv, PlacesInv, QueuedAt
    <2> QED BY <2>1, <2>2, <2>4
  <1>5. [seq |-> created', when |-> when, interval |-> interval] \in [seq : Nat, when : Nat, interval : Nat]
    BY ONLY <1>1, <1>2, when \in Nat \ {0}, interval \in Nat
  <1>6. timer' \in [Addresses -> [seq : Nat, when : Nat, interval : Nat]]
    BY ONLY <1>1, <1>2, <1>5
  <1>7. timer'[a] = [seq |-> created + 1, when |-> when, interval |-> interval]
    BY ONLY <1>1, <1>2, a \in Addresses
  <1>8. \A b \in Addresses : b # a => timer'[b] = timer[b]
    BY ONLY <1>1, <1>2
  <1>9. [at |-> a, interval |-> interval] \in [at : Addresses, interval : Nat]
    BY ONLY a \in Addresses, interval \in Nat
  <1>10. issued' \in Seq([at : Addresses, interval : Nat]) /\ Len(issued') = created'
    BY ONLY <1>1, <1>2, <1>9, AppendProperties
  <1>11. \A s \in 1..created : s \in 1..created' /\ issued'[s] = issued[s]
    BY ONLY <1>1, <1>2, <1>9, AppendProperties
  <1>12. created' \in 1..created' /\ issued'[created'] = [at |-> a, interval |-> interval]
    BY ONLY <1>1, <1>2, <1>9, AppendProperties
  <1>13. IdsInv'
    <2> SUFFICES ASSUME NEW b \in Addresses, timer'[b].seq # 0
                 PROVE  /\ timer'[b].seq \in 1..created'
                        /\ issued'[timer'[b].seq] = [at |-> b, interval |-> timer'[b].interval]
                        /\ timer'[b].when > 0
      BY DEF IdsInv
    <2>1. CASE b = a
      <3>1. /\ timer'[b].seq = created' /\ timer'[b].when = when
            /\ timer'[b].interval = interval
        BY ONLY <2>1, <1>1, <1>7
      <3>2. created' \in 1..created' /\ when > 0
        BY ONLY <1>12, when \in Nat \ {0}
      <3>3. issued'[timer'[b].seq] = [at |-> b, interval |-> timer'[b].interval]
        BY ONLY <2>1, <1>12, <3>1
      <3> QED BY ONLY <3>1, <3>2, <3>3
    <2>2. CASE b # a
      <3>1. timer'[b] = timer[b]
        BY ONLY <2>2, <1>8, b \in Addresses
      <3>2. /\ timer[b].seq \in 1..created
            /\ issued[timer[b].seq] = [at |-> b, interval |-> timer[b].interval]
            /\ timer[b].when > 0
        BY ONLY <3>1, TimerInv, b \in Addresses, timer'[b].seq # 0 DEF TimerInv, IdsInv
      <3> QED BY ONLY <3>1, <3>2, <1>11
    <2> QED BY <2>1, <2>2
  <1> QED BY <1>1, <1>2, <1>4, <1>6, <1>7, <1>8, <1>10, <1>11, <1>12, <1>13

\* What the other components of the invariant say of addresses other than a is kept,
\* where only the Timer at a is new.
LEMMA NewTimerKeeps ==
    ASSUME TimerInv, NEW a \in Addresses, NEW when \in Nat \ {0}, NEW interval \in Nat,
           NewTimer(a, when, interval), UNCHANGED <<batchVars, history, cancelingTimers, loop>>
    PROVE  RoundInv' /\ \A b \in Addresses : /\ InRound(b) => timer'[b] = timer[b]
                                             /\ InRound(b)' <=> InRound(b)
  <1>1. /\ ~ InRound(a) /\ \A b \in Addresses : b # a => timer'[b] = timer[b]
        /\ UNCHANGED <<batch, finished, now, loop, hasRun>>
    BY NewTimerIs DEF batchVars, history
  <1>2. \A b \in Addresses : InRound(b) => timer'[b] = timer[b]
    BY <1>1
  <1>3. \A b : (InBatch(b)' <=> InBatch(b)) /\ (Finished(b)' <=> Finished(b))
    BY <1>1 DEF InBatch, Finished
  <1>4. loop = "callback" => batch # <<>> /\ Head(batch)[2] \in Addresses /\ InRound(Head(batch)[2])
    <2>1. ASSUME loop = "callback"
          PROVE  batch # <<>> /\ Head(batch)[2] \in Addresses /\ InRound(Head(batch)[2])
      <3>1. batch # <<>> /\ batch \in Seq(Nat \X Addresses)
        BY <2>1 DEF TimerInv, RoundInv, TimerSetsOK
      <3>2. 1 \in DOMAIN batch /\ Head(batch) = batch[1] /\ batch[1] \in Nat \X Addresses
        BY <3>1, EmptySeq
      <3> QED BY <3>1, <3>2 DEF InRound, InBatch
    <2> QED BY <2>1
  <1>5. RoundInv'
    <2>1. \A i, j \in DOMAIN batch : batch[i][2] = batch[j][2] => i = j
      BY DEF TimerInv, RoundInv
    <2>2. \A b \in Addresses : Finished(b) => timer'[b].seq \in hasRun
      BY <1>2 DEF TimerInv, RoundInv, InRound
    <2>3. loop = "callback" => timer'[Head(batch)[2]].seq \in hasRun
      BY <1>2, <1>4 DEF TimerInv, RoundInv
    <2>4. /\ loop \in {"poll", "active"} => batch = <<>> /\ finished = <<>>
          /\ loop \in {"calling", "callback"} => now > 0
          /\ \A b \in Addresses : InBatch(b) => ~ Finished(b)
      BY DEF TimerInv, RoundInv
    <2> QED BY <1>1, <1>3, <1>4, <2>1, <2>2, <2>3, <2>4 DEF RoundInv
  <1> QED BY <1>2, <1>3, <1>5 DEF InRound

LEMMA IssuedIs ==
    ASSUME TimerSetsOK
    PROVE  \A s \in 1..created : issued[s].at \in Addresses /\ issued[s].interval \in Nat
  <1>1. issued \in Seq([at : Addresses, interval : Nat]) /\ Len(issued) = created
    BY DEF TimerSetsOK
  <1>2. ASSUME NEW s \in 1..created
        PROVE  issued[s].at \in Addresses /\ issued[s].interval \in Nat
    <2>1. issued[s] \in [at : Addresses, interval : Nat]
      BY ONLY <1>1, s \in 1..created, ElementOfSeq
    <2> QED BY ONLY <2>1
  <1> QED BY <1>2

\* With a new Timer in the queue or queued for it, every Timer is kept as before.
LEMMA NewTimerKept ==
    ASSUME TimerInv, NEW a \in Addresses, NEW when \in Nat \ {0}, NEW interval \in Nat,
           NewTimer(a, when, interval), UNCHANGED <<batchVars, history, cancelingTimers, loop>>,
           NEW n, n = created + 1, Queued(n)' \/ Active(n)',
           \A s \in 1..created : Queued(s) \/ Active(s) => Queued(s)' \/ Active(s)'
    PROVE  TimerKept'
  <1>1. /\ created \in Nat /\ created' = created + 1
        /\ \A s \in 1..created : s \in 1..created' /\ issued'[s] = issued[s] /\ issued[s].at \in Addresses
        /\ \A b \in Addresses : InRound(b) => timer'[b] = timer[b]
        /\ \A b \in Addresses : InRound(b)' <=> InRound(b)
        /\ UNCHANGED <<hasRun, cancelled>>
    <2>1. \A s \in 1..created : issued[s].at \in Addresses
      BY IssuedIs DEF TimerInv
    <2> QED BY <2>1, NewTimerIs, NewTimerKeeps DEF history
  <1>2. ASSUME NEW s \in 1..created'
        PROVE  \/ Queued(s)' \/ Active(s)'
               \/ (timer[issued[s].at].seq)' = s /\ InRound(issued[s].at)'
               \/ s \in cancelled' \/ (s \in hasRun' /\ issued'[s].interval = 0)
    <2>1. CASE s = n
      BY <2>1
    <2>2. CASE s # n
      <3>1. s \in 1..created
        BY ONLY <1>1, <2>2, s \in 1..created', n = created + 1
      <3>2. \/ Queued(s) \/ Active(s)
            \/ timer[issued[s].at].seq = s /\ InRound(issued[s].at)
            \/ s \in cancelled \/ (s \in hasRun /\ issued[s].interval = 0)
        BY <3>1 DEF TimerInv, TimersSound, TimerKept, InRound
      <3>3. CASE Queued(s) \/ Active(s)
        BY <3>1, <3>3
      <3>4. CASE timer[issued[s].at].seq = s /\ InRound(issued[s].at)
        <4>1. PICK b \in Addresses : b = issued[s].at
          BY <1>1, <3>1
        <4>2. issued'[s].at = b /\ timer'[b] = timer[b] /\ InRound(b)'
          BY <1>1, <3>1, <3>4, <4>1
        <4>3. (issued[s].at)' = b
          BY <4>2
        <4> QED BY <3>4, <4>1, <4>2, <4>3
      <3>5. CASE s \in cancelled \/ (s \in hasRun /\ issued[s].interval = 0)
        BY ONLY <1>1, <3>1, <3>5
      <3> QED BY <3>2, <3>3, <3>4, <3>5
    <2> QED BY <2>1, <2>2
  <1>3. \A b : InRound(b)' <=> InBatch(b)' \/ Finished(b)'
    BY DEF InRound
  <1> QED BY <1>2, <1>3 DEF TimerKept

\* What has been cancelled stays out of the queue when a Timer with a new number is made.
LEMMA NewTimerCancels ==
    ASSUME TimerInv, NEW a \in Addresses, NEW when \in Nat \ {0}, NEW interval \in Nat,
           NewTimer(a, when, interval), UNCHANGED <<batchVars, history, cancelingTimers, loop>>,
           \A s : (Queued(s)' => Queued(s) \/ s = created + 1)
                  /\ (Active(s)' => Active(s) \/ s = created + 1)
    PROVE  CancelInv' /\ CancelHolds'
  <1>1. /\ created \in Nat /\ created' = created + 1
        /\ \A s \in 1..created : s \in 1..created'
        /\ \A b \in Addresses : InRound(b) => timer'[b] = timer[b]
        /\ \A b \in Addresses : InRound(b)' <=> InRound(b)
        /\ UNCHANGED <<cancelled, cancelingTimers>>
    BY NewTimerIs, NewTimerKeeps DEF history
  <1>2. cancelled \subseteq 1..created /\ created + 1 \notin cancelled
    BY <1>1 DEF TimerInv, CancelInv
  <1>3. \A s \in cancelled : ~ Queued(s)' /\ ~ Active(s)'
    BY <1>2 DEF TimerInv, TimersSound, CancelHolds, CancelInv
  <1>4. \A b \in Addresses : InRound(b)' =>
            (timer'[b].seq \in cancelled <=> <<b, timer'[b].seq>> \in cancelingTimers)
    BY <1>1 DEF TimerInv, CancelInv
  <1>5. CancelInv'
    BY <1>1, <1>2, <1>3, <1>4 DEF CancelInv
  <1> QED BY <1>1, <1>3, <1>5 DEF CancelHolds

LEMMA AddTimerKeeps ==
    ASSUME TimerInv, NEW a \in Addresses, NEW d \in Delays, NEW interval \in Intervals,
           AddTimer(a, d, interval)
    PROVE  TimerInv'
  <1>0. clock + d \in Nat \ {0} /\ interval \in Nat /\ clock \in Nat
    <2>1. clock \in Nat \ {0} /\ d \in Nat /\ interval \in Nat
      BY TimerAssumption DEF TimerInv, TimerSetsOK
    <2> QED BY ONLY <2>1
  <1>1. /\ NewTimer(a, clock + d, interval) /\ AddTimerInLoop(a, clock + d, created')
        /\ UNCHANGED <<callingExpired, batchVars, loop, functors, timeVars, history, cancelingTimers>>
    BY DEF AddTimer, AddTimerInLoop
  <1>2. /\ ~ ActiveAt(a) /\ ~ InRound(a) /\ ~ QueuedAt(a)
        /\ created \in Nat /\ created' = created + 1
        /\ timer' \in [Addresses -> [seq : Nat, when : Nat, interval : Nat]]
        /\ timer'[a] = [seq |-> created + 1, when |-> clock + d, interval |-> interval]
        /\ \A b \in Addresses : b # a => timer'[b] = timer[b]
        /\ issued' \in Seq([at : Addresses, interval : Nat]) /\ Len(issued') = created'
        /\ \A s \in 1..created : s \in 1..created' /\ issued'[s] = issued[s]
        /\ IdsInv'
    BY <1>0, <1>1, NewTimerIs
  <1>3. /\ timers' = timers \cup {<<clock + d, a>>} /\ activeTimers' = activeTimers \cup {<<a, created + 1>>}
    BY <1>1, <1>2 DEF AddTimerInLoop
  <1>4. /\ timers \subseteq (Nat \ {0}) \X Addresses
        /\ \A id \in activeTimers : id \in Addresses \X Nat /\ id[1] # a /\ timer'[id[1]] = timer[id[1]]
    BY <1>2, EntriesOf DEF TimerInv, TimersSound, TimerSetsOK, ActiveAt
  <1>5. /\ left' \in Nat /\ rung' \in BOOLEAN /\ (loop' = "poll" => left' > 0 \/ rung')
    BY <1>0, <1>1, ArmsForNew
  <1>6. /\ RoundInv' /\ \A b \in Addresses : InRound(b) => timer'[b] = timer[b]
        /\ \A b \in Addresses : InRound(b)' <=> InRound(b)
    BY <1>0, <1>1, NewTimerKeeps
  <1>7. UNCHANGED <<batch, finished, now, loop, functors, callingExpired, clock, setBack>>
    BY <1>1 DEF batchVars, timeVars
  <1>8. TimerSetsOK'
    <2>1. activeTimers' \subseteq Addresses \X Nat
      <3>1. <<a, created + 1>> \in Addresses \X Nat
        BY ONLY <1>2, a \in Addresses
      <3> QED BY ONLY <1>3, <1>4, <3>1
    <2>2. /\ batch' \in Seq(Nat \X Addresses) /\ finished' \in Seq(Nat \X Addresses)
          /\ functors' \in Seq({"add", "cancel"} \X Addresses \X Nat)
          /\ loop' \in {"poll", "active", "calling", "callback"}
          /\ callingExpired' \in BOOLEAN /\ (callingExpired' <=> loop' \in {"calling", "callback"})
          /\ clock' \in Nat \ {0} /\ now' \in Nat
      BY <1>7 DEF TimerInv, TimerSetsOK
    <2>3. created' \in Nat
      BY ONLY <1>2
    <2> QED BY ONLY <1>2, <1>5, <2>1, <2>2, <2>3 DEF TimerSetsOK
  <1>9. \A b \in Addresses : b # a => (ActiveAt(b)' <=> ActiveAt(b))
    BY ONLY <1>3 DEF ActiveAt
  <1>10. PlacesInv'
    <2>1. ASSUME NEW i \in DOMAIN functors
          PROVE  /\ functors[i][3] \in 1..created' /\ issued'[functors[i][3]].at = functors[i][2]
                 /\ functors[i][1] = "add" =>
                      \E b \in Addresses :
                         /\ b = functors[i][2] /\ timer'[b].seq = functors[i][3]
                         /\ ~ ActiveAt(b)' /\ ~ InRound(b)'
                         /\ \A j \in DOMAIN functors :
                               functors[j][1] = "add" /\ functors[j][2] = b => i = j
      <3>1. functors[i] \in {"add", "cancel"} \X Addresses \X Nat
        BY ElementOfSeq DEF TimerInv, TimerSetsOK
      <3>2. PICK b \in Addresses : b = functors[i][2]
        BY ONLY <3>1
      <3>3. /\ functors[i][3] \in 1..created /\ issued[functors[i][3]].at = b
            /\ functors[i][1] = "add" =>
                 /\ timer[b].seq = functors[i][3]
                 /\ ~ ActiveAt(b) /\ ~ InRound(b)
                 /\ \A j \in DOMAIN functors :
                       functors[j][1] = "add" /\ functors[j][2] = b => i = j
        BY ONLY TimerInv, i \in DOMAIN functors, <3>2 DEF TimerInv, PlacesInv
      <3>4. functors[i][1] = "add" => b # a
        BY <1>2, <3>2 DEF QueuedAt
      <3>5. functors[i][3] \in 1..created' /\ issued'[functors[i][3]].at = functors[i][2]
        BY ONLY <1>2, <3>2, <3>3
      <3> QED BY ONLY <1>2, <1>6, <1>9, <3>2, <3>3, <3>4, <3>5
    <2>2. \A id \in activeTimers' : id[2] # 0
      <3>1. \A id \in activeTimers : id[2] # 0
        BY DEF TimerInv, PlacesInv
      <3> QED BY ONLY <1>2, <1>3, <3>1
    <2>3. ASSUME NEW i \in DOMAIN functors'
          PROVE  (/\ functors[i][3] \in 1..created /\ issued[functors[i][3]].at = functors[i][2]
                  /\ functors[i][1] = "add" =>
                       /\ timer[functors[i][2]].seq = functors[i][3]
                       /\ ~ ActiveAt(functors[i][2]) /\ ~ InRound(functors[i][2])
                       /\ \A j \in DOMAIN functors :
                             functors[j][1] = "add" /\ functors[j][2] = functors[i][2] => i = j)'
      <3>1. functors' = functors /\ i \in DOMAIN functors
        BY <1>7
      <3> QED BY <2>1, <3>1
    <2> QED BY <2>2, <2>3 DEF PlacesInv
  <1>11. PICK n : n = created + 1
    OBVIOUS
  <1>12. \A s : (Active(s)' <=> Active(s) \/ s = n) /\ (Queued(s)' <=> Queued(s))
    <2>1. ASSUME NEW s
          PROVE  Active(s)' <=> Active(s) \/ s = n
      <3>1. Active(s)' <=> \E id \in activeTimers \cup {<<a, n>>} : id[2] = s
        BY ONLY <1>3, <1>11 DEF Active
      <3>2. <<a, n>>[2] = n
        OBVIOUS
      <3> QED BY ONLY <3>1, <3>2 DEF Active
    <2>2. \A s : Queued(s)' <=> Queued(s)
      BY <1>7 DEF Queued
    <2> QED BY <2>1, <2>2
  <1>13. TimerKept'
    BY <1>0, <1>1, <1>11, <1>12, NewTimerKept
  <1>14. CancelInv' /\ CancelHolds'
    BY <1>0, <1>1, <1>11, <1>12, NewTimerCancels
  <1>15. TimersAlive'
    <2>0. /\ timers = {<<timer[id[1]].when, id[1]>> : id \in activeTimers}
          /\ \A id \in activeTimers : timer[id[1]].seq = id[2]
          /\ \A b \in Addresses : InRound(b) => timer[b].seq > 0 /\ \A e \in timers : e[2] # b
      BY DEF TimerInv, TimersSound, TimersAlive, InRound
    <2>1. timers' = {<<timer'[id[1]].when, id[1]>> : id \in activeTimers'}
      <3>1. timers = {<<timer'[id[1]].when, id[1]>> : id \in activeTimers}
        BY ONLY <1>4, <2>0
      <3>2. <<clock + d, a>> = <<timer'[a].when, a>>
        BY ONLY <1>2
      <3>3. <<a, created + 1>>[1] = a
        OBVIOUS
      <3> DEFINE entry(id) == <<timer'[id[1]].when, id[1]>>
      <3>4. {entry(id) : id \in activeTimers'} = {entry(id) : id \in activeTimers} \cup {entry(<<a, created + 1>>)}
        BY ONLY <1>3
      <3>5. entry(<<a, created + 1>>) = <<clock + d, a>>
        BY ONLY <3>2, <3>3
      <3> QED BY ONLY <1>3, <3>1, <3>4, <3>5
    <2>2. ASSUME NEW id \in activeTimers'
          PROVE  timer'[id[1]].seq = id[2]
      <3>1. CASE id \in activeTimers
        BY ONLY <1>4, <2>0, <3>1
      <3>2. CASE id = <<a, created + 1>>
        <4>1. id[1] = a /\ id[2] = created + 1
          BY ONLY <3>2
        <4> QED BY ONLY <1>2, <4>1
      <3> QED BY ONLY <1>3, <2>2, <3>1, <3>2
    <2>3. ASSUME NEW b \in Addresses, InRound(b)
          PROVE  timer'[b].seq > 0 /\ \A e \in timers' : e[2] # b
      <3>1. timer'[b] = timer[b] /\ b # a
        BY <1>2, <1>6, <2>3
      <3> QED BY ONLY <1>3, <2>0, <2>3, <3>1, b \in Addresses
    <2>4. \A b : InRound(b)' <=> InBatch(b)' \/ Finished(b)'
      BY DEF InRound
    <2> QED BY ONLY <1>6, <2>1, <2>2, <2>3, <2>4 DEF TimersAlive
  <1>16. AlarmSet'
    BY <1>5 DEF AlarmSet
  <1> QED BY <1>2, <1>6, <1>8, <1>10, <1>13, <1>14, <1>15, <1>16 DEF TimerInv, TimersSound

\* queueInLoop: one functor more, at the end.
LEMMA FunctorQueued ==
    ASSUME TimerSetsOK, NEW f \in {"add", "cancel"} \X Addresses \X Nat, functors' = Append(functors, f)
    PROVE  /\ functors' \in Seq({"add", "cancel"} \X Addresses \X Nat)
           /\ Len(functors) \in Nat /\ DOMAIN functors = 1..Len(functors)
           /\ DOMAIN functors' = 1..(Len(functors) + 1)
           /\ \A i \in DOMAIN functors : functors'[i] = functors[i] /\ i # Len(functors) + 1
           /\ functors'[Len(functors) + 1] = f
           /\ \A s : Queued(s)' <=> Queued(s) \/ (f[1] = "add" /\ f[3] = s)
  <1>1. functors \in Seq({"add", "cancel"} \X Addresses \X Nat)
    BY DEF TimerSetsOK
  <1>2. /\ Len(functors) \in Nat /\ DOMAIN functors = 1..Len(functors)
        /\ functors' \in Seq({"add", "cancel"} \X Addresses \X Nat)
        /\ Len(functors') = Len(functors) + 1
        /\ functors'[Len(functors) + 1] = f
    BY ONLY <1>1, functors' = Append(functors, f), f \in {"add", "cancel"} \X Addresses \X Nat,
            AppendProperties, LenProperties
  <1>3. DOMAIN functors' = 1..(Len(functors) + 1)
    BY ONLY <1>2, LenProperties
  <1>4. \A i \in DOMAIN functors : functors'[i] = functors[i] /\ i # Len(functors) + 1
    BY ONLY <1>1, <1>2, functors' = Append(functors, f), f \in {"add", "cancel"} \X Addresses \X Nat,
            AppendProperties
  <1>5. \A i \in DOMAIN functors' : i \in DOMAIN functors \/ i = Len(functors) + 1
    BY ONLY <1>2, <1>3
  <1>6. Len(functors) + 1 \in DOMAIN functors' /\ \A i \in DOMAIN functors : i \in DOMAIN functors'
    BY ONLY <1>2, <1>3
  <1>7. \A s : Queued(s)' <=> Queued(s) \/ (f[1] = "add" /\ f[3] = s)
    <2> SUFFICES ASSUME NEW s
                 PROVE  Queued(s)' <=> Queued(s) \/ (f[1] = "add" /\ f[3] = s)
      OBVIOUS
    <2>1. Queued(s)' <=> \E i \in DOMAIN functors' : functors'[i][1] = "add" /\ functors'[i][3] = s
      BY DEF Queued
    <2>2. Queued(s) <=> \E i \in DOMAIN functors : functors[i][1] = "add" /\ functors[i][3] = s
      BY DEF Queued
    <2> QED BY ONLY <1>2, <1>4, <1>5, <1>6, <2>1, <2>2
  <1> QED BY <1>2, <1>3, <1>4, <1>7

\* What PlacesInv says of one functor f.
Placed(f) ==
    /\ f[3] \in 1..created /\ issued[f[3]].at = f[2]
    /\ f[1] = "add" => timer[f[2]].seq = f[3] /\ ~ ActiveAt(f[2]) /\ ~ InRound(f[2])

LEMMA PlacesAre ==
    PlacesInv <=> /\ \A i \in DOMAIN functors : Placed(functors[i])
                  /\ \A i, j \in DOMAIN functors :
                        functors[i][1] = "add" /\ functors[j][1] = "add" /\ functors[j][2] = functors[i][2] => i = j
                  /\ \A id \in activeTimers : id[2] # 0
  BY DEF PlacesInv, Placed

\* A new functor leaves the others in their places.
LEMMA QueuedKeeps ==
    ASSUME TimerInv, NEW f \in {"add", "cancel"} \X Addresses \X Nat, functors' = Append(functors, f),
           \A g \in {"add", "cancel"} \X Addresses \X Nat : Placed(g) /\ (g[1] = "add" => g[2] # f[2] \/ f[1] = "cancel")
                                                            => Placed(g)',
           Placed(f)', f[1] = "add" => ~ QueuedAt(f[2]), UNCHANGED activeTimers
    PROVE  PlacesInv'
  <1>1. /\ DOMAIN functors' = 1..(Len(functors) + 1)
        /\ Len(functors) \in Nat /\ DOMAIN functors = 1..Len(functors)
        /\ \A i \in DOMAIN functors : functors'[i] = functors[i]
        /\ functors'[Len(functors) + 1] = f
    BY FunctorQueued DEF TimerInv
  <1>2. \A i \in DOMAIN functors : functors[i] \in {"add", "cancel"} \X Addresses \X Nat
    BY ElementOfSeq DEF TimerInv, TimerSetsOK
  <1>3. /\ \A i \in DOMAIN functors : Placed(functors[i])
        /\ \A i, j \in DOMAIN functors :
              functors[i][1] = "add" /\ functors[j][1] = "add" /\ functors[j][2] = functors[i][2] => i = j
        /\ \A id \in activeTimers : id[2] # 0
    BY PlacesAre DEF TimerInv
  <1>4. \A i \in DOMAIN functors : functors[i][1] = "add" /\ f[1] = "add" => functors[i][2] # f[2]
    BY DEF QueuedAt
  <1>5. f[1] \in {"add", "cancel"}
    OBVIOUS
  <1>6. ASSUME NEW g, NEW i \in DOMAIN functors, g = functors[i] PROVE Placed(g)'
    BY <1>2, <1>3, <1>4, <1>5, <1>6
  <1>7. ASSUME NEW i \in DOMAIN functors' PROVE Placed(functors[i])'
    <2>1. PICK g : g = functors'[i]
      OBVIOUS
    <2>2. Placed(g)'
      <3>1. i \in DOMAIN functors \/ i = Len(functors) + 1
        BY ONLY <1>1, <1>7
      <3>2. CASE i \in DOMAIN functors
        BY <1>1, <1>6, <2>1, <3>2
      <3>3. CASE i = Len(functors) + 1
        BY <1>1, <2>1, <3>3
      <3> QED BY <3>1, <3>2, <3>3
    <2> QED BY <2>1, <2>2
  <1>8. \A i, j \in DOMAIN functors' :
            functors'[i][1] = "add" /\ functors'[j][1] = "add" /\ functors'[j][2] = functors'[i][2] => i = j
    <2>1. \A i \in DOMAIN functors' : i \in DOMAIN functors \/ i = Len(functors) + 1
      BY ONLY <1>1
    <2> QED BY ONLY <1>1, <1>3, <1>4, <2>1
  <1>9. (PlacesInv <=> /\ \A i \in DOMAIN functors : Placed(functors[i])
                       /\ \A i, j \in DOMAIN functors :
                             functors[i][1] = "add" /\ functors[j][1] = "add" /\ functors[j][2] = functors[i][2] => i = j
                       /\ \A id \in activeTimers : id[2] # 0)'
    BY PlacesAre, PTL
  <1> QED BY <1>3, <1>7, <1>8, <1>9

LEMMA AddFromOtherKeeps ==
    ASSUME TimerInv, NEW a \in Addresses, NEW d \in Delays, NEW interval \in Intervals,
           AddTimerFromOther(a, d, interval)
    PROVE  TimerInv'
  <1>0. clock + d \in Nat \ {0} /\ interval \in Nat /\ clock \in Nat
    <2>1. clock \in Nat \ {0} /\ d \in Nat /\ interval \in Nat
      BY TimerAssumption DEF TimerInv, TimerSetsOK
    <2> QED BY ONLY <2>1
  <1>1. /\ NewTimer(a, clock + d, interval) /\ functors' = Append(functors, <<"add", a, created'>>)
        /\ UNCHANGED <<queueVars, callingExpired, batchVars, loop, timeVars, left, rung, history, cancelingTimers>>
    BY DEF AddTimerFromOther, queueVars
  <1>2. /\ ~ ActiveAt(a) /\ ~ InRound(a) /\ ~ QueuedAt(a)
        /\ created \in Nat /\ created' = created + 1
        /\ timer' \in [Addresses -> [seq : Nat, when : Nat, interval : Nat]]
        /\ timer'[a] = [seq |-> created + 1, when |-> clock + d, interval |-> interval]
        /\ \A b \in Addresses : b # a => timer'[b] = timer[b]
        /\ issued' \in Seq([at : Addresses, interval : Nat]) /\ Len(issued') = created'
        /\ \A s \in 1..created : s \in 1..created' /\ issued'[s] = issued[s]
        /\ created' \in 1..created' /\ issued'[created'] = [at |-> a, interval |-> interval]
        /\ IdsInv'
    BY <1>0, <1>1, NewTimerIs
  <1>3. UNCHANGED <<timers, activeTimers, batch, finished, now, loop, callingExpired, clock, setBack, left, rung>>
    BY <1>1 DEF batchVars, timeVars, queueVars
  <1>4. PICK f \in {"add", "cancel"} \X Addresses \X Nat : f = <<"add", a, created + 1>>
    <2>1. <<"add", a, created + 1>> \in {"add", "cancel"} \X Addresses \X Nat
      BY ONLY <1>2, a \in Addresses
    <2> QED BY <2>1
  <1>5. /\ functors' \in Seq({"add", "cancel"} \X Addresses \X Nat)
        /\ \A s : Queued(s)' <=> Queued(s) \/ (f[1] = "add" /\ f[3] = s)
    BY <1>1, <1>2, <1>4, FunctorQueued DEF TimerInv
  <1>6. /\ RoundInv' /\ \A b \in Addresses : InRound(b) => timer'[b] = timer[b]
        /\ \A b \in Addresses : InRound(b)' <=> InRound(b)
    BY <1>0, <1>1, NewTimerKeeps
  <1>7. TimerSetsOK'
    <2>1. /\ batch' \in Seq(Nat \X Addresses) /\ finished' \in Seq(Nat \X Addresses)
          /\ activeTimers' \subseteq Addresses \X Nat
          /\ loop' \in {"poll", "active", "calling", "callback"}
          /\ callingExpired' \in BOOLEAN /\ (callingExpired' <=> loop' \in {"calling", "callback"})
          /\ clock' \in Nat \ {0} /\ now' \in Nat /\ left' \in Nat /\ rung' \in BOOLEAN
      BY <1>3 DEF TimerInv, TimerSetsOK
    <2>2. created' \in Nat
      BY ONLY <1>2
    <2> QED BY ONLY <1>2, <1>5, <2>1, <2>2 DEF TimerSetsOK
  <1>8. \A b : ActiveAt(b)' <=> ActiveAt(b)
    BY <1>3 DEF ActiveAt
  <1>9. PlacesInv'
    <2>1. ASSUME NEW g \in {"add", "cancel"} \X Addresses \X Nat, Placed(g),
                 g[1] = "add" => g[2] # f[2] \/ f[1] = "cancel"
          PROVE  Placed(g)'
      <3>1. f[1] = "add" /\ f[2] = a
        BY ONLY <1>4
      <3>2. g[2] \in Addresses /\ (g[1] = "add" => g[2] # a)
        BY ONLY <2>1, <3>1
      <3>3. /\ g[3] \in 1..created /\ issued[g[3]].at = g[2]
            /\ g[1] = "add" => timer[g[2]].seq = g[3] /\ ~ ActiveAt(g[2]) /\ ~ InRound(g[2])
        BY <2>1 DEF Placed
      <3>4. g[3] \in 1..created' /\ issued'[g[3]].at = g[2]
        BY ONLY <1>2, <3>3
      <3>5. g[1] = "add" => timer'[g[2]].seq = g[3] /\ ~ ActiveAt(g[2])' /\ ~ InRound(g[2])'
        BY ONLY <1>2, <1>6, <1>8, <3>2, <3>3
      <3> QED BY <3>4, <3>5 DEF Placed
    <2>2. Placed(f)'
      <3>1. f[3] = created' /\ f[2] = a
        BY ONLY <1>2, <1>4
      <3>2. f[3] \in 1..created' /\ issued'[f[3]].at = f[2] /\ timer'[f[2]].seq = f[3]
        BY ONLY <1>2, <3>1
      <3>3. ~ ActiveAt(f[2])' /\ ~ InRound(f[2])'
        BY <1>2, <1>6, <1>8, <3>1
      <3> QED BY <3>2, <3>3 DEF Placed
    <2>3. f[1] = "add" => ~ QueuedAt(f[2])
      BY <1>2, <1>4
    <2>4. functors' = Append(functors, f) /\ UNCHANGED activeTimers
      BY ONLY <1>1, <1>2, <1>3, <1>4
    <2> QED BY <2>1, <2>2, <2>3, <2>4, QueuedKeeps
  <1>10. PICK n : n = created + 1
    OBVIOUS
  <1>11. \A s : (Active(s)' <=> Active(s)) /\ (Queued(s)' <=> Queued(s) \/ s = n)
    <2>1. \A s : Active(s)' <=> Active(s)
      BY <1>3 DEF Active
    <2>2. f[1] = "add" /\ f[3] = n
      BY ONLY <1>4, <1>10
    <2> QED BY <1>5, <2>1, <2>2
  <1>12. TimerKept'
    BY <1>0, <1>1, <1>10, <1>11, NewTimerKept
  <1>13. CancelInv' /\ CancelHolds'
    BY <1>0, <1>1, <1>10, <1>11, NewTimerCancels
  <1>14. TimersAlive'
    <2>0. /\ timers = {<<timer[id[1]].when, id[1]>> : id \in activeTimers}
          /\ \A id \in activeTimers : timer[id[1]].seq = id[2]
          /\ \A b \in Addresses : InRound(b) => timer[b].seq > 0 /\ \A e \in timers : e[2] # b
      BY DEF TimerInv, TimersSound, TimersAlive, InRound
    <2>1. \A id \in activeTimers : id \in Addresses \X Nat /\ timer'[id[1]] = timer[id[1]]
      BY <1>2 DEF ActiveAt, TimerInv, TimerSetsOK
    <2>2. \A b : InRound(b)' <=> InBatch(b)' \/ Finished(b)'
      BY DEF InRound
    <2> QED BY ONLY <1>3, <1>6, <2>0, <2>1, <2>2 DEF TimersAlive
  <1>15. AlarmSet'
    BY <1>3 DEF TimerInv, TimersSound, AlarmSet
  <1> QED BY <1>2, <1>6, <1>7, <1>9, <1>12, <1>13, <1>14, <1>15 DEF TimerInv, TimersSound

\* Where Timers, queue and batch stay as they are, so does what is said of them.
LEMMA QuietKeeps ==
    ASSUME TimerInv, UNCHANGED <<timer, timers, activeTimers, cancelingTimers, batch, finished,
                                 created, issued, cancelled>>
    PROVE  /\ IdsInv' /\ TimersAlive'
           /\ \A b : (InBatch(b)' <=> InBatch(b)) /\ (Finished(b)' <=> Finished(b)) /\ (InRound(b)' <=> InRound(b))
           /\ \A b : ActiveAt(b)' <=> ActiveAt(b)
           /\ \A s : Active(s)' <=> Active(s)
           /\ CancelHolds'
           /\ \A f : Placed(f)' <=> Placed(f)
           /\ hasRun \subseteq hasRun' /\ (\A s \in 1..created : Queued(s) => Queued(s)') => TimerKept'
           /\ (\A s \in 1..created : Queued(s)' => Queued(s)) => CancelInv'
  <1>1. IdsInv'
    BY DEF TimerInv, IdsInv
  <1>2. \A b : (InBatch(b)' <=> InBatch(b)) /\ (Finished(b)' <=> Finished(b)) /\ (InRound(b)' <=> InRound(b))
    BY DEF InBatch, Finished, InRound
  <1>3. (\A b : ActiveAt(b)' <=> ActiveAt(b)) /\ \A s : Active(s)' <=> Active(s)
    BY DEF Active, ActiveAt
  <1>4. TimersAlive'
    BY <1>2 DEF TimerInv, TimersSound, TimersAlive
  <1>5. CancelHolds'
    BY <1>3 DEF TimerInv, TimersSound, CancelHolds
  <1>6. \A f : Placed(f)' <=> Placed(f)
    BY <1>2, <1>3 DEF Placed
  <1>7. ASSUME hasRun \subseteq hasRun', \A s \in 1..created : Queued(s) => Queued(s)'
        PROVE  TimerKept'
    <2>1. \A s \in 1..created :
              \/ Queued(s) \/ Active(s)
              \/ timer[issued[s].at].seq = s /\ (InBatch(issued[s].at) \/ Finished(issued[s].at))
              \/ s \in cancelled \/ (s \in hasRun /\ issued[s].interval = 0)
      BY DEF TimerInv, TimersSound, TimerKept
    <2> QED BY <1>2, <1>3, <1>7, <2>1 DEF TimerKept
  <1>8. ASSUME \A s \in 1..created : Queued(s)' => Queued(s)
        PROVE  CancelInv'
    BY <1>2, <1>8 DEF TimerInv, CancelInv
  <1> QED BY <1>1, <1>2, <1>3, <1>4, <1>5, <1>6, <1>7, <1>8

LEMMA CancelFromOtherKeeps ==
    ASSUME TimerInv, NEW s \in 1..created, CancelFromOther(s)
    PROVE  TimerInv'
  <1>1. /\ functors' = Append(functors, <<"cancel", issued[s].at, s>>)
        /\ UNCHANGED <<timer, timers, activeTimers, cancelingTimers, callingExpired, batch, finished, now, loop,
                       clock, setBack, left, rung, created, issued, hasRun, cancelled>>
    BY DEF CancelFromOther, queueVars, batchVars, timeVars, history
  <1>2. issued[s].at \in Addresses /\ created \in Nat
    BY IssuedIs DEF TimerInv, TimerSetsOK
  <1>3. PICK f \in {"add", "cancel"} \X Addresses \X Nat : f = <<"cancel", issued[s].at, s>>
    <2>1. <<"cancel", issued[s].at, s>> \in {"add", "cancel"} \X Addresses \X Nat
      BY ONLY <1>2, s \in 1..created
    <2> QED BY <2>1
  <1>4. /\ functors' \in Seq({"add", "cancel"} \X Addresses \X Nat)
        /\ \A n : Queued(n)' <=> Queued(n)
    BY <1>1, <1>3, FunctorQueued DEF TimerInv
  <1>5. /\ IdsInv' /\ TimersAlive' /\ CancelHolds' /\ TimerKept' /\ CancelInv'
        /\ \A b : (InBatch(b)' <=> InBatch(b)) /\ (Finished(b)' <=> Finished(b))
        /\ \A g : Placed(g)' <=> Placed(g)
    BY <1>1, <1>4, QuietKeeps
  <1>6. PlacesInv'
    <2>1. Placed(f)
      BY <1>3 DEF Placed
    <2>2. f[1] # "add"
      BY ONLY <1>3
    <2> QED BY <1>1, <1>3, <1>5, <2>1, <2>2, QueuedKeeps
  <1>7. TimerSetsOK'
    BY <1>1, <1>4 DEF TimerInv, TimerSetsOK
  <1>8. RoundInv'
    BY <1>1, <1>5 DEF TimerInv, RoundInv
  <1>9. AlarmSet'
    BY <1>1 DEF TimerInv, TimersSound, AlarmSet
  <1> QED BY <1>5, <1>6, <1>7, <1>8, <1>9 DEF TimerInv, TimersSound

\* No functor is taken, or the first: the others move up.
FunctorsUsed == functors' = functors \/ (functors # <<>> /\ functors' = Tail(functors))

LEMMA FunctorsLeft ==
    ASSUME TimerSetsOK, FunctorsUsed
    PROVE  /\ functors' \in Seq({"add", "cancel"} \X Addresses \X Nat)
           /\ \E k \in {0, 1} : \A i \in DOMAIN functors' :
                 i \in Nat /\ i + k \in DOMAIN functors /\ functors'[i] = functors[i + k]
           /\ functors' # functors =>
                 /\ 1 \in DOMAIN functors /\ Head(functors) = functors[1]
                 /\ Head(functors) \in {"add", "cancel"} \X Addresses \X Nat
                 /\ \A i \in DOMAIN functors' : i \in Nat \ {0} /\ i + 1 \in DOMAIN functors /\ functors'[i] = functors[i + 1]
                 /\ \A s : Queued(s) <=> Queued(s)' \/ (Head(functors)[1] = "add" /\ Head(functors)[3] = s)
  <1>1. functors \in Seq({"add", "cancel"} \X Addresses \X Nat)
    BY DEF TimerSetsOK
  <1>2. CASE functors' = functors
    <2>1. \A i \in DOMAIN functors' : i \in Nat /\ i + 0 \in DOMAIN functors /\ functors'[i] = functors[i + 0]
      BY ONLY <1>1, <1>2, LenProperties
    <2> QED BY <1>1, <1>2, <2>1
  <1>3. CASE functors # <<>> /\ functors' = Tail(functors)
    <2>1. /\ Head(functors) \in {"add", "cancel"} \X Addresses \X Nat
          /\ Tail(functors) \in Seq({"add", "cancel"} \X Addresses \X Nat)
          /\ Len(Tail(functors)) = Len(functors) - 1 /\ Len(functors) \in Nat \ {0}
          /\ DOMAIN functors = 1..Len(functors) /\ Head(functors) = functors[1]
          /\ DOMAIN Tail(functors) = 1..Len(Tail(functors))
          /\ \A i \in 1..Len(Tail(functors)) : Tail(functors)[i] = functors[i + 1]
      BY ONLY <1>1, <1>3, HeadTailProperties, EmptySeq, LenProperties
    <2>2. 1 \in DOMAIN functors
      BY ONLY <2>1
    <2>3. \A i \in DOMAIN functors' : i \in Nat \ {0} /\ i + 1 \in DOMAIN functors /\ functors'[i] = functors[i + 1]
      BY ONLY <1>3, <2>1
    <2>4. \A i \in DOMAIN functors : i = 1 \/ (i - 1 \in DOMAIN functors' /\ functors'[i - 1] = functors[i])
      <3>1. \A i \in DOMAIN functors : i = 1 \/ (i - 1 \in DOMAIN Tail(functors) /\ (i - 1) + 1 = i)
        BY ONLY <2>1
      <3> QED BY ONLY <1>3, <2>1, <3>1
    <2>5. \A s : Queued(s) <=> Queued(s)' \/ (Head(functors)[1] = "add" /\ Head(functors)[3] = s)
      <3>1. \A s : Queued(s) <=> \E i \in DOMAIN functors : functors[i][1] = "add" /\ functors[i][3] = s
        BY DEF Queued
      <3>2. \A s : Queued(s)' <=> \E i \in DOMAIN functors' : functors'[i][1] = "add" /\ functors'[i][3] = s
        BY DEF Queued
      <3>3. ASSUME NEW n, NEW i \in DOMAIN functors, functors[i][1] = "add", functors[i][3] = n
            PROVE  Queued(n)' \/ (Head(functors)[1] = "add" /\ Head(functors)[3] = n)
        <4>1. CASE i = 1
          BY ONLY <2>1, <3>3, <4>1
        <4>2. CASE i # 1
          <5>1. PICK j \in DOMAIN functors' : functors'[j] = functors[i]
            BY ONLY <2>4, <3>3, <4>2
          <5> QED BY ONLY <3>2, <3>3, <5>1
        <4> QED BY ONLY <4>1, <4>2
      <3>4. ASSUME NEW n, NEW i \in DOMAIN functors', functors'[i][1] = "add", functors'[i][3] = n
            PROVE  Queued(n)
        <4>1. PICK j \in DOMAIN functors : functors'[i] = functors[j]
          BY ONLY <2>3, <3>4
        <4> QED BY ONLY <3>1, <3>4, <4>1
      <3>5. \A n : Head(functors)[1] = "add" /\ Head(functors)[3] = n => Queued(n)
        BY ONLY <2>1, <2>2, <3>1
      <3> QED BY ONLY <3>1, <3>2, <3>3, <3>4, <3>5
    <2> QED BY <1>3, <2>1, <2>2, <2>3, <2>5
  <1> QED BY <1>2, <1>3 DEF FunctorsUsed

\* Functors that wait stay in their places if each of them does.
LEMMA PlacesStay ==
    ASSUME TimerSetsOK, PlacesInv, FunctorsUsed, \A id \in activeTimers' : id[2] # 0,
           \A f : Placed(f) /\ (\E i \in DOMAIN functors : f = functors[i]) /\ (\E i \in DOMAIN functors' : f = functors'[i])
                  => Placed(f)'
    PROVE  PlacesInv'
  <1>1. (PlacesInv <=> /\ \A i \in DOMAIN functors : Placed(functors[i])
                       /\ \A i, j \in DOMAIN functors :
                             functors[i][1] = "add" /\ functors[j][1] = "add" /\ functors[j][2] = functors[i][2] => i = j
                       /\ \A id \in activeTimers : id[2] # 0)'
    BY PlacesAre, PTL
  <1>2. /\ \A i \in DOMAIN functors : Placed(functors[i])
        /\ \A i, j \in DOMAIN functors :
              functors[i][1] = "add" /\ functors[j][1] = "add" /\ functors[j][2] = functors[i][2] => i = j
    BY PlacesAre
  <1>3. PICK k \in {0, 1} : \A i \in DOMAIN functors' :
                                i \in Nat /\ i + k \in DOMAIN functors /\ functors'[i] = functors[i + k]
    BY FunctorsLeft
  <1>4. \A i \in DOMAIN functors' : Placed(functors[i])'
    <2> SUFFICES ASSUME NEW i \in DOMAIN functors' PROVE Placed(functors[i])'
      OBVIOUS
    <2>1. PICK g : g = functors'[i]
      OBVIOUS
    <2>2. Placed(g)'
      BY <1>2, <1>3, <2>1
    <2> QED BY <2>1, <2>2
  <1>5. ASSUME NEW i \in DOMAIN functors', NEW j \in DOMAIN functors',
               functors'[i][1] = "add", functors'[j][1] = "add", functors'[j][2] = functors'[i][2]
        PROVE  i = j
    <2>1. i + k = j + k
      BY <1>2, <1>3, <1>5
    <2> QED BY ONLY <1>3, <2>1, k \in {0, 1}, i \in DOMAIN functors', j \in DOMAIN functors'
  <1> QED BY <1>1, <1>4, <1>5

\* The clock, the timerfd and the poll touch neither queue nor batch.
LEMMA TimePasses ==
    ASSUME TimerInv, Tick \/ SetBack \/ TimerfdActive
    PROVE  TimerInv'
  <1>1. UNCHANGED <<timer, timers, activeTimers, cancelingTimers, callingExpired, batch, finished, now,
                    functors, created, issued, hasRun, cancelled>>
    BY DEF Tick, SetBack, TimerfdActive, queueVars, batchVars, timeVars, history
  <1>2. /\ IdsInv' /\ TimersAlive' /\ CancelHolds' /\ TimerKept' /\ CancelInv'
        /\ \A b : (InBatch(b)' <=> InBatch(b)) /\ (Finished(b)' <=> Finished(b))
        /\ \A g : Placed(g)' <=> Placed(g)
    <2>1. \A s : Queued(s)' <=> Queued(s)
      BY <1>1 DEF Queued
    <2> QED BY <1>1, <2>1, QuietKeeps
  <1>3. PlacesInv'
    BY <1>1, <1>2, PlacesStay DEF TimerInv, PlacesInv, FunctorsUsed
  <1>4. /\ clock \in Nat \ {0} /\ left \in Nat /\ rung \in BOOLEAN
        /\ loop \in {"poll", "active", "calling", "callback"}
        /\ (callingExpired <=> loop \in {"calling", "callback"})
        /\ (loop = "poll" /\ timers # {} => left > 0 \/ rung)
        /\ (loop \in {"poll", "active"} => batch = <<>> /\ finished = <<>>)
    BY DEF TimerInv, TimerSetsOK, TimersSound, AlarmSet, RoundInv
  <1>5. /\ clock' \in Nat \ {0} /\ left' \in Nat /\ rung' \in BOOLEAN
        /\ loop' = loop \/ (loop = "poll" /\ loop' = "active")
        /\ (loop' = "poll" /\ timers # {} => left' > 0 \/ rung')
    <2>1. CASE Tick
      <3>1. /\ clock' = Min({clock + 1, MaxTime}) /\ left' = Max({left - 1, 0})
            /\ rung' = (rung \/ left = 1) /\ loop' = loop
        BY <2>1 DEF Tick
      <3>2. clock' \in {clock + 1, MaxTime}
        <4>1. {clock + 1, MaxTime} \subseteq Nat /\ {clock + 1, MaxTime} # {}
          BY <1>4, TimerAssumption
        <4> QED BY <3>1, <4>1, MinIs
      <3>3. left' \in {left - 1, 0} /\ left' >= left - 1 /\ left' >= 0
        <4>1. left - 1 \in Int /\ 0 \in Int
          BY <1>4
        <4> QED BY <3>1, <4>1, MaxOfTwo
      <3>4. clock' \in Nat \ {0}
        BY <1>4, <3>2, TimerAssumption
      <3>5. left' \in Nat /\ (left > 0 => left' > 0 \/ left = 1)
        BY ONLY <1>4, <3>3
      <3>6. rung' \in BOOLEAN /\ (rung \/ left = 1 => rung')
        BY <3>1
      <3> QED BY <1>4, <3>1, <3>4, <3>5, <3>6
    <2>2. CASE SetBack
      <3>1. clock > 1 /\ clock' = clock - 1 /\ UNCHANGED <<loop, left, rung>>
        BY <2>2 DEF SetBack
      <3>2. clock' \in Nat \ {0}
        BY ONLY <1>4, <3>1
      <3> QED BY <1>4, <3>1, <3>2
    <2>3. CASE TimerfdActive
      <3>1. loop = "poll" /\ loop' = "active" /\ UNCHANGED <<clock, left, rung>>
        BY <2>3 DEF TimerfdActive, timeVars
      <3> QED BY <1>4, <3>1
    <2> QED BY <2>1, <2>2, <2>3
  <1>6. TimerSetsOK'
    <2>1. loop' \in {"poll", "active", "calling", "callback"} /\ (callingExpired' <=> loop' \in {"calling", "callback"})
      BY <1>1, <1>4, <1>5
    <2> QED BY <1>1, <1>5, <2>1 DEF TimerInv, TimerSetsOK
  <1>7. RoundInv'
    <2>1. loop' \in {"poll", "active"} <=> loop \in {"poll", "active"}
      BY <1>5
    <2>2. loop' \in {"calling", "callback"} => loop' = loop
      BY <1>5
    <2> QED BY <1>1, <1>2, <1>4, <2>1, <2>2 DEF TimerInv, RoundInv
  <1>8. AlarmSet'
    BY <1>1, <1>5 DEF AlarmSet
  <1> QED BY <1>2, <1>3, <1>6, <1>7, <1>8 DEF TimerInv, TimersSound

\* The first of the batch.
LEMMA FirstOf ==
    ASSUME TimerSetsOK, batch # <<>>
    PROVE  /\ Head(batch) \in Nat \X Addresses /\ Head(batch)[2] \in Addresses
           /\ InBatch(Head(batch)[2]) /\ Head(batch) = batch[1]
           /\ Tail(batch) \in Seq(Nat \X Addresses)
           /\ Len(batch) \in Nat \ {0} /\ DOMAIN batch = 1..Len(batch)
           /\ DOMAIN Tail(batch) = 1..(Len(batch) - 1)
           /\ \A i \in 1..(Len(batch) - 1) : Tail(batch)[i] = batch[i + 1]
  <1>1. batch \in Seq(Nat \X Addresses)
    BY DEF TimerSetsOK
  <1>2. /\ Head(batch) \in Nat \X Addresses /\ Tail(batch) \in Seq(Nat \X Addresses)
        /\ Len(Tail(batch)) = Len(batch) - 1 /\ Len(batch) \in Nat \ {0}
        /\ DOMAIN batch = 1..Len(batch) /\ Head(batch) = batch[1]
        /\ DOMAIN Tail(batch) = 1..Len(Tail(batch))
        /\ \A i \in 1..Len(Tail(batch)) : Tail(batch)[i] = batch[i + 1]
    BY ONLY <1>1, batch # <<>>, HeadTailProperties, EmptySeq, LenProperties
  <1>3. 1 \in DOMAIN batch
    BY ONLY <1>2
  <1> QED BY <1>2, <1>3 DEF InBatch

LEMMA RunTimerKeeps ==
    ASSUME TimerInv, RunTimer
    PROVE  TimerInv'
  <1>1. /\ loop = "calling" /\ batch # <<>> /\ loop' = "callback"
        /\ hasRun' = hasRun \cup {timer[Head(batch)[2]].seq}
        /\ UNCHANGED <<timer, timers, activeTimers, cancelingTimers, callingExpired, batch, finished, now,
                       functors, clock, left, rung, created, issued, cancelled>>
    BY DEF RunTimer, queueVars, batchVars, timeVars
  <1>2. /\ IdsInv' /\ TimersAlive' /\ CancelHolds' /\ TimerKept' /\ CancelInv'
        /\ \A b : (InBatch(b)' <=> InBatch(b)) /\ (Finished(b)' <=> Finished(b))
        /\ \A g : Placed(g)' <=> Placed(g)
    <2>1. \A s : Queued(s)' <=> Queued(s)
      BY <1>1 DEF Queued
    <2> QED BY <1>1, <2>1, QuietKeeps
  <1>3. PlacesInv'
    BY <1>1, <1>2, PlacesStay DEF TimerInv, PlacesInv, FunctorsUsed
  <1>4. TimerSetsOK'
    BY <1>1 DEF TimerInv, TimerSetsOK
  <1>5. RoundInv'
    BY <1>1, <1>2 DEF TimerInv, RoundInv
  <1>6. AlarmSet'
    BY <1>1 DEF AlarmSet
  <1> QED BY <1>2, <1>3, <1>4, <1>5, <1>6 DEF TimerInv, TimersSound

LEMMA CallbackReturnsKeeps ==
    ASSUME TimerInv, CallbackReturns
    PROVE  TimerInv'
  <1>1. /\ loop = "callback" /\ loop' = "calling"
        /\ batch' = Tail(batch) /\ finished' = Append(finished, Head(batch))
        /\ UNCHANGED <<timer, timers, activeTimers, cancelingTimers, callingExpired, now,
                       functors, clock, left, rung, created, issued, hasRun, cancelled>>
    BY DEF CallbackReturns, queueVars, timeVars, history
  <1>2. /\ batch # <<>> /\ timer[Head(batch)[2]].seq \in hasRun
        /\ finished \in Seq(Nat \X Addresses)
    BY <1>1 DEF TimerInv, RoundInv, TimerSetsOK
  <1>3. /\ Head(batch) \in Nat \X Addresses /\ Head(batch)[2] \in Addresses
        /\ InBatch(Head(batch)[2]) /\ Head(batch) = batch[1]
        /\ Tail(batch) \in Seq(Nat \X Addresses)
        /\ Len(batch) \in Nat \ {0} /\ DOMAIN batch = 1..Len(batch)
        /\ DOMAIN Tail(batch) = 1..(Len(batch) - 1)
        /\ \A i \in 1..(Len(batch) - 1) : Tail(batch)[i] = batch[i + 1]
    BY <1>2, FirstOf DEF TimerInv
  <1>4. /\ finished' \in Seq(Nat \X Addresses) /\ Len(finished) \in Nat
        /\ DOMAIN finished = 1..Len(finished) /\ DOMAIN finished' = 1..(Len(finished) + 1)
        /\ \A i \in 1..Len(finished) : finished'[i] = finished[i]
        /\ finished'[Len(finished) + 1] = Head(batch)
    BY ONLY <1>1, <1>2, <1>3, AppendProperties, LenProperties
  <1>5. \A b : InBatch(b)' => InBatch(b) /\ b # Head(batch)[2]
    <2>1. \A i, j \in DOMAIN batch : batch[i][2] = batch[j][2] => i = j
      BY DEF TimerInv, RoundInv
    <2>2. \A i \in 1..(Len(batch) - 1) : i + 1 \in DOMAIN batch /\ i + 1 # 1 /\ 1 \in DOMAIN batch
      BY ONLY <1>3
    <2>3. \A b : InBatch(b)' <=> \E i \in 1..(Len(batch) - 1) : batch[i + 1][2] = b
      BY <1>1, <1>3 DEF InBatch
    <2>4. ASSUME NEW b, NEW i \in 1..(Len(batch) - 1), batch[i + 1][2] = b
          PROVE  InBatch(b) /\ b # Head(batch)[2]
      <3>1. b # batch[1][2]
        BY ONLY <2>1, <2>2, <2>4
      <3> QED BY <1>3, <2>2, <2>4, <3>1 DEF InBatch
    <2> QED BY <2>3, <2>4
  <1>6. \A b : InBatch(b) => InBatch(b)' \/ b = Head(batch)[2]
    <2>1. \A i \in DOMAIN batch : i = 1 \/ (i - 1 \in 1..(Len(batch) - 1) /\ (i - 1) + 1 = i)
      BY ONLY <1>3
    <2>2. \A i \in DOMAIN batch : i = 1 \/ (i - 1 \in DOMAIN batch' /\ batch'[i - 1] = batch[i])
      BY ONLY <1>1, <1>3, <2>1
    <2> QED BY <1>3, <2>2 DEF InBatch
  <1>7. \A b : Finished(b)' <=> Finished(b) \/ b = Head(batch)[2]
    <2>1. \A i \in DOMAIN finished' : i \in DOMAIN finished \/ i = Len(finished) + 1
      BY ONLY <1>4
    <2>2. Len(finished) + 1 \in DOMAIN finished' /\ \A i \in DOMAIN finished : i \in DOMAIN finished'
      BY ONLY <1>4
    <2>3. \A b : Finished(b)' <=> \E i \in DOMAIN finished' : finished'[i][2] = b
      BY DEF Finished
    <2>4. \A b : Finished(b) <=> \E i \in DOMAIN finished : finished[i][2] = b
      BY DEF Finished
    <2> QED BY ONLY <1>4, <2>1, <2>2, <2>3, <2>4
  <1>8. \A b : InRound(b)' <=> InRound(b)
    BY <1>3, <1>5, <1>6, <1>7 DEF InRound
  <1>9. (\A b : ActiveAt(b)' <=> ActiveAt(b)) /\ \A s : (Active(s)' <=> Active(s)) /\ (Queued(s)' <=> Queued(s))
    BY <1>1 DEF Active, ActiveAt, Queued
  <1>10. PlacesInv'
    <2>1. \A f : Placed(f) => Placed(f)'
      BY <1>1, <1>8, <1>9 DEF Placed
    <2> QED BY <1>1, <2>1, PlacesStay DEF TimerInv, PlacesInv, FunctorsUsed
  <1>11. TimerSetsOK'
    BY <1>1, <1>3, <1>4 DEF TimerInv, TimerSetsOK
  <1>12. RoundInv'
    <2>1. ASSUME NEW i \in DOMAIN batch', NEW j \in DOMAIN batch', batch'[i][2] = batch'[j][2]
          PROVE  i = j
      <3>1. /\ i \in Nat /\ j \in Nat /\ i + 1 \in DOMAIN batch /\ j + 1 \in DOMAIN batch
            /\ batch'[i] = batch[i + 1] /\ batch'[j] = batch[j + 1]
        BY ONLY <1>1, <1>3, i \in DOMAIN batch', j \in DOMAIN batch'
      <3>2. i + 1 = j + 1
        BY <2>1, <3>1 DEF TimerInv, RoundInv
      <3> QED BY ONLY <3>1, <3>2
    <2>2. \A b \in Addresses : InBatch(b)' => ~ Finished(b)'
      BY <1>5, <1>7 DEF TimerInv, RoundInv
    <2>3. \A b \in Addresses : Finished(b)' => timer'[b].seq \in hasRun'
      BY <1>1, <1>2, <1>7 DEF TimerInv, RoundInv
    <2>4. now > 0
      BY <1>1 DEF TimerInv, RoundInv
    <2> QED BY <1>1, <2>1, <2>2, <2>3, <2>4 DEF RoundInv
  <1>13. IdsInv' /\ CancelInv' /\ CancelHolds' /\ AlarmSet'
    <2>1. IdsInv'
      BY <1>1 DEF TimerInv, IdsInv
    <2>2. CancelInv'
      BY <1>1, <1>8, <1>9 DEF TimerInv, CancelInv
    <2>3. CancelHolds' /\ AlarmSet'
      BY <1>1, <1>9 DEF TimerInv, TimersSound, CancelHolds, AlarmSet
    <2> QED BY <2>1, <2>2, <2>3
  <1>14. \A b : InRound(b)' <=> InBatch(b)' \/ Finished(b)'
    BY DEF InRound
  <1>15. TimersAlive'
    BY <1>1, <1>8, <1>14 DEF TimerInv, TimersSound, TimersAlive, InRound
  <1>16. TimerKept'
    BY <1>1, <1>8, <1>9, <1>14 DEF TimerInv, TimersSound, TimerKept, InRound
  <1> QED BY <1>10, <1>11, <1>12, <1>13, <1>15, <1>16 DEF TimerInv, TimersSound

\* cancelInLoop, whichever of the timers that there have been is meant.
LEMMA CancelKeeps ==
    ASSUME TimerInv, NEW s \in 1..created, CancelInLoop(issued[s].at, s), Cancelled(s),
           FunctorsUsed, functors' # functors => Head(functors)[1] = "cancel",
           UNCHANGED <<callingExpired, batchVars, loop, timeVars, left, rung, created, issued>>
    PROVE  TimerInv'
  <1> DEFINE a == issued[s].at
  <1>0. /\ UNCHANGED <<callingExpired, batch, finished, now, loop, clock, left, rung, created, issued, hasRun>>
        /\ functors' \in Seq({"add", "cancel"} \X Addresses \X Nat)
        /\ a \in Addresses
        /\ cancelled' = IF Queued(s) THEN cancelled ELSE cancelled \cup {s}
    BY IssuedIs, FunctorsLeft DEF batchVars, timeVars, Cancelled, TimerInv
  <1>1. /\ \A b : (InBatch(b)' <=> InBatch(b)) /\ (Finished(b)' <=> Finished(b)) /\ (InRound(b)' <=> InRound(b))
        /\ \A n : Queued(n)' <=> Queued(n)
    <2>1. \A b : (InBatch(b)' <=> InBatch(b)) /\ (Finished(b)' <=> Finished(b)) /\ (InRound(b)' <=> InRound(b))
      BY <1>0 DEF InBatch, Finished, InRound
    <2>2. \A n : Queued(n)' <=> Queued(n)
      <3>1. CASE functors' = functors
        BY <3>1 DEF Queued
      <3>2. CASE functors' # functors
        BY <3>2, FunctorsLeft DEF TimerInv
      <3> QED BY <3>1, <3>2
    <2> QED BY <2>1, <2>2
  <1>2. /\ timers = {<<timer[id[1]].when, id[1]>> : id \in activeTimers}
        /\ \A id \in activeTimers : timer[id[1]].seq = id[2] /\ id \in Addresses \X Nat /\ id[2] # 0
        /\ \A b \in Addresses : InRound(b) => timer[b].seq > 0 /\ \A e \in timers : e[2] # b
        /\ \A b \in Addresses : ActiveAt(b) => <<b, timer[b].seq>> \in activeTimers /\ ~ InRound(b)
    BY EntriesOf DEF TimerInv, TimersSound, TimersAlive, TimerSetsOK, PlacesInv, InRound
  <1>3. \A b \in Addresses : timer[b].seq = s => b = a
    <2>1. s # 0
      OBVIOUS
    <2>2. \A b \in Addresses : timer[b].seq # 0 => issued[timer[b].seq].at = b
      <3>1. ASSUME NEW b \in Addresses, timer[b].seq # 0
            PROVE  issued[timer[b].seq].at = b
        <4>1. issued[timer[b].seq] = [at |-> b, interval |-> timer[b].interval]
          BY ONLY TimerInv, <3>1 DEF TimerInv, IdsInv
        <4> QED BY ONLY <4>1
      <3> QED BY <3>1
    <2> QED BY ONLY <2>1, <2>2
  <1>4. Queued(s) => ~ ActiveAt(a) /\ ~ InRound(a)
    <2>1. ASSUME Queued(s) PROVE ~ ActiveAt(a) /\ ~ InRound(a)
      <3>1. PICK i \in DOMAIN functors : functors[i][1] = "add" /\ functors[i][3] = s
        BY <2>1 DEF Queued
      <3>2. functors[i][2] = a /\ ~ ActiveAt(functors[i][2]) /\ ~ InRound(functors[i][2])
        BY <3>1 DEF TimerInv, PlacesInv
      <3> QED BY <3>2
    <2> QED BY <2>1
  <1> HIDE DEF a
  <1>5. RoundInv' /\ TimerSetsOK' /\ AlarmSet' /\ IdsInv' /\ PlacesInv' /\ TimersAlive' /\ CancelInv' /\ CancelHolds' /\ TimerKept'
    <2>1. CASE <<a, s>> \in activeTimers
      <3>1. /\ timers' = timers \ {<<timer[a].when, a>>} /\ activeTimers' = activeTimers \ {<<a, s>>}
            /\ timer' = [timer EXCEPT ![a] = NoTimer] /\ UNCHANGED cancelingTimers
        BY <2>1 DEF CancelInLoop, a
      <3>2. ActiveAt(a) /\ ~ InRound(a) /\ ~ Queued(s) /\ timer[a].seq = s
        BY <1>0, <1>2, <1>4, <2>1 DEF ActiveAt
      <3>3. /\ timer \in [Addresses -> [seq : Nat, when : Nat, interval : Nat]]
            /\ NoTimer \in [seq : Nat, when : Nat, interval : Nat] /\ NoTimer.seq = 0
        BY DEF TimerInv, TimerSetsOK, NoTimer
      <3>4. /\ timer' \in [Addresses -> [seq : Nat, when : Nat, interval : Nat]]
            /\ timer'[a].seq = 0 /\ \A b \in Addresses : b # a => timer'[b] = timer[b]
        BY ONLY <1>0, <3>1, <3>3
      <3>5. \A id \in activeTimers : id # <<a, s>> => id[1] # a
        BY ONLY <1>2, <3>2
      <3>6. \A id \in activeTimers' : id \in activeTimers /\ id[1] # a /\ timer'[id[1]] = timer[id[1]]
        BY ONLY <1>2, <3>1, <3>4, <3>5
      <3>7. TimerSetsOK'
        <4>1. activeTimers' \subseteq Addresses \X Nat
          BY ONLY <1>2, <3>6
        <4>2. /\ batch' \in Seq(Nat \X Addresses) /\ finished' \in Seq(Nat \X Addresses)
              /\ loop' \in {"poll", "active", "calling", "callback"}
              /\ callingExpired' \in BOOLEAN /\ (callingExpired' <=> loop' \in {"calling", "callback"})
              /\ clock' \in Nat \ {0} /\ now' \in Nat /\ left' \in Nat /\ rung' \in BOOLEAN
          BY <1>0 DEF TimerInv, TimerSetsOK
        <4>3. /\ created' \in Nat /\ issued' \in Seq([at : Addresses, interval : Nat])
              /\ Len(issued') = created'
          BY <1>0 DEF TimerInv, TimerSetsOK
        <4> QED BY ONLY <1>0, <3>4, <4>1, <4>2, <4>3 DEF TimerSetsOK
      <3>8. IdsInv'
        <4> SUFFICES ASSUME NEW b \in Addresses, timer'[b].seq # 0
                     PROVE  /\ timer'[b].seq \in 1..created'
                            /\ issued'[timer'[b].seq] = [at |-> b, interval |-> timer'[b].interval]
                            /\ timer'[b].when > 0
          BY DEF IdsInv
        <4>1. timer'[b] = timer[b]
          BY ONLY <3>4, b \in Addresses, timer'[b].seq # 0
        <4> QED BY <1>0, <4>1 DEF TimerInv, IdsInv
      <3>9. RoundInv'
        <4>1. loop = "callback" => InRound(Head(batch)[2]) /\ Head(batch)[2] \in Addresses
          BY FirstOf DEF TimerInv, RoundInv, InRound
        <4>2. \A b \in Addresses : InRound(b) => timer'[b] = timer[b]
          BY <3>2, <3>4
        <4> QED BY <1>0, <1>1, <4>1, <4>2 DEF TimerInv, RoundInv, InRound
      <3>10. AlarmSet'
        BY <1>0, <3>1 DEF TimerInv, TimersSound, AlarmSet
      <3>11. PlacesInv'
        <4>1. ASSUME NEW f, NEW i \in DOMAIN functors, f = functors[i], Placed(f)
              PROVE  Placed(f)'
          <5>1. f[2] \in Addresses
            BY <4>1, ElementOfSeq DEF TimerInv, TimerSetsOK
          <5>2. f[1] = "add" => f[2] # a
            BY <3>2, <4>1 DEF Placed
          <5>3. ~ ActiveAt(f[2]) => ~ ActiveAt(f[2])'
            BY <1>0, <3>1, <4>1 DEF ActiveAt
          <5> QED BY <1>0, <1>1, <3>4, <4>1, <5>1, <5>2, <5>3 DEF Placed
        <4> QED BY <1>0, <1>2, <3>6, <4>1, PlacesStay DEF TimerInv
      <3>12. TimersAlive'
        <4>1. timers' = {<<timer'[id[1]].when, id[1]>> : id \in activeTimers'}
          <5>1. ASSUME NEW e \in timers'
                PROVE  \E id \in activeTimers' : e = <<timer'[id[1]].when, id[1]>>
            <6>1. PICK id \in activeTimers : e = <<timer[id[1]].when, id[1]>>
              BY <1>2, <3>1, <5>1
            <6>2. id # <<a, s>>
              BY <3>1, <5>1, <6>1
            <6> QED BY <3>1, <3>6, <6>1, <6>2
          <5>2. ASSUME NEW id \in activeTimers'
                PROVE  <<timer'[id[1]].when, id[1]>> \in timers'
            BY <1>2, <3>1, <3>6
          <5> QED BY <5>1, <5>2
        <4>2. \A id \in activeTimers' : timer'[id[1]].seq = id[2]
          BY ONLY <1>2, <3>6
        <4>3. \A b \in Addresses : InRound(b) => timer'[b].seq > 0 /\ \A e \in timers' : e[2] # b
          BY ONLY <1>2, <3>1, <3>2, <3>4
        <4>4. \A b : InRound(b)' <=> InBatch(b)' \/ Finished(b)'
          BY DEF InRound
        <4> QED BY ONLY <1>1, <4>1, <4>2, <4>3, <4>4 DEF TimersAlive
      <3>13. cancelled' = cancelled \cup {s} /\ created \in Nat
        BY <1>0, <3>2 DEF TimerInv, TimerSetsOK
      <3>14. CancelInv'
        <4>1. \A b \in Addresses : InRound(b) => b # a /\ timer'[b] = timer[b] /\ timer[b].seq # s
          BY <1>3, <3>2, <3>4
        <4>2. \A n \in cancelled \cup {s} : ~ Queued(n)
          BY <3>2 DEF TimerInv, CancelInv
        <4> QED BY <1>0, <1>1, <3>1, <3>13, <4>1, <4>2 DEF TimerInv, CancelInv
      <3>15. CancelHolds'
        <4>1. \A n : Active(n)' => Active(n) /\ n # s
          BY <1>2, <1>3, <3>1, <3>5 DEF Active
        <4> QED BY <3>13, <4>1 DEF TimerInv, TimersSound, CancelHolds
      <3>16. TimerKept'
        <4> SUFFICES ASSUME NEW n \in 1..created
                     PROVE  \/ Queued(n)' \/ Active(n)'
                            \/ (timer[issued[n].at].seq)' = n /\ InRound(issued[n].at)'
                            \/ n \in cancelled' \/ (n \in hasRun' /\ issued'[n].interval = 0)
          BY <1>0 DEF TimerKept, InRound
        <4>1. \/ Queued(n) \/ Active(n)
              \/ timer[issued[n].at].seq = n /\ InRound(issued[n].at)
              \/ n \in cancelled \/ (n \in hasRun /\ issued[n].interval = 0)
          BY DEF TimerInv, TimersSound, TimerKept, InRound
        <4>2. CASE Active(n)
          <5>1. n # s => Active(n)'
            BY <3>1, <4>2 DEF Active
          <5> QED BY <3>13, <5>1
        <4>3. CASE timer[issued[n].at].seq = n /\ InRound(issued[n].at)
          <5>1. PICK b \in Addresses : b = issued[n].at
            BY IssuedIs DEF TimerInv
          <5>2. b # a /\ timer'[b] = timer[b] /\ InRound(b)' /\ (issued[n].at)' = b
            BY <1>0, <1>1, <3>2, <3>4, <4>3, <5>1
          <5> QED BY <4>3, <5>1, <5>2
        <4> QED BY <1>0, <1>1, <3>13, <4>1, <4>2, <4>3
      <3> QED BY <3>7, <3>8, <3>9, <3>10, <3>11, <3>12, <3>14, <3>15, <3>16
    <2>2. CASE <<a, s>> \notin activeTimers
      <3>1. /\ cancelingTimers' = IF callingExpired THEN cancelingTimers \cup {<<a, s>>} ELSE cancelingTimers
            /\ UNCHANGED <<timer, timers, activeTimers>>
        BY <2>2 DEF CancelInLoop, a
      <3>2. IdsInv' /\ TimersAlive' /\ RoundInv' /\ TimerSetsOK' /\ AlarmSet'
        <4>1. IdsInv'
          BY <1>0, <3>1 DEF TimerInv, IdsInv
        <4>2. TimersAlive'
          BY <1>1, <3>1 DEF TimerInv, TimersSound, TimersAlive
        <4>3. RoundInv'
          BY <1>0, <1>1, <3>1 DEF TimerInv, RoundInv
        <4>4. TimerSetsOK'
          <5>1. /\ batch' \in Seq(Nat \X Addresses) /\ finished' \in Seq(Nat \X Addresses)
                /\ loop' \in {"poll", "active", "calling", "callback"}
                /\ callingExpired' \in BOOLEAN /\ (callingExpired' <=> loop' \in {"calling", "callback"})
                /\ clock' \in Nat \ {0} /\ now' \in Nat /\ left' \in Nat /\ rung' \in BOOLEAN
            BY <1>0 DEF TimerInv, TimerSetsOK
          <5>2. /\ created' \in Nat /\ issued' \in Seq([at : Addresses, interval : Nat])
                /\ Len(issued') = created'
                /\ timer' \in [Addresses -> [seq : Nat, when : Nat, interval : Nat]]
                /\ activeTimers' \subseteq Addresses \X Nat
            BY <1>0, <3>1 DEF TimerInv, TimerSetsOK
          <5> QED BY ONLY <1>0, <5>1, <5>2 DEF TimerSetsOK
        <4>5. AlarmSet'
          BY <1>0, <3>1 DEF TimerInv, TimersSound, AlarmSet
        <4> QED BY <4>1, <4>2, <4>3, <4>4, <4>5
      <3>3. (\A b : ActiveAt(b)' <=> ActiveAt(b)) /\ \A n : Active(n)' <=> Active(n)
        BY <3>1 DEF Active, ActiveAt
      <3>4. PlacesInv'
        <4>1. \A f : Placed(f) => Placed(f)'
          BY <1>0, <1>1, <3>1, <3>3 DEF Placed
        <4> QED BY <1>0, <3>1, <4>1, PlacesStay DEF TimerInv, PlacesInv, FunctorsUsed
      <3>5. ~ Active(s)
        <4>1. \A id \in activeTimers : id[2] = s => id = <<a, s>>
          BY ONLY <1>2, <1>3
        <4> QED BY <2>2, <4>1 DEF Active
      <3>6. CancelHolds'
        BY <1>0, <3>3, <3>5 DEF TimerInv, TimersSound, CancelHolds
      <3>7. TimerKept'
        <4>1. cancelled \subseteq cancelled'
          BY <1>0
        <4> QED BY <1>0, <1>1, <3>1, <3>3, <4>1 DEF TimerInv, TimersSound, TimerKept
      <3>8. CancelInv'
        <4>1. cancelled' \subseteq 1..created' /\ \A n \in cancelled' : ~ Queued(n)'
          BY <1>0, <1>1 DEF TimerInv, CancelInv
        <4>2. ASSUME NEW b \in Addresses, InRound(b)
              PROVE  timer[b].seq \in cancelled' <=> <<b, timer[b].seq>> \in cancelingTimers'
          <5>1. timer[b].seq \in cancelled <=> <<b, timer[b].seq>> \in cancelingTimers
            BY <4>2 DEF TimerInv, CancelInv
          <5>2. callingExpired
            <6>1. ~ (batch = <<>> /\ finished = <<>>)
              BY <4>2 DEF InRound, InBatch, Finished
            <6> QED BY <6>1 DEF TimerInv, RoundInv, TimerSetsOK
          <5>3. CASE timer[b].seq = s
            <6>1. b = a
              BY <1>3, <5>3
            <6>2. ~ Queued(s)
              BY <1>4, <4>2, <6>1
            <6> QED BY <1>0, <3>1, <5>2, <5>3, <6>1, <6>2
          <5>4. CASE timer[b].seq # s
            BY <1>0, <3>1, <5>1, <5>4
          <5> QED BY <5>3, <5>4
        <4> QED BY <1>1, <3>1, <4>1, <4>2 DEF CancelInv
      <3> QED BY <3>2, <3>4, <3>6, <3>7, <3>8
    <2> QED BY <2>1, <2>2
  <1> QED BY <1>5 DEF TimerInv, TimersSound

\* A functor another thread queued: its addTimerInLoop or its cancelInLoop.
LEMMA RunFunctorKeeps ==
    ASSUME TimerInv, RunFunctor
    PROVE  TimerInv'
  <1>1. /\ loop = "poll" /\ functors # <<>> /\ functors' = Tail(functors)
        /\ UNCHANGED <<callingExpired, batchVars, loop, timeVars, created, issued>>
        /\ FunctorsUsed
    BY DEF RunFunctor, FunctorsUsed
  <1>2. functors' # functors
    <2>1. functors \in Seq({"add", "cancel"} \X Addresses \X Nat)
      BY DEF TimerInv, TimerSetsOK
    <2>2. Len(Tail(functors)) = Len(functors) - 1 /\ Len(functors) \in Nat
      BY ONLY <1>1, <2>1, HeadTailProperties, LenProperties
    <2>3. Len(Tail(functors)) # Len(functors)
      BY ONLY <2>2
    <2> QED BY <1>1, <2>3
  <1>3. PICK f \in {"add", "cancel"} \X Addresses \X Nat : f = Head(functors) /\ f = functors[1] /\ 1 \in DOMAIN functors
    BY <1>1, <1>2, FunctorsLeft DEF TimerInv
  <1>4. PICK a \in Addresses, s \in Nat : f = <<f[1], a, s>> /\ a = f[2] /\ s = f[3]
    BY <1>3
  <1>5. s \in 1..created /\ issued[s].at = a
    BY <1>3, <1>4 DEF TimerInv, PlacesInv
  <1>6. CASE f[1] = "cancel"
    <2>1. CancelInLoop(a, s) /\ Cancelled(s) /\ KeepTimerfd
      BY <1>3, <1>4, <1>6 DEF RunFunctor
    <2>2. CancelInLoop(issued[s].at, s)
      BY <1>5, <2>1
    <2> QED BY <1>1, <1>3, <1>5, <1>6, <2>1, <2>2, CancelKeeps DEF KeepTimerfd
  <1>7. CASE f[1] = "add"
    <2>1. AddTimerInLoop(a, timer[a].when, s) /\ UNCHANGED <<timer, hasRun, cancelled>>
      BY <1>3, <1>4, <1>7 DEF RunFunctor, history
    <2>2. /\ timer[a].seq = s /\ ~ ActiveAt(a) /\ ~ InRound(a)
          /\ \A j \in DOMAIN functors : functors[j][1] = "add" /\ functors[j][2] = a => 1 = j
      BY <1>3, <1>4, <1>7 DEF TimerInv, PlacesInv
    <2>3. timer[a].when \in Nat \ {0} /\ s # 0
      <3>1. timer[a] \in [seq : Nat, when : Nat, interval : Nat]
        BY DEF TimerInv, TimerSetsOK
      <3>2. s # 0
        BY ONLY <1>5, <1>4
      <3>3. timer[a].when > 0
        BY ONLY TimerInv, <2>2, <3>2, a \in Addresses DEF TimerInv, IdsInv
      <3> QED BY ONLY <3>1, <3>2, <3>3
    <2>4. /\ timers' = timers \cup {<<timer[a].when, a>>} /\ activeTimers' = activeTimers \cup {<<a, s>>}
          /\ UNCHANGED cancelingTimers
      BY <2>1 DEF AddTimerInLoop
    <2>5. /\ left' \in Nat /\ rung' \in BOOLEAN /\ (loop' = "poll" => left' > 0 \/ rung')
      BY <1>1, <2>1, <2>3, ArmsForNew
    <2>6. UNCHANGED <<timer, batch, finished, now, loop, callingExpired, clock, created, issued, hasRun, cancelled, cancelingTimers>>
      BY <1>1, <2>1, <2>4 DEF batchVars, timeVars
    <2>7. /\ functors' \in Seq({"add", "cancel"} \X Addresses \X Nat)
          /\ \A i \in DOMAIN functors' : i \in Nat \ {0} /\ i + 1 \in DOMAIN functors /\ functors'[i] = functors[i + 1]
          /\ \A n : Queued(n) <=> Queued(n)' \/ n = s
      BY <1>1, <1>2, <1>3, <1>4, <1>7, FunctorsLeft DEF TimerInv
    <2>8. \A b : (InBatch(b)' <=> InBatch(b)) /\ (Finished(b)' <=> Finished(b)) /\ (InRound(b)' <=> InRound(b))
      BY <2>6 DEF InBatch, Finished, InRound
    <2>9. /\ \A b : ActiveAt(b)' <=> ActiveAt(b) \/ b = a
          /\ \A n : Active(n)' <=> Active(n) \/ n = s
      <3>1. <<a, s>>[1] = a /\ <<a, s>>[2] = s
        OBVIOUS
      <3> QED BY ONLY <2>4, <3>1 DEF ActiveAt, Active
    <2>10. TimerSetsOK'
      <3>1. /\ batch' \in Seq(Nat \X Addresses) /\ finished' \in Seq(Nat \X Addresses)
            /\ loop' \in {"poll", "active", "calling", "callback"}
            /\ callingExpired' \in BOOLEAN /\ (callingExpired' <=> loop' \in {"calling", "callback"})
            /\ clock' \in Nat \ {0} /\ now' \in Nat
        BY <2>6 DEF TimerInv, TimerSetsOK
      <3>2. /\ created' \in Nat /\ issued' \in Seq([at : Addresses, interval : Nat])
            /\ Len(issued') = created'
            /\ timer' \in [Addresses -> [seq : Nat, when : Nat, interval : Nat]]
            /\ activeTimers' \subseteq Addresses \X Nat
        BY <1>4, <2>4, <2>6 DEF TimerInv, TimerSetsOK
      <3> QED BY ONLY <2>5, <2>7, <3>1, <3>2 DEF TimerSetsOK
    <2>11. IdsInv'
      BY <2>6 DEF TimerInv, IdsInv
    <2>12. PlacesInv'
      <3>1. ASSUME NEW g, Placed(g), NEW i \in DOMAIN functors', g = functors'[i]
            PROVE  Placed(g)'
        <4>1. g[1] = "add" => g[2] # a
          <5>1. g = functors[i + 1] /\ i + 1 \in DOMAIN functors /\ 1 # i + 1
            BY ONLY <2>7, <3>1
          <5> QED BY ONLY <2>2, <5>1
        <4> QED BY <2>6, <2>8, <2>9, <3>1, <4>1 DEF Placed
      <3>2. \A id \in activeTimers' : id[2] # 0
        <4>1. \A id \in activeTimers : id[2] # 0
          BY DEF TimerInv, PlacesInv
        <4> QED BY ONLY <2>3, <2>4, <4>1
      <3> QED BY <1>1, <3>1, <3>2, PlacesStay DEF TimerInv
    <2>13. RoundInv'
      BY <2>6, <2>8 DEF TimerInv, RoundInv
    <2>14. CancelInv' /\ CancelHolds'
      <3>1. \A n \in cancelled : ~ Queued(n) /\ n # s
        BY <2>7 DEF TimerInv, CancelInv
      <3>2. CancelHolds'
        BY <2>6, <2>9, <3>1 DEF TimerInv, TimersSound, CancelHolds
      <3> QED BY <2>6, <2>7, <2>8, <3>2 DEF TimerInv, CancelInv
    <2>15. TimerKept'
      <3>1. \A n \in 1..created :
                \/ Queued(n) \/ Active(n)
                \/ timer[issued[n].at].seq = n /\ (InBatch(issued[n].at) \/ Finished(issued[n].at))
                \/ n \in cancelled \/ (n \in hasRun /\ issued[n].interval = 0)
        BY DEF TimerInv, TimersSound, TimerKept
      <3> QED BY <2>6, <2>7, <2>8, <2>9, <3>1 DEF TimerKept
    <2>16. TimersAlive'
      <3>0. /\ timers = {<<timer[id[1]].when, id[1]>> : id \in activeTimers}
            /\ \A id \in activeTimers : timer[id[1]].seq = id[2]
            /\ \A b \in Addresses : InRound(b) => timer[b].seq > 0 /\ \A e \in timers : e[2] # b
        BY DEF TimerInv, TimersSound, TimersAlive, InRound
      <3>1. <<a, s>>[1] = a /\ <<a, s>>[2] = s /\ <<timer[a].when, a>>[2] = a
        OBVIOUS
      <3>2. timers' = {<<timer[id[1]].when, id[1]>> : id \in activeTimers'}
        <4> DEFINE entry(id) == <<timer[id[1]].when, id[1]>>
        <4>1. {entry(id) : id \in activeTimers'} = {entry(id) : id \in activeTimers} \cup {entry(<<a, s>>)}
          BY ONLY <2>4
        <4>2. entry(<<a, s>>) = <<timer[a].when, a>>
          BY ONLY <3>1
        <4> QED BY ONLY <2>4, <3>0, <4>1, <4>2
      <3>3. \A id \in activeTimers' : timer[id[1]].seq = id[2]
        BY ONLY <2>2, <2>4, <3>0, <3>1
      <3>4. \A b \in Addresses : InRound(b) => timer[b].seq > 0 /\ \A e \in timers' : e[2] # b
        BY ONLY <2>2, <2>4, <3>0, <3>1
      <3>5. \A b : InRound(b)' <=> InBatch(b)' \/ Finished(b)'
        BY DEF InRound
      <3> QED BY ONLY <2>6, <2>8, <3>2, <3>3, <3>4, <3>5 DEF TimersAlive
    <2>17. AlarmSet'
      BY <2>5 DEF AlarmSet
    <2> QED BY <2>10, <2>11, <2>12, <2>13, <2>14, <2>15, <2>16, <2>17 DEF TimerInv, TimersSound
  <1> QED BY <1>3, <1>6, <1>7

\* An order of a finite set is a sequence in which each of its elements is once.
LEMMA OrderIs ==
    ASSUME NEW S, IsFiniteSet(S), NEW order \in SetToSeqs(S)
    PROVE  /\ order \in Seq(S)
           /\ \A i, j \in DOMAIN order : order[i] = order[j] => i = j
           /\ \A e \in S : \E i \in DOMAIN order : order[i] = e
  <1>1. Cardinality(S) \in Nat
    BY FS_CardinalityType
  <1>2. PICK n \in Nat : n = Cardinality(S)
    BY <1>1
  <1>3. order \in [1..n -> S] /\ \A i, j \in 1..n : i # j => order[i] # order[j]
    BY <1>2 DEF SetToSeqs
  <1>4. order \in Injection(1..n, S)
    BY ONLY <1>3 DEF Injection, IsInjective
  <1>5. Cardinality(1..n) = n
    BY FS_Interval
  <1>6. order \in Surjection(1..n, S)
    BY <1>2, <1>4, <1>5, FS_Injection
  <1>7. \A e \in S : \E i \in 1..n : order[i] = e
    BY <1>6 DEF Surjection
  <1>8. order \in Seq(S)
    BY ONLY <1>3, n \in Nat, IsASeq
  <1>9. DOMAIN order = 1..n
    BY ONLY <1>3
  <1> QED BY ONLY <1>3, <1>7, <1>8, <1>9

\* The queue is finite, as there are finitely many places for a Timer.
LEMMA QueueFinite ==
    ASSUME TimerInv
    PROVE  IsFiniteSet(timers)
  <1>1. /\ timers \subseteq (Nat \ {0}) \X Addresses
        /\ \A e \in timers : e = <<timer[e[2]].when, e[2]>>
    BY EntriesOf DEF TimerInv, TimersSound
  <1> DEFINE where == [e \in timers |-> e[2]]
  <1>2. where \in [timers -> Addresses]
    BY <1>1
  <1>3. \A e, g \in timers : e[2] = g[2] => e = g
    BY ONLY <1>1
  <1>4. where \in Injection(timers, Addresses)
    BY <1>2, <1>3 DEF Injection, IsInjective
  <1> HIDE DEF where
  <1> QED BY <1>4, TimerAssumption, FS_Injection

\* handleRead: those whose time has come leave the queue, and are the batch.
LEMMA HandleReadKeeps ==
    ASSUME TimerInv, HandleRead
    PROVE  TimerInv'
  <1> DEFINE due == {e \in timers : Expiration(e) <= clock}
  <1>1. PICK order \in SetToSeqs(due) : batch' = order
    BY DEF HandleRead
  <1>2. /\ loop = "active" /\ loop' = "calling" /\ finished' = <<>> /\ now' = clock
        /\ timers' = timers \ due /\ activeTimers' = {id \in activeTimers : \A e \in due : e[2] # id[1]}
        /\ rung' = FALSE /\ callingExpired' = TRUE /\ cancelingTimers' = {}
        /\ UNCHANGED <<timer, functors, clock, left, created, issued, hasRun, cancelled>>
    BY DEF HandleRead, timeVars, history
  <1>3. due \subseteq timers
    OBVIOUS
  <1> HIDE DEF due
  <1>4. /\ timers \subseteq (Nat \ {0}) \X Addresses
        /\ \A e \in timers : ActiveAt(e[2]) /\ e = <<timer[e[2]].when, e[2]>>
        /\ \A id \in activeTimers : <<timer[id[1]].when, id[1]>> \in timers
        /\ \A a \in Addresses : ActiveAt(a) => <<a, timer[a].seq>> \in activeTimers
    BY EntriesOf DEF TimerInv, TimersSound
  <1>5. /\ batch' \in Seq(due)
        /\ \A i, j \in DOMAIN batch' : batch'[i] = batch'[j] => i = j
        /\ \A e \in due : \E i \in DOMAIN batch' : batch'[i] = e
    <2>1. IsFiniteSet(due)
      BY <1>3, QueueFinite, FS_Subset
    <2> QED BY <1>1, <2>1, OrderIs
  <1>6. batch' \in Seq(Nat \X Addresses)
    <2>1. due \subseteq Nat \X Addresses
      BY ONLY <1>3, <1>4
    <2> QED BY ONLY <1>5, <2>1
  <1>7. \A i \in DOMAIN batch' : batch'[i] \in due
    BY ONLY <1>5, ElementOfSeq
  <1>8. /\ \A b : InBatch(b)' <=> \E e \in due : e[2] = b
        /\ \A b : ~ Finished(b)'
        /\ \A b : InRound(b)' <=> InBatch(b)'
    <2>1. \A b : InBatch(b)' <=> \E i \in DOMAIN batch' : batch'[i][2] = b
      BY DEF InBatch
    <2>2. \A b : ~ Finished(b)'
      BY <1>2 DEF Finished
    <2>3. \A b : InRound(b)' <=> InBatch(b)' \/ Finished(b)'
      BY DEF InRound
    <2> QED BY ONLY <1>5, <1>7, <2>1, <2>2, <2>3
  <1>9. \A b : ~ InBatch(b) /\ ~ Finished(b)
    <2>1. batch = <<>> /\ finished = <<>>
      BY <1>2 DEF TimerInv, RoundInv
    <2> QED BY <2>1 DEF InBatch, Finished
  <1>10. \A e \in due, g \in timers : e[2] = g[2] => e = g
    BY ONLY <1>3, <1>4
  <1>11. \A id \in activeTimers : timer[id[1]].seq = id[2] /\ id[2] # 0 /\ id \in Addresses \X Nat
    BY DEF TimerInv, TimerSetsOK, PlacesInv, TimersSound, TimersAlive
  <1>12. \A e \in due : e[2] \in Addresses /\ <<e[2], timer[e[2]].seq>> \in activeTimers
    BY ONLY <1>3, <1>4
  <1>13. TimerSetsOK'
    <2>1. /\ finished' \in Seq(Nat \X Addresses) /\ functors' \in Seq({"add", "cancel"} \X Addresses \X Nat)
          /\ loop' \in {"poll", "active", "calling", "callback"}
          /\ callingExpired' \in BOOLEAN /\ (callingExpired' <=> loop' \in {"calling", "callback"})
          /\ clock' \in Nat \ {0} /\ now' \in Nat /\ left' \in Nat /\ rung' \in BOOLEAN
      <3>1. /\ clock \in Nat \ {0} /\ left \in Nat /\ functors \in Seq({"add", "cancel"} \X Addresses \X Nat)
        BY DEF TimerInv, TimerSetsOK
      <3>2. <<>> \in Seq(Nat \X Addresses)
        BY EmptySeq
      <3> QED BY ONLY <1>2, <3>1, <3>2
    <2>2. /\ created' \in Nat /\ issued' \in Seq([at : Addresses, interval : Nat])
          /\ Len(issued') = created'
          /\ timer' \in [Addresses -> [seq : Nat, when : Nat, interval : Nat]]
      BY <1>2 DEF TimerInv, TimerSetsOK
    <2>3. activeTimers' \subseteq Addresses \X Nat
      BY ONLY <1>2, <1>11
    <2> QED BY ONLY <1>6, <2>1, <2>2, <2>3 DEF TimerSetsOK
  <1>14. IdsInv'
    BY <1>2 DEF TimerInv, IdsInv
  <1>15. PlacesInv'
    <2>1. ASSUME NEW f, Placed(f)
          PROVE  Placed(f)'
      <3>1. ~ ActiveAt(f[2]) => ~ ActiveAt(f[2])'
        <4>1. activeTimers' \subseteq activeTimers
          BY ONLY <1>2
        <4> QED BY <1>2, <2>1, <4>1 DEF ActiveAt
      <3>2. ~ ActiveAt(f[2]) => ~ InRound(f[2])'
        BY <1>2, <1>3, <1>4, <1>8
      <3> QED BY <1>2, <2>1, <3>1, <3>2 DEF Placed
    <2>2. \A id \in activeTimers' : id[2] # 0
      BY ONLY <1>2, <1>11
    <2> QED BY <1>2, <2>1, <2>2, PlacesStay DEF TimerInv, FunctorsUsed
  <1>16. RoundInv'
    <2>1. ASSUME NEW i \in DOMAIN batch', NEW j \in DOMAIN batch', batch'[i][2] = batch'[j][2]
          PROVE  i = j
      <3>1. batch'[i] = batch'[j]
        BY ONLY <1>3, <1>7, <1>10, <2>1
      <3> QED BY ONLY <1>5, <2>1, <3>1
    <2>2. now' > 0
      BY <1>2 DEF TimerInv, TimerSetsOK
    <2> QED BY <1>2, <1>8, <2>1, <2>2 DEF RoundInv
  <1>17. \A n : Active(n)' => Active(n)
    BY <1>2 DEF Active
  <1>18. CancelHolds'
    BY <1>2, <1>17 DEF TimerInv, TimersSound, CancelHolds
  <1>19. CancelInv'
    <2>1. \A e \in due : Active(timer[e[2]].seq)
      BY <1>12 DEF Active
    <2>2. \A b \in Addresses : InRound(b)' => timer[b].seq \notin cancelled
      BY <1>8, <2>1 DEF TimerInv, TimersSound, CancelHolds
    <2>3. cancelled \subseteq 1..created /\ \A n \in cancelled : ~ Queued(n)
      BY DEF TimerInv, CancelInv
    <2>4. \A n : Queued(n)' <=> Queued(n)
      BY <1>2 DEF Queued
    <2> QED BY <1>2, <2>2, <2>3, <2>4 DEF CancelInv
  <1>20. TimersAlive'
    <2>1. timers' = {<<timer[id[1]].when, id[1]>> : id \in activeTimers'}
      <3>1. ASSUME NEW e \in timers'
            PROVE  \E id \in activeTimers' : e = <<timer[id[1]].when, id[1]>>
        <4>1. e \in timers /\ e \notin due
          BY ONLY <1>2, <3>1
        <4>2. PICK id \in activeTimers : e = <<timer[id[1]].when, id[1]>>
          BY <4>1 DEF TimerInv, TimersSound, TimersAlive
        <4>3. e[2] = id[1]
          BY ONLY <4>2
        <4>4. \A g \in due : g[2] # id[1]
          BY ONLY <1>10, <4>1, <4>3
        <4> QED BY ONLY <1>2, <4>2, <4>4
      <3>2. ASSUME NEW id \in activeTimers'
            PROVE  <<timer[id[1]].when, id[1]>> \in timers'
        <4>1. id \in activeTimers /\ \A g \in due : g[2] # id[1]
          BY ONLY <1>2, <3>2
        <4>2. <<timer[id[1]].when, id[1]>>[2] = id[1]
          OBVIOUS
        <4> QED BY ONLY <1>2, <1>4, <4>1, <4>2
      <3> QED BY <3>1, <3>2
    <2>2. \A id \in activeTimers' : timer[id[1]].seq = id[2]
      BY ONLY <1>2, <1>11
    <2>3. ASSUME NEW b \in Addresses, NEW e \in due, e[2] = b
          PROVE  timer[b].seq > 0 /\ \A g \in timers' : g[2] # b
      <3>1. timer[b].seq # 0
        <4>1. <<b, timer[b].seq>> \in activeTimers
          BY ONLY <1>12, <2>3
        <4> QED BY ONLY <1>11, <4>1
      <3>2. timer[b] \in [seq : Nat, when : Nat, interval : Nat]
        BY DEF TimerInv, TimerSetsOK
      <3>3. timer[b].seq > 0
        BY ONLY <3>1, <3>2
      <3> QED BY ONLY <1>2, <1>10, <2>3, <3>3
    <2> QED BY ONLY <1>2, <1>8, <2>1, <2>2, <2>3 DEF TimersAlive
  <1>21. TimerKept'
    <2> SUFFICES ASSUME NEW n \in 1..created
                 PROVE  \/ Queued(n)' \/ Active(n)'
                        \/ (timer[issued[n].at].seq)' = n /\ InBatch(issued[n].at)'
                        \/ n \in cancelled' \/ (n \in hasRun' /\ issued'[n].interval = 0)
      BY <1>2 DEF TimerKept
    <2>1. Queued(n) \/ Active(n) \/ n \in cancelled \/ (n \in hasRun /\ issued[n].interval = 0)
      BY <1>9 DEF TimerInv, TimersSound, TimerKept
    <2>2. CASE Active(n)
      <3>1. PICK id \in activeTimers : id[2] = n
        BY <2>2 DEF Active
      <3>2. PICK b \in Addresses : b = id[1] /\ timer[b].seq = n
        BY ONLY <1>11, <3>1
      <3>3. issued[n].at = b
        <4>1. n # 0
          OBVIOUS
        <4>2. issued[n] = [at |-> b, interval |-> timer[b].interval]
          BY ONLY TimerInv, <3>2, <4>1 DEF TimerInv, IdsInv
        <4> QED BY ONLY <4>2
      <3>4. CASE id \in activeTimers'
        BY <3>1, <3>4 DEF Active
      <3>5. CASE id \notin activeTimers'
        <4>1. \E e \in due : e[2] = b
          BY ONLY <1>2, <3>1, <3>2, <3>5
        <4>2. InBatch(b)'
          BY ONLY <1>8, <4>1
        <4>3. (issued[n].at)' = b /\ (timer[issued[n].at].seq)' = n
          BY <1>2, <3>2, <3>3
        <4> QED BY <4>2, <4>3
      <3> QED BY <3>4, <3>5
    <2>3. Queued(n) => Queued(n)'
      BY <1>2 DEF Queued
    <2> QED BY <1>2, <2>1, <2>2, <2>3
  <1>22. AlarmSet'
    BY <1>2 DEF AlarmSet
  <1> QED BY <1>13, <1>14, <1>15, <1>16, <1>18, <1>19, <1>20, <1>21, <1>22 DEF TimerInv, TimersSound

\* reset: the periodic ones are queued again, the others gone, the alarm set.
LEMMA ResetKeeps ==
    ASSUME TimerInv, Reset
    PROVE  TimerInv'
  <1> DEFINE round == {finished[i][2] : i \in DOMAIN finished}
             again == {a \in round : Again(a)}
             over == round \ again
  <1>1. /\ loop = "calling" /\ batch = <<>> /\ loop' = "poll" /\ finished' = <<>> /\ callingExpired' = FALSE
        /\ timer' = [a \in Addresses |->
                        IF a \in over THEN NoTimer
                        ELSE IF a \in again THEN [timer[a] EXCEPT !.when = now + timer[a].interval]
                        ELSE timer[a]]
        /\ timers' = timers \cup {<<now + timer[a].interval, a>> : a \in again}
        /\ activeTimers' = activeTimers \cup {<<a, timer[a].seq>> : a \in again}
        /\ UNCHANGED <<cancelingTimers, batch, now, functors, clock, created, issued, hasRun, cancelled>>
    BY DEF Reset, timeVars, history
  <1>2. IF timers' # {} /\ Earliest(timers') > 0 THEN ResetTimerfd(Earliest(timers')) ELSE KeepTimerfd
    BY DEF Reset
  <1>3. /\ timer \in [Addresses -> [seq : Nat, when : Nat, interval : Nat]] /\ now \in Nat \ {0}
        /\ finished \in Seq(Nat \X Addresses) /\ clock \in Nat \ {0} /\ left \in Nat /\ rung \in BOOLEAN
    BY <1>1 DEF TimerInv, TimerSetsOK, RoundInv
  <1>4. round \subseteq Addresses /\ again \subseteq round /\ over \subseteq round /\ again \cap over = {}
    <2>1. \A i \in DOMAIN finished : finished[i] \in Nat \X Addresses
      BY ONLY <1>3, ElementOfSeq
    <2> QED BY <2>1
  <1>5. \A b : InRound(b) <=> b \in round
    <2>1. \A b : ~ InBatch(b)
      BY <1>1 DEF InBatch
    <2> QED BY <2>1 DEF InRound, Finished
  <1>6. \A b \in over : timer[b].interval = 0 \/ <<b, timer[b].seq>> \in cancelingTimers
    <2>1. ASSUME NEW b \in over
          PROVE  timer[b].interval = 0 \/ <<b, timer[b].seq>> \in cancelingTimers
      <3>1. ~ (timer[b].interval > 0 /\ <<b, timer[b].seq>> \notin cancelingTimers)
        BY DEF Again
      <3>2. timer[b] \in [seq : Nat, when : Nat, interval : Nat]
        BY ONLY <1>3, <1>4, b \in over
      <3>3. timer[b].interval \in Nat
        BY ONLY <3>2
      <3> QED BY ONLY <3>1, <3>3
    <2> QED BY <2>1
  <1>7. \A b \in again : <<b, timer[b].seq>> \notin cancelingTimers
    BY DEF Again
  <1> HIDE DEF round, again, over
  <1>8. /\ timers \subseteq (Nat \ {0}) \X Addresses
        /\ \A id \in activeTimers : id \in Addresses \X Nat /\ id[2] # 0 /\ id[1] \notin round /\ timer[id[1]].seq = id[2]
        /\ \A b \in round : timer[b].seq > 0
        /\ timers = {<<timer[id[1]].when, id[1]>> : id \in activeTimers}
    <2>1. \A b \in Addresses : ActiveAt(b) => ~ InRound(b)
      BY EntriesOf DEF TimerInv, TimersSound
    <2>2. \A id \in activeTimers : id \in Addresses \X Nat /\ id[2] # 0 /\ timer[id[1]].seq = id[2] /\ ActiveAt(id[1])
      BY DEF TimerInv, TimerSetsOK, PlacesInv, TimersSound, TimersAlive, ActiveAt
    <2>3. \A id \in activeTimers : id[1] \notin round
      BY <1>5, <2>1, <2>2
    <2>4. \A b \in round : timer[b].seq > 0
      BY <1>4, <1>5 DEF TimerInv, TimersSound, TimersAlive, InRound
    <2>5. timers \subseteq (Nat \ {0}) \X Addresses
      BY EntriesOf DEF TimerInv, TimersSound
    <2>6. timers = {<<timer[id[1]].when, id[1]>> : id \in activeTimers}
      BY DEF TimerInv, TimersSound, TimersAlive
    <2> QED BY <2>2, <2>3, <2>4, <2>5, <2>6
  <1>9. ASSUME NEW b \in Addresses
        PROVE  /\ timer'[b] \in [seq : Nat, when : Nat, interval : Nat]
               /\ b \notin round => timer'[b] = timer[b]
               /\ b \in over => timer'[b].seq = 0
               /\ b \in again => /\ timer'[b].seq = timer[b].seq /\ timer'[b].interval = timer[b].interval
                                 /\ timer'[b].when = now + timer[b].interval /\ timer'[b].when > 0
    <2>0. timer[b] \in [seq : Nat, when : Nat, interval : Nat]
      BY ONLY <1>3, b \in Addresses
    <2>1. CASE b \in over
      <3>1. timer'[b] = NoTimer
        BY ONLY <1>1, <2>1, b \in Addresses
      <3>2. NoTimer \in [seq : Nat, when : Nat, interval : Nat] /\ NoTimer.seq = 0
        BY DEF NoTimer
      <3> QED BY ONLY <1>4, <2>1, <3>1, <3>2
    <2>2. CASE b \in again
      <3>1. timer'[b] = [timer[b] EXCEPT !.when = now + timer[b].interval] /\ b \notin over /\ b \in round
        BY ONLY <1>1, <1>4, <2>2, b \in Addresses
      <3>2. PICK w \in Nat : w = now + timer[b].interval /\ w > 0
        BY ONLY <1>3, <2>0
      <3>3. timer'[b] = [timer[b] EXCEPT !.when = w]
        BY ONLY <3>1, <3>2
      <3>4. /\ timer'[b] \in [seq : Nat, when : Nat, interval : Nat]
            /\ timer'[b].seq = timer[b].seq /\ timer'[b].interval = timer[b].interval /\ timer'[b].when = w
        BY ONLY <2>0, <3>3
      <3> QED BY ONLY <3>1, <3>2, <3>4
    <2>3. CASE b \notin over /\ b \notin again
      <3>1. timer'[b] = timer[b]
        BY ONLY <1>1, <2>3, b \in Addresses
      <3> QED BY ONLY <2>0, <2>3, <3>1
    <2> QED BY <2>1, <2>2, <2>3
  <1>10. \A b \in round : b \in again \/ b \in over
    BY DEF over
  <1>11. \A b : ~ InBatch(b)' /\ ~ Finished(b)' /\ ~ InRound(b)'
    BY <1>1 DEF InBatch, Finished, InRound
  <1>12. \A id \in activeTimers' : /\ id \in Addresses \X Nat /\ id[2] # 0
                                   /\ timer'[id[1]].seq = id[2]
                                   /\ id \in activeTimers \/ (id[1] \in again /\ id[2] = timer[id[1]].seq)
    <2>1. ASSUME NEW id \in activeTimers
          PROVE  id \in Addresses \X Nat /\ id[2] # 0 /\ timer'[id[1]].seq = id[2]
      BY ONLY <1>8, <1>9, id \in activeTimers
    <2>2. ASSUME NEW b \in again, NEW id, id = <<b, timer[b].seq>>
          PROVE  id \in Addresses \X Nat /\ id[2] # 0 /\ timer'[id[1]].seq = id[2] /\ id[1] = b /\ id[2] = timer[b].seq
      <3>1. timer[b] \in [seq : Nat, when : Nat, interval : Nat] /\ b \in Addresses /\ timer[b].seq > 0
        BY ONLY <1>3, <1>4, <1>8, b \in again
      <3>2. timer[b].seq \in Nat /\ timer[b].seq # 0 /\ timer'[b].seq = timer[b].seq
        BY ONLY <1>9, <3>1, b \in again
      <3> QED BY ONLY <2>2, <3>1, <3>2
    <2>3. \A id \in activeTimers' : id \in activeTimers \/ \E b \in again : id = <<b, timer[b].seq>>
      BY ONLY <1>1
    <2> QED BY ONLY <2>1, <2>2, <2>3
  <1>13. timers' \subseteq (Nat \ {0}) \X Addresses
    <2>1. \A b \in again : now + timer[b].interval \in Nat \ {0} /\ b \in Addresses
      <3> SUFFICES ASSUME NEW b \in again PROVE now + timer[b].interval \in Nat \ {0} /\ b \in Addresses
        OBVIOUS
      <3>1. timer[b] \in [seq : Nat, when : Nat, interval : Nat] /\ b \in Addresses
        BY ONLY <1>3, <1>4, b \in again
      <3> QED BY ONLY <1>3, <3>1
    <2> QED BY ONLY <1>1, <1>8, <2>1
  <1>14. left' \in Nat /\ rung' \in BOOLEAN /\ (timers' # {} => left' > 0)
    <2>1. CASE timers' # {}
      <3> DEFINE times == {Expiration(e) : e \in timers'}
      <3>1. times \subseteq Nat \ {0} /\ times # {}
        BY <1>13, <2>1 DEF Expiration
      <3>2. Earliest(timers') = Min(times)
        BY DEF Earliest
      <3> HIDE DEF times
      <3>3. Earliest(timers') \in Nat /\ Earliest(timers') > 0
        <4>1. times \subseteq Nat
          BY ONLY <3>1
        <4>2. Min(times) \in times
          BY ONLY <3>1, <4>1, MinIs
        <4>3. PICK m \in Nat \ {0} : m = Min(times)
          BY ONLY <3>1, <4>2
        <4>4. m > 0 /\ m \in Nat
          OBVIOUS
        <4> QED BY ONLY <3>2, <4>3, <4>4
      <3>4. ResetTimerfd(Earliest(timers'))
        BY ONLY <1>2, <2>1, <3>3
      <3>5. PICK w \in Nat : w = Earliest(timers')
        BY ONLY <3>3
      <3>6. ResetTimerfd(w)
        BY <3>4, <3>5 DEF ResetTimerfd
      <3>7. left' \in Nat /\ left' > 0 /\ rung' = FALSE
        BY <1>3, <3>6, ArmedIs
      <3> QED BY ONLY <3>7
    <2>2. CASE timers' = {}
      BY <1>2, <1>3, <2>2 DEF KeepTimerfd
    <2> QED BY <2>1, <2>2
  <1>15. TimerSetsOK'
    <2>1. timer' \in [Addresses -> [seq : Nat, when : Nat, interval : Nat]]
      <3>1. DOMAIN timer' = Addresses /\ timer' = [a \in Addresses |-> timer'[a]]
        BY ONLY <1>1
      <3> QED BY ONLY <1>9, <3>1
    <2>2. /\ batch' \in Seq(Nat \X Addresses) /\ finished' \in Seq(Nat \X Addresses)
          /\ functors' \in Seq({"add", "cancel"} \X Addresses \X Nat)
          /\ created' \in Nat /\ issued' \in Seq([at : Addresses, interval : Nat])
          /\ Len(issued') = created'
      <3>1. <<>> \in Seq(Nat \X Addresses)
        BY EmptySeq
      <3> QED BY <1>1, <3>1 DEF TimerInv, TimerSetsOK
    <2>3. /\ loop' \in {"poll", "active", "calling", "callback"}
          /\ callingExpired' \in BOOLEAN /\ (callingExpired' <=> loop' \in {"calling", "callback"})
          /\ clock' \in Nat \ {0} /\ now' \in Nat
      BY ONLY <1>1, <1>3
    <2>4. activeTimers' \subseteq Addresses \X Nat
      BY ONLY <1>12
    <2> QED BY ONLY <1>14, <2>1, <2>2, <2>3, <2>4 DEF TimerSetsOK
  <1>16. IdsInv'
    <2> SUFFICES ASSUME NEW b \in Addresses, timer'[b].seq # 0
                 PROVE  /\ timer'[b].seq \in 1..created
                        /\ issued[timer'[b].seq] = [at |-> b, interval |-> timer'[b].interval]
                        /\ timer'[b].when > 0
      BY <1>1 DEF IdsInv
    <2>1. /\ timer'[b].seq = timer[b].seq /\ timer'[b].interval = timer[b].interval
          /\ timer'[b].when > 0 \/ timer'[b].when = timer[b].when
      BY ONLY <1>9, <1>10, b \in Addresses, timer'[b].seq # 0
    <2>2. /\ timer[b].seq \in 1..created
          /\ issued[timer[b].seq] = [at |-> b, interval |-> timer[b].interval]
          /\ timer[b].when > 0
      BY ONLY TimerInv, <2>1, b \in Addresses, timer'[b].seq # 0 DEF TimerInv, IdsInv
    <2> QED BY ONLY <2>1, <2>2
  <1>17. PlacesInv'
    <2>1. ASSUME NEW f, Placed(f), NEW i \in DOMAIN functors, f = functors[i]
          PROVE  Placed(f)'
      <3>1. f[2] \in Addresses
        BY <2>1, ElementOfSeq DEF TimerInv, TimerSetsOK
      <3>2. f[1] = "add" => f[2] \notin round /\ timer'[f[2]] = timer[f[2]]
        BY <1>5, <1>9, <2>1, <3>1 DEF Placed
      <3>3. ASSUME f[1] = "add" PROVE ~ ActiveAt(f[2])'
        <4>1. \A id \in activeTimers : id[1] # f[2]
          BY <2>1, <3>3 DEF Placed, ActiveAt
        <4>2. \A id \in activeTimers' : id[1] # f[2]
          BY ONLY <1>4, <1>12, <3>2, <3>3, <4>1
        <4> QED BY <4>2 DEF ActiveAt
      <3> QED BY <1>1, <1>11, <2>1, <3>2, <3>3 DEF Placed
    <2>2. \A id \in activeTimers' : id[2] # 0
      BY ONLY <1>12
    <2> QED BY <1>1, <2>1, <2>2, PlacesStay DEF TimerInv, FunctorsUsed
  <1>18. RoundInv'
    <2>1. \A i, j \in DOMAIN batch' : batch'[i][2] = batch'[j][2] => i = j
      BY <1>1
    <2> QED BY <1>1, <1>11, <2>1 DEF RoundInv
  <1>19. CancelInv'
    <2>1. \A n : Queued(n)' <=> Queued(n)
      BY <1>1 DEF Queued
    <2> QED BY <1>1, <1>11, <2>1 DEF TimerInv, CancelInv
  <1>20. CancelHolds'
    <2>1. \A b \in again : timer[b].seq \notin cancelled
      BY <1>4, <1>5, <1>7 DEF TimerInv, CancelInv
    <2>2. \A n : Active(n)' => Active(n) \/ n \notin cancelled
      BY <1>12, <2>1 DEF Active
    <2> QED BY <1>1, <2>2 DEF TimerInv, TimersSound, CancelHolds
  <1>21. TimersAlive'
    <2>1. timers' = {<<timer'[id[1]].when, id[1]>> : id \in activeTimers'}
      <3>1. ASSUME NEW e \in timers'
            PROVE  \E id \in activeTimers' : e = <<timer'[id[1]].when, id[1]>>
        <4>1. CASE e \in timers
          <5>1. PICK id \in activeTimers : e = <<timer[id[1]].when, id[1]>>
            BY ONLY <1>8, <4>1
          <5>2. timer'[id[1]] = timer[id[1]] /\ id \in activeTimers'
            BY ONLY <1>1, <1>8, <1>9, <5>1
          <5> QED BY ONLY <5>1, <5>2
        <4>2. CASE e \notin timers
          <5>1. PICK b \in again : e = <<now + timer[b].interval, b>>
            BY ONLY <1>1, <3>1, <4>2
          <5>2. PICK id \in activeTimers' : id = <<b, timer[b].seq>>
            BY ONLY <1>1, <5>1
          <5>3. timer'[b].when = now + timer[b].interval /\ id[1] = b
            BY ONLY <1>4, <1>9, <5>1, <5>2
          <5> QED BY ONLY <5>1, <5>2, <5>3
        <4> QED BY <4>1, <4>2
      <3>2. ASSUME NEW id \in activeTimers'
            PROVE  <<timer'[id[1]].when, id[1]>> \in timers'
        <4>1. CASE id \in activeTimers
          <5>1. timer'[id[1]] = timer[id[1]]
            BY ONLY <1>8, <1>9, <4>1
          <5>2. <<timer[id[1]].when, id[1]>> \in timers
            BY ONLY <1>8, <4>1
          <5> QED BY ONLY <1>1, <5>1, <5>2
        <4>2. CASE id \notin activeTimers
          <5>1. PICK b \in again : b = id[1]
            BY ONLY <1>12, <3>2, <4>2
          <5>2. timer'[b].when = now + timer[b].interval
            BY ONLY <1>4, <1>9, <5>1
          <5> QED BY ONLY <1>1, <5>1, <5>2
        <4> QED BY <4>1, <4>2
      <3> QED BY <3>1, <3>2
    <2>2. \A id \in activeTimers' : timer'[id[1]].seq = id[2]
      BY ONLY <1>12
    <2> QED BY <1>11, <2>1, <2>2 DEF TimersAlive
  <1>22. TimerKept'
    <2> SUFFICES ASSUME NEW n \in 1..created
                 PROVE  Queued(n)' \/ Active(n)' \/ n \in cancelled \/ (n \in hasRun /\ issued[n].interval = 0)
      BY <1>1 DEF TimerKept
    <2>1. \/ Queued(n) \/ Active(n)
          \/ timer[issued[n].at].seq = n /\ InRound(issued[n].at)
          \/ n \in cancelled \/ (n \in hasRun /\ issued[n].interval = 0)
      BY DEF TimerInv, TimersSound, TimerKept, InRound
    <2>2. Queued(n) => Queued(n)'
      BY <1>1 DEF Queued
    <2>3. Active(n) => Active(n)'
      BY <1>1 DEF Active
    <2>4. CASE timer[issued[n].at].seq = n /\ InRound(issued[n].at)
      <3>1. PICK b \in Addresses : b = issued[n].at
        BY IssuedIs DEF TimerInv
      <3>2. timer[b].seq = n /\ b \in round
        BY <1>5, <2>4, <3>1
      <3>3. CASE b \in again
        <4>1. <<b, n>> \in activeTimers'
          BY ONLY <1>1, <3>2, <3>3
        <4>2. <<b, n>>[2] = n
          OBVIOUS
        <4> QED BY <4>1, <4>2 DEF Active
      <3>4. CASE b \in over
        <4>1. Finished(b) /\ InRound(b)
          BY <1>1, <1>5, <3>2 DEF InRound, InBatch
        <4>2. n \in hasRun
          BY <3>2, <4>1 DEF TimerInv, RoundInv
        <4>3. issued[n].interval = timer[b].interval
          <5>1. n # 0
            OBVIOUS
          <5>2. issued[n] = [at |-> b, interval |-> timer[b].interval]
            BY ONLY TimerInv, <3>2, <5>1 DEF TimerInv, IdsInv
          <5> QED BY ONLY <5>2
        <4>4. <<b, timer[b].seq>> \in cancelingTimers => n \in cancelled
          BY <3>2, <4>1 DEF TimerInv, CancelInv
        <4> QED BY <1>6, <3>4, <4>2, <4>3, <4>4
      <3> QED BY <1>10, <3>2, <3>3, <3>4
    <2> QED BY <2>1, <2>2, <2>3, <2>4
  <1>23. AlarmSet'
    BY <1>14 DEF AlarmSet
  <1> QED BY <1>15, <1>16, <1>17, <1>18, <1>19, <1>20, <1>21, <1>22, <1>23 DEF TimerInv, TimersSound

LEMMA TimersBegin == TimerInit => TimerInv
  <1> SUFFICES ASSUME TimerInit PROVE TimerInv
    OBVIOUS
  <1>1. /\ timer = [a \in Addresses |-> NoTimer]
        /\ timers = {} /\ activeTimers = {} /\ cancelingTimers = {}
        /\ callingExpired = FALSE /\ batch = <<>> /\ finished = <<>> /\ now = 0
        /\ loop = "poll" /\ functors = <<>>
        /\ clock = 1 /\ left = 0 /\ rung = FALSE
        /\ created = 0 /\ issued = <<>> /\ hasRun = {} /\ cancelled = {}
    BY DEF TimerInit
  <1>2. TimerSetsOK
    <2>1. /\ NoTimer \in [seq : Nat, when : Nat, interval : Nat]
      BY DEF NoTimer
    <2>2. timer \in [Addresses -> [seq : Nat, when : Nat, interval : Nat]]
      BY <1>1, <2>1
    <2>3. /\ batch \in Seq(Nat \X Addresses) /\ finished \in Seq(Nat \X Addresses)
          /\ functors \in Seq({"add", "cancel"} \X Addresses \X Nat)
          /\ issued \in Seq([at : Addresses, interval : Nat])
          /\ Len(issued) = 0
      BY <1>1
    <2>4. /\ activeTimers \subseteq Addresses \X Nat
          /\ loop \in {"poll", "active", "calling", "callback"}
          /\ callingExpired \in BOOLEAN /\ (callingExpired <=> loop \in {"calling", "callback"})
      BY ONLY <1>1
    <2>5. /\ clock \in Nat \ {0} /\ now \in Nat /\ left \in Nat /\ rung \in BOOLEAN
          /\ created \in Nat /\ Len(issued) = created
      <3>1. clock = 1 /\ now = 0 /\ left = 0 /\ rung = FALSE /\ created = 0 /\ Len(issued) = 0
        BY <1>1, <2>3
      <3>2. rung \in BOOLEAN
        BY ONLY <3>1
      <3>3. clock \in Nat \ {0} /\ now \in Nat /\ left \in Nat /\ created \in Nat /\ Len(issued) = created
        <4>1. clock = 1 /\ now = 0 /\ left = 0 /\ created = 0 /\ Len(issued) = 0
          BY <3>1
        <4> QED BY ONLY <4>1
      <3> QED BY ONLY <3>2, <3>3
    <2> QED BY ONLY <2>2, <2>3, <2>4, <2>5 DEF TimerSetsOK
  <1>3. \A a \in Addresses : timer[a].seq = 0
    BY <1>1 DEF NoTimer
  <1>4. \A b : ~ InBatch(b) /\ ~ Finished(b)
    BY <1>1 DEF InBatch, Finished
  <1>5. IdsInv /\ PlacesInv /\ RoundInv /\ CancelInv
    BY <1>1, <1>3, <1>4 DEF IdsInv, PlacesInv, RoundInv, CancelInv, InRound
  <1>6. TimersSound
    BY <1>1, <1>3, <1>4 DEF TimersSound, TimersAlive, TimerKept, CancelHolds, AlarmSet, Active
  <1> QED BY <1>2, <1>5, <1>6 DEF TimerInv

LEMMA TimersStep == TimerInv /\ [TimerNext]_timerVars => TimerInv'
  <1> SUFFICES ASSUME TimerInv, [TimerNext]_timerVars PROVE TimerInv'
    OBVIOUS
  <1>1. CASE TimerfdActive \/ Tick \/ SetBack
    BY <1>1, TimePasses
  <1>2. CASE HandleRead
    BY <1>2, HandleReadKeeps
  <1>3. CASE RunTimer
    BY <1>3, RunTimerKeeps
  <1>4. CASE CallbackReturns
    BY <1>4, CallbackReturnsKeeps
  <1>5. CASE Reset
    BY <1>5, ResetKeeps
  <1>6. CASE RunFunctor
    BY <1>6, RunFunctorKeeps
  <1>7. ASSUME NEW a \in Addresses, NEW d \in Delays, NEW i \in Intervals,
               AddTimer(a, d, i) \/ AddTimerFromOther(a, d, i)
        PROVE  TimerInv'
    BY <1>7, AddTimerKeeps, AddFromOtherKeeps
  <1>8. ASSUME NEW s \in 1..created, Cancel(s)
        PROVE  TimerInv'
    BY <1>8, CancelKeeps DEF Cancel, FunctorsUsed
  <1>9. ASSUME NEW s \in 1..created, CancelFromOther(s)
        PROVE  TimerInv'
    BY <1>9, CancelFromOtherKeeps
  <1>10. CASE UNCHANGED timerVars
    <2>1. UNCHANGED <<timer, timers, activeTimers, cancelingTimers, callingExpired, batch, finished, now, loop,
                      functors, clock, left, rung, created, issued, hasRun, cancelled>>
      BY <1>10 DEF timerVars, queueVars, batchVars, timeVars, history
    <2>2. /\ IdsInv' /\ TimersAlive' /\ CancelHolds' /\ TimerKept' /\ CancelInv'
          /\ \A b : (InBatch(b)' <=> InBatch(b)) /\ (Finished(b)' <=> Finished(b))
          /\ \A g : Placed(g)' <=> Placed(g)
      <3>1. \A s : Queued(s)' <=> Queued(s)
        BY <2>1 DEF Queued
      <3> QED BY <2>1, <3>1, QuietKeeps
    <2>3. PlacesInv'
      BY <2>1, <2>2, PlacesStay DEF TimerInv, PlacesInv, FunctorsUsed
    <2>4. TimerSetsOK'
      BY <2>1 DEF TimerInv, TimerSetsOK
    <2>5. RoundInv'
      BY <2>1, <2>2 DEF TimerInv, RoundInv
    <2>6. AlarmSet'
      BY <2>1 DEF TimerInv, TimersSound, AlarmSet
    <2> QED BY <2>2, <2>3, <2>4, <2>5, <2>6 DEF TimerInv, TimersSound
  <1> QED BY <1>1, <1>2, <1>3, <1>4, <1>5, <1>6, <1>7, <1>8, <1>9, <1>10 DEF TimerNext, HandleTimers

\* The timer queue: nothing deleted is used, no timer is lost, a cancelled one does not
\* come back, and the timerfd is armed when the loop waits with timers in the queue
\* (TimerQueue.cc: addTimerInLoop, cancelInLoop, getExpired, handleRead, reset).
THEOREM TimersAreSound == TimerSpec => []TimersSound
  <1>1. TimerInit => TimerInv
    BY TimersBegin
  <1>2. TimerInv /\ [TimerNext]_timerVars => TimerInv'
    BY TimersStep
  <1>3. TimerInv => TimersSound
    BY DEF TimerInv
  <1> QED BY <1>1, <1>2, <1>3, PTL DEF TimerSpec

-----------------------------------------------------------------------------
(* What FlattenSeq makes of a sequence of buffers. *)

\* The function that FlattenSeq evaluates: what comes of the first i sequences.
Flattens(f, s) == f = [i \in 1..Len(s) |-> IF i = 1 THEN s[i] ELSE f[i - 1] \o s[i]]

\* There is such a function,
LEMMA FlattenExists ==
    ASSUME NEW S, NEW s \in Seq(Seq(S))
    PROVE  \E f : Flattens(f, s) /\ \A i \in 1..Len(s) : f[i] \in Seq(S)
  <1> DEFINE Good(f, k) == /\ f = [i \in 1..k |-> IF i = 1 THEN s[i] ELSE f[i - 1] \o s[i]]
                           /\ \A i \in 1..k : f[i] \in Seq(S)
             Bad == {k \in 0..Len(s) : ~ \E f : Good(f, k)}
  <1>0. Len(s) \in Nat /\ \A i \in 1..Len(s) : s[i] \in Seq(S)
    BY LenProperties, ElementOfSeq
  <1>1. ASSUME Len(s) \notin Bad PROVE \E f : Flattens(f, s) /\ \A i \in 1..Len(s) : f[i] \in Seq(S)
    <2>1. Len(s) \in 0..Len(s)
      BY <1>0
    <2>2. PICK f : Good(f, Len(s))
      BY <1>1, <2>1
    <2>3. Flattens(f, s) /\ \A i \in 1..Len(s) : f[i] \in Seq(S)
      BY <2>2 DEF Flattens
    <2> QED BY <2>3
  <1>2. SUFFICES ASSUME Bad # {} PROVE FALSE
    <2> HIDE DEF Bad
    <2> QED BY <1>1
  <1>3. PICK m \in Bad : \A n \in Bad : m <= n
    <2>1. Bad \subseteq 0..Len(s)
      OBVIOUS
    <2> HIDE DEF Bad
    <2>2. Bad \subseteq Nat
      BY <1>0, <2>1
    <2> QED BY <1>2, <2>2, MinIs
  <1>4. m # 0
    <2>1. Good([i \in 1..0 |-> s[1]], 0)
      OBVIOUS
    <2> QED BY <2>1, <1>3
  <1>5. m - 1 \in 0..Len(s) /\ m - 1 \notin Bad /\ m \in 1..Len(s)
    <2>1. m \in 0..Len(s) /\ m - 1 \notin Bad
      <3>1. m \in 0..Len(s)
        BY <1>3
      <3>2. ~ (m <= m - 1)
        BY <1>0, <3>1
      <3> HIDE DEF Bad
      <3> QED BY <1>3, <3>1, <3>2
    <2> HIDE DEF Bad
    <2> QED BY <1>0, <1>4, <2>1
  <1>6. PICK f : Good(f, m - 1)
    BY <1>5
  <1> DEFINE g == [i \in 1..m |-> IF i < m THEN f[i] ELSE IF m = 1 THEN s[1] ELSE f[m - 1] \o s[m]]
  <1>7. \A i \in 1..m - 1 : g[i] = f[i] /\ f[i] = (IF i = 1 THEN s[i] ELSE f[i - 1] \o s[i])
    <2>1. \A i \in 1..m - 1 : g[i] = f[i]
      BY <1>5
    <2>2. \A i \in 1..m - 1 : f[i] = (IF i = 1 THEN s[i] ELSE f[i - 1] \o s[i])
      BY <1>6
    <2> QED BY <2>1, <2>2
  <1>8. g[m] = IF m = 1 THEN s[m] ELSE g[m - 1] \o s[m]
    BY <1>5, <1>7
  <1>9. \A i \in 1..m : g[i] = (IF i = 1 THEN s[i] ELSE g[i - 1] \o s[i])
    <2> SUFFICES ASSUME NEW i \in 1..m PROVE g[i] = IF i = 1 THEN s[i] ELSE g[i - 1] \o s[i]
      OBVIOUS
    <2>1. CASE i = m
      BY <1>8, <2>1
    <2>2. CASE i # m
      <3>1. i \in 1..m - 1 /\ (i # 1 => i - 1 \in 1..m - 1)
        BY <1>5, <2>2
      <3> HIDE DEF g
      <3> QED BY <1>7, <3>1
    <2> QED BY <2>1, <2>2
  <1>10. \A i \in 1..m : g[i] \in Seq(S)
    <2> SUFFICES ASSUME NEW i \in 1..m PROVE g[i] \in Seq(S)
      OBVIOUS
    <2>1. CASE i # m
      BY <1>5, <1>6, <1>7, <2>1
    <2>2. CASE i = m
      <3>1. s[m] \in Seq(S) /\ (m # 1 => g[m - 1] \in Seq(S))
        <4>1. m # 1 => m - 1 \in 1..m - 1
          BY <1>5
        <4> HIDE DEF g
        <4> QED BY <1>0, <1>5, <1>6, <1>7, <4>1
      <3>2. m # 1 => g[m - 1] \o s[m] \in Seq(S)
        BY <3>1, ConcatProperties
      <3> HIDE DEF g
      <3> QED BY <1>8, <2>2, <3>1, <3>2
    <2> QED BY <2>1, <2>2
  <1>11. g = [i \in 1..m |-> IF i = 1 THEN s[i] ELSE g[i - 1] \o s[i]]
    <2>1. DOMAIN g = 1..m
      OBVIOUS
    <2> DEFINE h == [i \in 1..m |-> IF i = 1 THEN s[i] ELSE g[i - 1] \o s[i]]
    <2>2. DOMAIN h = 1..m /\ \A i \in 1..m : h[i] = g[i]
      <3> HIDE DEF g
      <3> QED BY <1>9
    <2>3. g = [i \in 1..m |-> g[i]]
      OBVIOUS
    <2>4. h = [i \in 1..m |-> h[i]]
      OBVIOUS
    <2> HIDE DEF g, h
    <2>5. g = h
      BY <2>2, <2>3, <2>4
    <2> QED BY <2>5 DEF h
  <1> HIDE DEF g
  <1>12. Good(g, m)
    BY <1>10, <1>11
  <1> QED BY <1>3, <1>12

\* and only one.
LEMMA FlattenUnique ==
    ASSUME NEW S, NEW s \in Seq(Seq(S)), NEW f, NEW g, Flattens(f, s), Flattens(g, s)
    PROVE  f = g
  <1> DEFINE Bad == {k \in 1..Len(s) : f[k] # g[k]}
  <1>0. Len(s) \in Nat
    BY LenProperties
  <1>1. \A i \in 1..Len(s) : /\ f[i] = (IF i = 1 THEN s[i] ELSE f[i - 1] \o s[i])
                             /\ g[i] = (IF i = 1 THEN s[i] ELSE g[i - 1] \o s[i])
    BY DEF Flattens
  <1>2. f = [i \in 1..Len(s) |-> f[i]] /\ g = [i \in 1..Len(s) |-> g[i]]
    BY DEF Flattens
  <1>3. Bad = {}
    <2>0. SUFFICES ASSUME Bad # {} PROVE FALSE
      OBVIOUS
    <2>1. PICK m \in Bad : \A n \in Bad : m <= n
      <3>1. Bad \in SUBSET Nat
        BY <1>0
      <3> HIDE DEF Bad
      <3> QED BY <2>0, <3>1, MinIs
    <2>2. m \in 1..Len(s) /\ (m # 1 => m - 1 \in 1..Len(s) /\ m - 1 \notin Bad)
      BY <1>0, <2>1
    <2>3. f[m] = g[m]
      BY <1>1, <2>2
    <2> QED BY <2>1, <2>3
  <1> QED BY <1>2, <1>3

LEMMA FlattenIs ==
    ASSUME NEW S, NEW s \in Seq(Seq(S)), s # <<>>, NEW f, Flattens(f, s)
    PROVE  FlattenSeq(s) = f[Len(s)]
  <1>1. Len(s) # 0
    BY EmptySeq
  <1> DEFINE g == CHOOSE x : Flattens(x, s)
  <1>2. FlattenSeq(s) = g[Len(s)]
    BY <1>1 DEF FlattenSeq, Flattens
  <1>3. Flattens(g, s)
    OBVIOUS
  <1> HIDE DEF g
  <1>4. f = g
    BY <1>3, FlattenUnique
  <1> QED BY <1>2, <1>4

\* Flattening sequence by sequence.
LEMMA FlattenOfNone == FlattenSeq(<<>>) = <<>>
  BY EmptySeq DEF FlattenSeq

LEMMA FlattenAppend ==
    ASSUME NEW S, NEW s \in Seq(Seq(S)), NEW a \in Seq(S)
    PROVE  /\ FlattenSeq(s) \in Seq(S)
           /\ FlattenSeq(Append(s, a)) = FlattenSeq(s) \o a
  <1>0. Len(s) \in Nat /\ \A i \in 1..Len(s) : s[i] \in Seq(S)
    BY LenProperties, ElementOfSeq
  <1>1. /\ Append(s, a) \in Seq(Seq(S)) /\ Append(s, a) # <<>>
        /\ Len(Append(s, a)) = Len(s) + 1 /\ Append(s, a)[Len(s) + 1] = a
        /\ \A i \in 1..Len(s) : Append(s, a)[i] = s[i]
    BY AppendProperties
  <1>2. PICK f : Flattens(f, Append(s, a)) /\ \A i \in 1..Len(Append(s, a)) : f[i] \in Seq(S)
    BY <1>1, FlattenExists
  <1>3. FlattenSeq(Append(s, a)) = f[Len(s) + 1]
    BY <1>1, <1>2, FlattenIs
  <1>4. \A i \in 1..Len(s) + 1 : f[i] = (IF i = 1 THEN Append(s, a)[i] ELSE f[i - 1] \o Append(s, a)[i])
    BY <1>1, <1>2 DEF Flattens
  <1>5. CASE s = <<>>
    <2>1. Len(s) = 0 /\ FlattenSeq(s) = <<>> /\ <<>> \in Seq(S)
      BY <1>5, EmptySeq, FlattenOfNone
    <2>2. f[1] = a
      BY <1>1, <1>4, <2>1
    <2>3. <<>> \o a = a
      BY ConcatEmptySeq
    <2> QED BY <1>3, <2>1, <2>2, <2>3
  <1>6. CASE s # <<>>
    <2>0. Len(s) # 0
      BY <1>6, EmptySeq
    <2> DEFINE g == [i \in 1..Len(s) |-> f[i]]
    <2>1. \A i \in 1..Len(s) : g[i] = (IF i = 1 THEN s[i] ELSE g[i - 1] \o s[i])
      <3> SUFFICES ASSUME NEW i \in 1..Len(s) PROVE g[i] = (IF i = 1 THEN s[i] ELSE g[i - 1] \o s[i])
        OBVIOUS
      <3>1. i \in 1..Len(s) + 1 /\ (i # 1 => i - 1 \in 1..Len(s))
        BY <1>0
      <3> QED BY <1>1, <1>4, <3>1
    <2>2. Flattens(g, s)
      <3> DEFINE h == [i \in 1..Len(s) |-> IF i = 1 THEN s[i] ELSE g[i - 1] \o s[i]]
      <3>1. DOMAIN g = DOMAIN h /\ \A i \in DOMAIN g : g[i] = h[i]
        <4>1. DOMAIN g = 1..Len(s) /\ DOMAIN h = 1..Len(s)
          OBVIOUS
        <4>2. \A i \in 1..Len(s) : h[i] = (IF i = 1 THEN s[i] ELSE g[i - 1] \o s[i])
          OBVIOUS
        <4> HIDE DEF g, h
        <4> QED BY <2>1, <4>1, <4>2
      <3>2. g = [i \in DOMAIN g |-> g[i]] /\ h = [i \in DOMAIN h |-> h[i]]
        OBVIOUS
      <3>3. g = h
        <4> HIDE DEF g, h
        <4> QED BY <3>1, <3>2
      <3> QED BY <3>3 DEF Flattens
    <2>3. FlattenSeq(s) = g[Len(s)]
      <3> HIDE DEF g
      <3> QED BY <1>6, <2>2, FlattenIs
    <2>4. g[Len(s)] = f[Len(s)] /\ f[Len(s)] \in Seq(S)
      BY <1>0, <1>1, <1>2, <2>0
    <2>5. f[Len(s) + 1] = f[Len(s)] \o a
      <3>1. PICK n \in Nat : n = Len(s) /\ n # 0
        BY <1>0, <2>0
      <3>2. n + 1 \in 1..n + 1 /\ n + 1 # 1 /\ n + 1 - 1 = n
        BY <3>1
      <3>3. f[n + 1] = f[n] \o Append(s, a)[n + 1]
        <4>1. PICK k \in 1..Len(s) + 1 : k = n + 1
          BY <3>1
        <4>2. f[k] = (IF k = 1 THEN Append(s, a)[k] ELSE f[k - 1] \o Append(s, a)[k])
          BY ONLY <1>4, <4>1
        <4>3. k # 1 /\ k - 1 = n
          BY <3>1, <4>1
        <4> QED BY <4>1, <4>2, <4>3
      <3> QED BY <1>1, <3>1, <3>3
    <2> QED BY <1>3, <2>3, <2>4, <2>5
  <1> QED BY <1>5, <1>6

LEMMA FlattenConcat ==
    ASSUME NEW S, NEW s \in Seq(Seq(S)), NEW t \in Seq(Seq(S))
    PROVE  FlattenSeq(s \o t) = FlattenSeq(s) \o FlattenSeq(t)
  <1> DEFINE Part(k) == SubSeq(t, 1, k)
             Bad == {k \in 0..Len(t) : FlattenSeq(s \o Part(k)) # FlattenSeq(s) \o FlattenSeq(Part(k))}
  <1>0. /\ Len(t) \in Nat /\ \A i \in 1..Len(t) : t[i] \in Seq(S)
        /\ FlattenSeq(s) \in Seq(S) /\ <<>> \in Seq(S)
    <2>1. <<>> \in Seq(S)
      BY EmptySeq
    <2> QED BY <2>1, LenProperties, ElementOfSeq, FlattenAppend
  <1>1. Part(Len(t)) = t
    BY <1>0, SubSeqFull
  <1>2. SUFFICES ASSUME Bad # {} PROVE FALSE
    <2>1. Len(t) \in 0..Len(t)
      BY <1>0
    <2>2. Len(t) \notin Bad => FlattenSeq(s \o Part(Len(t))) = FlattenSeq(s) \o FlattenSeq(Part(Len(t)))
      BY <2>1
    <2> HIDE DEF Bad, Part
    <2> QED BY <1>1, <2>2
  <1>3. PICK m \in Bad : \A n \in Bad : m <= n
    <2>1. Bad \subseteq Nat
      BY <1>0
    <2> HIDE DEF Bad
    <2> QED BY <1>2, <2>1, MinIs
  <1>4. m \in 0..Len(t)
    BY <1>3
  <1>5. m # 0
    <2>1. Part(0) = <<>>
      BY <1>0, SubSeqEmpty
    <2>2. s \o <<>> = s /\ FlattenSeq(s) \o <<>> = FlattenSeq(s)
      BY <1>0, ConcatEmptySeq
    <2> QED BY <1>3, <2>1, <2>2, FlattenOfNone
  <1>6. m - 1 \in 0..Len(t) /\ m - 1 \notin Bad
    <2>1. ~ (m <= m - 1) /\ m - 1 \in 0..Len(t)
      BY <1>0, <1>4, <1>5
    <2> HIDE DEF Bad
    <2> QED BY <1>3, <2>1
  <1>7. FlattenSeq(s \o Part(m - 1)) = FlattenSeq(s) \o FlattenSeq(Part(m - 1))
    BY <1>6
  <1>8. Part(m - 1) \in Seq(Seq(S)) /\ t[m] \in Seq(S)
    BY <1>0, <1>4, <1>5, <1>6, SubSeqProperties
  <1>9. Part(m) = Append(Part(m - 1), t[m])
    <2>1. m \in 1..Len(t) /\ 1 \in 1..Len(t)
      BY <1>0, <1>4, <1>5
    <2>2. Part(m) = Part(m - 1) \o <<t[m]>>
      BY <2>1, SubSeqRecursiveSecond
    <2> HIDE DEF Part
    <2> QED BY <1>8, <2>2, AppendIsConcat
  <1> HIDE DEF Part
  <1>10. /\ FlattenSeq(Part(m)) = FlattenSeq(Part(m - 1)) \o t[m]
         /\ FlattenSeq(Part(m - 1)) \in Seq(S)
    BY <1>8, <1>9, FlattenAppend
  <1>11. s \o Part(m) = Append(s \o Part(m - 1), t[m]) /\ s \o Part(m - 1) \in Seq(Seq(S))
    <2> DEFINE y == Part(m - 1)  z == t[m]
    <2>1. s \in Seq(Seq(S)) /\ y \in Seq(Seq(S)) /\ z \in Seq(S) /\ Part(m) = Append(y, z)
      BY <1>8, <1>9
    <2> HIDE DEF y, z
    <2>2. s \o y \in Seq(Seq(S))
      BY <2>1, ConcatProperties
    <2> DEFINE one == <<z>>
    <2>3. Append(y, z) = y \o one /\ Append(s \o y, z) = (s \o y) \o one /\ one \in Seq(Seq(S))
      BY <2>1, <2>2, AppendIsConcat
    <2> HIDE DEF one
    <2>4. s \in Seq(Seq(S)) /\ y \in Seq(Seq(S)) /\ one \in Seq(Seq(S))
      BY <2>1, <2>3
    <2>5. (s \o y) \o one = s \o (y \o one)
      BY ONLY <2>4, ConcatAssociative, SMTT(60)
    <2> QED BY <2>1, <2>2, <2>3, <2>5 DEF y, z
  <1>12. FlattenSeq(s \o Part(m)) = FlattenSeq(s \o Part(m - 1)) \o t[m]
    BY <1>8, <1>11, FlattenAppend
  <1>13. FlattenSeq(s) \o FlattenSeq(Part(m)) = (FlattenSeq(s) \o FlattenSeq(Part(m - 1))) \o t[m]
    <2> DEFINE x == FlattenSeq(s)  y == FlattenSeq(Part(m - 1))  z == t[m]
    <2>1. x \in Seq(S) /\ y \in Seq(S) /\ z \in Seq(S)
      BY <1>0, <1>8, <1>10
    <2> HIDE DEF x, y, z
    <2>2. x \o (y \o z) = (x \o y) \o z
      <3>1. PICK X, Y, Z : X = x /\ Y = y /\ Z = z
        OBVIOUS
      <3>2. X \in Seq(S) /\ Y \in Seq(S) /\ Z \in Seq(S)
        BY ONLY <2>1, <3>1
      <3>3. (X \o Y) \o Z = X \o (Y \o Z)
        <4>1. X \in Seq(S)
          BY ONLY <3>2
        <4>2. Y \in Seq(S)
          BY ONLY <3>2
        <4>3. Z \in Seq(S)
          BY ONLY <3>2
        <4> QED BY ONLY <4>1, <4>2, <4>3, ConcatAssociative, SMTT(60)
      <3> QED BY ONLY <3>1, <3>3
    <2> QED BY <1>10, <2>2 DEF x, y, z
  <1> QED BY <1>3, <1>7, <1>12, <1>13

-----------------------------------------------------------------------------
(* AsyncLogging *)

\* The buffers of append and of the logging thread.  When append has used the next
\* buffer, one is full; so two are taken, and there are two to be made spare again.
Buffers == Seq(Nat \X LineLengths)
FrontInv ==
    /\ lines \in Nat
    /\ \E b \in Buffers : currentBuffer_ = <<b>>
    /\ buffers_ \in Seq(Buffers)
    /\ nextBuffer_ \in {Null, FreshBuffer}
    /\ nextBuffer_ = Null => buffers_ # <<>>
BackInv ==
    /\ owner = "made" => logAt = "none"
    /\ buffersToWrite \in Seq(Buffers)
    /\ logAt # "write" => buffersToWrite = <<>>
    /\ logAt \in {"loop", "lock", "waiting", "woken"} => newBuffer1 = FreshBuffer /\ newBuffer2 = FreshBuffer
    /\ logAt = "write" => /\ buffersToWrite # <<>>
                          /\ newBuffer2 = FreshBuffer \/ (newBuffer2 = Null /\ Len(buffersToWrite) >= 2)
LogInv == FrontInv /\ BackInv

LEMMA LogStarts == LogInit => LogInv
  <1> SUFFICES ASSUME LogInit PROVE LogInv
    OBVIOUS
  <1>1. <<>> \in Buffers /\ <<>> \in Seq(Buffers)
    BY EmptySeq DEF Buffers
  <1> QED BY <1>1 DEF LogInit, LogInv, FrontInv, BackInv, FreshBuffer, Empty, Null

\* append: the current buffer is full or takes the line.
LEMMA AppendKeeps == ASSUME LogInv, NEW len \in LineLengths, AppendLine(len) PROVE LogInv'
  <1>1. PICK b \in Buffers : currentBuffer_ = <<b>>
    BY DEF LogInv, FrontInv
  <1>2. lines \in Nat /\ lines' = lines + 1 /\ <<lines + 1, len>> \in Nat \X LineLengths
    BY DEF LogInv, FrontInv, AppendLine
  <1>3. \A s \in Buffers : Append(s, <<lines + 1, len>>) \in Buffers
    BY <1>2, AppendProperties DEF Buffers
  <1>4. UNCHANGED <<newBuffer1, newBuffer2, buffersToWrite, owner>>
        /\ (logAt' = logAt \/ (logAt = "waiting" /\ logAt' = "woken"))
    BY DEF AppendLine, backVars, NotifyLog
  <1>5. BackInv'
    BY <1>4 DEF LogInv, BackInv
  <1>6. CASE currentBuffer_' = <<Append(currentBuffer_[1], <<lines + 1, len>>)>> /\ UNCHANGED <<nextBuffer_, buffers_>>
    BY <1>1, <1>2, <1>3, <1>5, <1>6 DEF LogInv, FrontInv
  <1>7. CASE /\ buffers_' = buffers_ \o currentBuffer_ /\ nextBuffer_' = Null
             /\ currentBuffer_' = <<Append((IF nextBuffer_ # Null THEN nextBuffer_ ELSE FreshBuffer)[1], <<lines + 1, len>>)>>
    <2>1. buffers_' = Append(buffers_, b) /\ buffers_ \in Seq(Buffers)
      BY <1>1, <1>7, AppendIsConcat DEF LogInv, FrontInv
    <2>2. buffers_' \in Seq(Buffers) /\ buffers_' # <<>>
      BY <2>1, AppendProperties
    <2>3. (IF nextBuffer_ # Null THEN nextBuffer_ ELSE FreshBuffer) = <<Empty>>
      BY DEF LogInv, FrontInv, FreshBuffer
    <2>4. currentBuffer_' = <<Append(Empty, <<lines + 1, len>>)>> /\ Empty \in Buffers
      <3>1. Empty \in Buffers
        BY EmptySeq DEF Empty, Buffers
      <3>2. <<Empty>>[1] = Empty
        OBVIOUS
      <3> QED BY <1>7, <2>3, <3>1, <3>2
    <2> QED BY <1>2, <1>3, <1>5, <1>7, <2>2, <2>4 DEF LogInv, FrontInv
  <1> QED BY <1>6, <1>7 DEF AppendLine

\* The swap: the front gets the spare buffers, the thread what was filled.
LEMMA TakeKeeps == ASSUME LogInv, logAt \in {"lock", "woken"}, TakeBuffers PROVE LogInv'
  <1>1. PICK b \in Buffers : currentBuffer_ = <<b>>
    BY DEF LogInv, FrontInv
  <1>2. buffers_ \in Seq(Buffers) /\ newBuffer1 = FreshBuffer /\ newBuffer2 = FreshBuffer
    BY DEF LogInv, FrontInv, BackInv
  <1>3. buffersToWrite' = Append(buffers_, b)
    BY <1>1, <1>2, AppendIsConcat DEF TakeBuffers
  <1>4. buffersToWrite' \in Seq(Buffers) /\ buffersToWrite' # <<>> /\ Len(buffersToWrite') = Len(buffers_) + 1
    BY <1>2, <1>3, AppendProperties
  <1>5. buffers_ # <<>> => Len(buffersToWrite') >= 2
    BY <1>2, <1>4, EmptySeq, LenProperties
  <1>6. /\ nextBuffer_' \in {Null, FreshBuffer} /\ nextBuffer_' # Null
        /\ newBuffer2' = FreshBuffer \/ (newBuffer2' = Null /\ buffers_ # <<>>)
    <2>1. nextBuffer_ \in {Null, FreshBuffer} /\ (nextBuffer_ = Null => buffers_ # <<>>) /\ FreshBuffer # Null
      BY DEF LogInv, FrontInv, Null, FreshBuffer
    <2>2. CASE nextBuffer_ = Null /\ nextBuffer_' = newBuffer2 /\ newBuffer2' = Null
      BY ONLY <1>2, <2>1, <2>2
    <2>3. CASE nextBuffer_ # Null /\ UNCHANGED <<nextBuffer_, newBuffer2>>
      BY ONLY <1>2, <2>1, <2>3
    <2> QED BY <2>2, <2>3 DEF TakeBuffers
  <1>7. /\ buffers_' = <<>> /\ currentBuffer_' = <<Empty>> /\ logAt' = "write" /\ lines' = lines
        /\ owner' = owner /\ owner # "made"
        /\ <<>> \in Seq(Buffers) /\ Empty \in Buffers
    BY <1>2, EmptySeq DEF TakeBuffers, FreshBuffer, Empty, Buffers, LogInv, BackInv
  <1> QED BY <1>4, <1>5, <1>6, <1>7 DEF LogInv, FrontInv, BackInv

\* Two buffers are kept of too many, and made spare again.
LEMMA DropKeeps == ASSUME LogInv, DropBuffers PROVE LogInv'
  <1>1. /\ buffersToWrite \in Seq(Buffers) /\ Len(buffersToWrite) \in Nat /\ Len(buffersToWrite) > 2
        /\ buffersToWrite' = SubSeq(buffersToWrite, 1, 2)
    BY LogAssumption, LenProperties DEF DropBuffers, LogInv, BackInv
  <1>2. \A i \in 1..2 : buffersToWrite[i] \in Buffers
    BY <1>1, ElementOfSeq
  <1>3. buffersToWrite' \in Seq(Buffers) /\ Len(buffersToWrite') = 2
    BY <1>1, <1>2, SubSeqProperties
  <1>4. buffersToWrite' # <<>>
    BY <1>3, EmptySeq
  <1> QED BY <1>3, <1>4 DEF DropBuffers, LogInv, FrontInv, BackInv, frontVars

LEMMA RefillKeeps == ASSUME LogInv, RefillBuffers PROVE LogInv'
  <1>1. /\ buffersToWrite \in Seq(Buffers) /\ Len(buffersToWrite) \in Nat
        /\ newBuffer2 = FreshBuffer \/ (newBuffer2 = Null /\ Len(buffersToWrite) >= 2)
    BY LenProperties DEF RefillBuffers, LogInv, BackInv
  <1>2. newBuffer1' = FreshBuffer
    BY DEF RefillBuffers, ResetBuffer, FreshBuffer
  <1>3. newBuffer2' = FreshBuffer
    <2>1. CASE newBuffer2 = FreshBuffer
      BY <2>1 DEF RefillBuffers, FreshBuffer, Null
    <2>2. CASE newBuffer2 = Null /\ Len(buffersToWrite) >= 2
      <3>1. PICK n \in Nat : n = Len(buffersToWrite) /\ n >= 2
        BY <1>1, <2>2
      <3>2. Min({2, n}) = 2
        BY <3>1 DEF Min
      <3>3. \A i \in 1..2 : buffersToWrite[i] \in Buffers
        BY <1>1, <2>2, ElementOfSeq
      <3>4. Len(SubSeq(buffersToWrite, 1, 2)) = 2
        BY <1>1, <3>3, SubSeqProperties
      <3>5. Len(KeptBuffers) = 2
        BY <3>1, <3>2, <3>4 DEF KeptBuffers
      <3> QED BY <2>2, <3>5 DEF RefillBuffers, ResetBuffer, FreshBuffer
    <2> QED BY <1>1, <2>1, <2>2
  <1> QED BY <1>2, <1>3, EmptySeq DEF RefillBuffers, LogInv, FrontInv, BackInv, frontVars

LEMMA LogStep == LogInv /\ [LogNext]_logVars => LogInv'
  <1> SUFFICES ASSUME LogInv, [LogNext]_logVars PROVE LogInv'
    OBVIOUS
  <1>1. ASSUME UNCHANGED <<frontVars, newBuffer1, newBuffer2, buffersToWrite, lines>>,
               owner' = "made" => owner = "made" /\ logAt' = logAt,
               \/ logAt' = logAt
               \/ logAt' \in {"lock", "waiting", "woken"} /\ logAt \in {"loop", "lock", "waiting", "woken"}
               \/ logAt' \in {"begin", "ended"} /\ logAt # "write"
        PROVE  LogInv'
    BY <1>1 DEF LogInv, FrontInv, BackInv, frontVars
  <1>2. CASE StartLog \/ LatchOpen \/ StopLog \/ JoinLog \/ SecondPasses \/ UNCHANGED logVars
    <2>1. logAt' = logAt \/ (logAt' = "begin" /\ logAt # "write") \/ (logAt = "waiting" /\ logAt' = "woken")
      <3>1. StartLog => logAt # "write"
        BY DEF StartLog, LogInv, BackInv
      <3> QED BY <1>2, <3>1 DEF StartLog, LatchOpen, StopLog, JoinLog, SecondPasses, NotifyLog, logVars
    <2>2. UNCHANGED <<frontVars, newBuffer1, newBuffer2, buffersToWrite, lines>>
      BY <1>2 DEF StartLog, LatchOpen, StopLog, JoinLog, SecondPasses, backVars, logVars
    <2>3. owner' = "made" => owner = "made" /\ logAt' = logAt
      BY <1>2 DEF StartLog, LatchOpen, StopLog, JoinLog, SecondPasses, logVars
    <2> QED BY <1>1, <2>1, <2>2, <2>3
  <1>3. CASE BeginLog
    BY <1>3 DEF BeginLog, LogInv, FrontInv, BackInv, frontVars
  <1>4. CASE CheckRunning \/ WaitEnds \/ (LockLog /\ ~ TakeBuffers)
    <2>1. /\ UNCHANGED <<frontVars, newBuffer1, newBuffer2, buffersToWrite, lines, owner>>
          /\ logAt' \in {"lock", "waiting", "woken", "ended"} /\ logAt \in {"loop", "lock", "waiting"}
          /\ logAt' = "ended" \/ logAt \in {"loop", "lock", "waiting", "woken"}
      BY <1>4 DEF CheckRunning, WaitEnds, LockLog, backVars
    <2>2. owner # "made"
      BY <2>1 DEF LogInv, BackInv
    <2> QED BY <1>1, <2>1, <2>2
  <1>5. CASE (LockLog /\ TakeBuffers) \/ Woken
    BY <1>5, TakeKeeps DEF LockLog, Woken
  <1>6. CASE WriteBuffer
    BY <1>1, <1>6 DEF WriteBuffer
  <1>7. ASSUME NEW len \in LineLengths, AppendLine(len) PROVE LogInv'
    BY <1>7, AppendKeeps
  <1> QED BY <1>2, <1>3, <1>4, <1>5, <1>6, <1>7, DropKeeps, RefillKeeps DEF LogNext, LogThread

(* The assertions of threadFunc hold for all lines, lengths and bounds: at the head of its
   loop both spare buffers are there and empty, what it writes is never nothing, and append
   always has a buffer.  (AsyncLogging::append, threadFunc) *)
THEOREM SparesAlwaysReady == LogSpec => []SparesReady
  <1>1. LogInv => SparesReady
    BY DEF LogInv, FrontInv, BackInv, SparesReady, Null, FreshBuffer
  <1> QED BY <1>1, LogStarts, LogStep, PTL DEF LogSpec

-----------------------------------------------------------------------------
(* The lines that AsyncLogging keeps *)

Entry == Nat \X Nat

\* The last lines up to line n.
Run(s, n) == Len(s) <= n /\ \A k \in 1..Len(s) : s[k][1] = n - Len(s) + k

\* The lines up to n, of which the log lacks the next, and the messages that say so.
Skips(log, n) == {i \in LinesIn(log) : log[i][1] < n /\ \A j \in LinesIn(log) : log[j][1] # log[i][1] + 1}
Covered(log, n) ==
    /\ \A i \in LinesIn(log) : log[i][1] \in 1..n
    /\ \A i, j \in LinesIn(log) : i < j => log[i][1] < log[j][1]
    /\ \A i \in Skips(log, n) : \E k \in NoticesIn(log) : k < i /\ \A j \in Skips(log, n) : j < i => j < k
    /\ n > 0 => \E i \in LinesIn(log) : log[i][1] = 1

\* A line more.
LEMMA AppendCovers ==
    ASSUME NEW log \in Seq(Entry), NEW n \in Nat, Covered(log, n), NEW len \in Nat
    PROVE  Covered(Append(log, <<n + 1, len>>), n + 1)
  <1> DEFINE new == Append(log, <<n + 1, len>>)
  <1>1. PICK e \in Nat : e = Len(log) /\ DOMAIN log = 1..e
    BY LenProperties
  <1>2. \A i \in 1..e : log[i][1] \in Nat
    BY <1>1, ElementOfSeq DEF Entry
  <1>3. /\ DOMAIN new = 1..e + 1
        /\ \A i \in 1..e : new[i] = log[i]
        /\ new[e + 1] = <<n + 1, len>>
    <2>1. new \in Seq(Entry) /\ Len(new) = e + 1 /\ new[e + 1] = <<n + 1, len>> /\ \A i \in 1..e : new[i] = log[i]
      <3>1. <<n + 1, len>> \in Entry
        BY DEF Entry
      <3> QED BY <1>1, <3>1, AppendProperties
    <2> HIDE DEF new
    <2> QED BY <2>1, LenProperties
  <1> HIDE DEF new
  <1>4. new[e + 1][1] = n + 1 /\ new[e + 1] # Notice
    BY <1>3 DEF Notice
  <1>5. /\ LinesIn(new) = LinesIn(log) \cup {e + 1}
        /\ LinesIn(log) \subseteq 1..e
        /\ NoticesIn(log) \subseteq NoticesIn(new)
    <2>1. LinesIn(log) = {i \in 1..e : log[i] # Notice} /\ LinesIn(new) = {i \in 1..e + 1 : new[i] # Notice}
      BY <1>1, <1>3 DEF LinesIn
    <2>2. \A i \in 1..e + 1 : i \in 1..e \/ i = e + 1
      BY <1>1
    <2>3. LinesIn(new) = LinesIn(log) \cup {e + 1}
      <3>1. \A i \in 1..e : i \in 1..e + 1 /\ new[i] = log[i]
        BY <1>1, <1>3
      <3>2. e + 1 \in 1..e + 1
        BY <1>1
      <3> QED BY ONLY <1>4, <2>1, <2>2, <3>1, <3>2
    <2>4. e + 1 \notin 1..e /\ 1..e \subseteq 1..e + 1
      BY <1>1
    <2>5. NoticesIn(log) \subseteq NoticesIn(new)
      BY <1>1, <1>3, <2>3, <2>4 DEF NoticesIn
    <2> QED BY <2>1, <2>3, <2>5
  <1>6. \A i \in LinesIn(log) : log[i][1] \in 1..n /\ new[i] = log[i] /\ i <= e
    BY <1>1, <1>3, <1>5 DEF Covered
  <1>7. Skips(new, n + 1) \subseteq Skips(log, n)
    <2> SUFFICES ASSUME NEW i \in Skips(new, n + 1) PROVE i \in Skips(log, n)
      OBVIOUS
    <2>1. i \in LinesIn(new) /\ new[i][1] < n + 1 /\ \A j \in LinesIn(new) : new[j][1] # new[i][1] + 1
      BY DEF Skips
    <2>2. i # e + 1
      BY <1>4, <2>1
    <2>3. i \in LinesIn(log)
      BY <1>5, <2>1, <2>2
    <2>4. new[i][1] # n
      BY <1>4, <1>5, <2>1
    <2>5. log[i][1] < n
      BY <1>6, <2>1, <2>3, <2>4
    <2>6. \A j \in LinesIn(log) : log[j][1] # log[i][1] + 1
      BY <1>5, <1>6, <2>1, <2>3
    <2> QED BY <2>3, <2>5, <2>6 DEF Skips
  <1>8. \A i \in LinesIn(new) : new[i][1] \in 1..n + 1
    BY <1>4, <1>5, <1>6
  <1>9. \A i, j \in LinesIn(new) : i < j => new[i][1] < new[j][1]
    <2> SUFFICES ASSUME NEW i \in LinesIn(new), NEW j \in LinesIn(new), i < j PROVE new[i][1] < new[j][1]
      OBVIOUS
    <2>1. i \in LinesIn(log)
      BY <1>1, <1>5
    <2>2. CASE j = e + 1
      <3>1. new[i][1] \in 1..n /\ new[j][1] = n + 1
        BY <1>4, <1>6, <2>1, <2>2
      <3> QED BY <3>1
    <2>3. CASE j \in LinesIn(log)
      BY <1>6, <2>1, <2>3 DEF Covered
    <2> QED BY <1>5, <2>2, <2>3
  <1>10. \A i \in Skips(new, n + 1) : \E k \in NoticesIn(new) : k < i /\ \A j \in Skips(new, n + 1) : j < i => j < k
    BY <1>5, <1>7 DEF Covered
  <1>11. \E i \in LinesIn(new) : new[i][1] = 1
    <2>1. CASE n = 0
      BY <1>4, <1>5, <2>1
    <2>2. CASE n > 0
      BY <1>5, <1>6, <2>2 DEF Covered
    <2> QED BY <2>1, <2>2
  <1> QED BY <1>8, <1>9, <1>10, <1>11 DEF Covered, new

\* What Covered says is what LinesKept says.
LEMMA CoveredInOrder ==
    ASSUME NEW log \in Seq(Entry), NEW n \in Nat, Covered(log, n), NoticesIn(log) = {}
    PROVE  LineNumbers(log) = [i \in 1..n |-> i]
  <1>1. PICK e \in Nat : e = Len(log) /\ DOMAIN log = 1..e
    BY LenProperties
  <1>2. LinesIn(log) = 1..e /\ Skips(log, n) = {}
    <2>1. LinesIn(log) = 1..e
      BY <1>1 DEF LinesIn, NoticesIn
    <2> QED BY <2>1 DEF Covered
  <1>3. /\ \A i \in 1..e : log[i][1] \in 1..n
        /\ \A i, j \in 1..e : i < j => log[i][1] < log[j][1]
        /\ n > 0 => \E i \in 1..e : log[i][1] = 1
    BY <1>2 DEF Covered
  <1>4. \A i \in 1..e : log[i][1] < n => \E j \in 1..e : log[j][1] = log[i][1] + 1
    BY <1>2 DEF Skips
  <1> DEFINE Bad == {i \in 1..e : log[i][1] # i}
  <1>5. Bad = {}
    <2>0. SUFFICES ASSUME Bad # {} PROVE FALSE
      OBVIOUS
    <2>1. PICK m \in Bad : \A i \in Bad : m <= i
      <3>1. Bad \subseteq Nat
        BY <1>1
      <3> HIDE DEF Bad
      <3> QED BY <2>0, <3>1, MinIs
    <2>2. m \in 1..e /\ log[m][1] # m /\ log[m][1] \in 1..n
      BY <1>3, <2>1
    <2>3. CASE m = 1
      <3>1. PICK i \in 1..e : log[i][1] = 1
        BY <1>3, <2>2
      <3>2. i # 1 /\ 1 < i
        BY <2>2, <2>3, <3>1
      <3>3. log[1][1] < log[i][1]
        BY <1>1, <1>3, <3>1, <3>2
      <3> QED BY <2>2, <2>3, <3>1, <3>3
    <2>4. CASE m # 1
      <3>1. m - 1 \in 1..e /\ m - 1 < m
        BY <2>2, <2>4
      <3>2. log[m - 1][1] = m - 1
        <4>1. m - 1 \notin Bad
          <5> HIDE DEF Bad
          <5>1. ~ (m <= m - 1)
            BY <2>2
          <5> QED BY <2>1, <5>1
        <4> QED BY <3>1, <4>1
      <3>3. log[m - 1][1] < log[m][1]
        BY <1>3, <2>2, <3>1
      <3>4. PICK j \in 1..e : log[j][1] = m
        BY <1>4, <2>2, <3>1, <3>2, <3>3
      <3>5. CASE j < m
        <4>1. j = m - 1 \/ j < m - 1
          BY <2>2, <3>5
        <4>2. j < m - 1 => log[j][1] < m - 1
          BY <1>3, <3>1, <3>2
        <4> QED BY <2>2, <3>2, <3>4, <4>1, <4>2
      <3>6. CASE j > m
        BY <1>3, <2>2, <3>2, <3>3, <3>4, <3>6
      <3> QED BY <2>2, <3>4, <3>5, <3>6
    <2> QED BY <2>3, <2>4
  <1>6. \A i \in 1..e : log[i][1] = i
    BY <1>5
  <1>7. e = n
    <2>1. e <= n
      BY <1>3, <1>6, SMTT(60)
    <2>2. CASE e = 0
      BY <1>3, <2>1, <2>2
    <2>3. CASE e # 0 /\ e < n
      <3>1. e \in 1..e /\ log[e][1] < n
        BY <1>6, <2>3
      <3>2. PICK j \in 1..e : log[j][1] = log[e][1] + 1
        BY <1>4, <3>1
      <3> QED BY <1>6, <3>1, <3>2
    <2> QED BY <2>1, <2>2, <2>3
  <1>8. LineNumbers(log) = [i \in 1..e |-> log[i][1]]
    BY <1>1 DEF LineNumbers
  <1> QED BY <1>6, <1>7, <1>8

LEMMA CoveredGaps ==
    ASSUME NEW log \in Seq(Entry), NEW n \in Nat, Covered(log, n), NEW m \in DOMAIN log
    PROVE  Cardinality(Gaps(log) \cap 1..m) <= Cardinality(NoticesIn(log) \cap 1..m)
  <1>1. PICK e \in Nat : e = Len(log) /\ DOMAIN log = 1..e
    BY LenProperties
  <1>2. \A i \in LinesIn(log) : i \in 1..e /\ log[i][1] \in 1..n
    BY <1>1 DEF LinesIn, Covered
  <1>3. Gaps(log) \subseteq Skips(log, n)
    <2> SUFFICES ASSUME NEW i \in Gaps(log) PROVE i \in Skips(log, n)
      OBVIOUS
    <2>1. PICK j \in LinesIn(log) : /\ i < j /\ log[j][1] > log[i][1] + 1
                                    /\ \A k \in LinesIn(log) : k <= i \/ j <= k
      BY DEF Gaps
    <2>2. i \in LinesIn(log)
      BY DEF Gaps
    <2>3. log[i][1] < n
      BY <1>2, <2>1, <2>2
    <2>4. ASSUME NEW k \in LinesIn(log) PROVE log[k][1] # log[i][1] + 1
      <3>1. CASE k <= i
        <4>1. k = i \/ log[k][1] < log[i][1]
          BY <1>2, <2>2, <3>1 DEF Covered
        <4> QED BY <1>2, <2>2, <4>1
      <3>2. CASE j <= k
        <4>1. k = j \/ log[j][1] < log[k][1]
          BY <1>2, <2>1, <3>2 DEF Covered
        <4> QED BY <1>2, <2>1, <2>2, <4>1
      <3> QED BY <2>1, <3>1, <3>2
    <2> QED BY <2>2, <2>3, <2>4 DEF Skips
  <1> DEFINE G == Gaps(log) \cap 1..m
             N == NoticesIn(log) \cap 1..m
             Says(i) == CHOOSE k \in NoticesIn(log) : k < i /\ \A j \in Skips(log, n) : j < i => j < k
             f == [i \in G |-> Says(i)]
  <1>4. \A i \in G : /\ i \in 1..m /\ Says(i) \in NoticesIn(log) /\ Says(i) < i
                     /\ \A j \in G : j < i => j < Says(i)
    <2> SUFFICES ASSUME NEW i \in G
                 PROVE  /\ i \in 1..m /\ Says(i) \in NoticesIn(log) /\ Says(i) < i
                        /\ \A j \in G : j < i => j < Says(i)
      OBVIOUS
    <2>1. i \in Skips(log, n)
      BY <1>3
    <2>2. \E k \in NoticesIn(log) : k < i /\ \A j \in Skips(log, n) : j < i => j < k
      BY <2>1 DEF Covered
    <2>3. Says(i) \in NoticesIn(log) /\ Says(i) < i /\ \A j \in Skips(log, n) : j < i => j < Says(i)
      BY <2>2
    <2> HIDE DEF Says
    <2> QED BY <1>3, <2>3
  <1>5. NoticesIn(log) \subseteq 1..e /\ m \in 1..e
    BY <1>1 DEF NoticesIn
  <1>6. f \in Injection(G, N)
    <2> HIDE DEF Says
    <2>1. \A i \in G : Says(i) \in N
      BY <1>1, <1>4, <1>5
    <2>2. \A i, j \in G : Says(i) = Says(j) => i = j
      <3> SUFFICES ASSUME NEW i \in G, NEW j \in G, Says(i) = Says(j) PROVE i = j
        OBVIOUS
      <3>1. i \in 1..m /\ j \in 1..m /\ Says(i) \in 1..e /\ Says(i) < i /\ Says(j) < j
        BY <1>4, <1>5
      <3>2. ~ (i < j)
        BY <1>4, <3>1
      <3>3. ~ (j < i)
        BY <1>4, <3>1
      <3> QED BY <1>5, <3>1, <3>2, <3>3
    <2> HIDE DEF G, N
    <2>3. f \in [G -> N]
      BY <2>1
    <2>4. \A i, j \in G : f[i] = f[j] => i = j
      BY <2>2
    <2> HIDE DEF f
    <2> QED BY <2>3, <2>4 DEF Injection, IsInjective
  <1>7. IsFiniteSet(N)
    <2>1. IsFiniteSet(1..m)
      BY <1>5, FS_Interval
    <2> QED BY <2>1, FS_Subset
  <1> HIDE DEF G, N, f
  <1>8. Cardinality(G) <= Cardinality(N)
    BY <1>6, <1>7, FS_Injection
  <1> QED BY <1>8 DEF G, N

\* Where the elements of two sequences are in their concatenation.
LEMMA ConcatIs ==
    ASSUME NEW S, NEW s \in Seq(S), NEW t \in Seq(S)
    PROVE  /\ s \o t \in Seq(S) /\ Len(s \o t) = Len(s) + Len(t) /\ Len(s \o t) \in Nat
           /\ \A i \in 1..Len(s) : (s \o t)[i] = s[i]
           /\ \A i \in 1..Len(t) : (s \o t)[Len(s) + i] = t[i]
  <1>1. /\ s \o t \in Seq(S) /\ Len(s \o t) = Len(s) + Len(t)
        /\ \A i \in 1..Len(s) + Len(t) : (s \o t)[i] = IF i <= Len(s) THEN s[i] ELSE t[i - Len(s)]
    BY ConcatProperties
  <1> DEFINE st == s \o t
  <1> HIDE DEF st
  <1>2. PICK m \in Nat, k \in Nat : m = Len(s) /\ k = Len(t)
    BY LenProperties
  <1>3. \A i \in 1..m + k : st[i] = IF i <= m THEN s[i] ELSE t[i - m]
    BY <1>1, <1>2 DEF st
  <1>4. ASSUME NEW i \in 1..m PROVE st[i] = s[i]
    <2>1. i \in 1..m + k /\ i <= m
      OBVIOUS
    <2> QED BY <1>3, <2>1
  <1>5. ASSUME NEW i \in 1..k PROVE st[m + i] = t[i]
    <2>1. PICK j \in 1..m + k : j = m + i
      OBVIOUS
    <2>2. ~ (j <= m) /\ j - m = i
      BY <2>1
    <2>3. st[j] = t[j - m]
      BY <1>3, <2>2
    <2> QED BY <2>1, <2>2, <2>3
  <1> QED BY <1>1, <1>2, <1>4, <1>5 DEF st

\* What is dropped, D, is what comes after B, to which the message is the lead.
OldLog(E, B, D, F) == (E \o (B \o D)) \o F
NewLog(E, B, F) == ((E \o <<Notice>>) \o B) \o F
RunOf(B, D, F) == (B \o D) \o F
Dropped(e, b, d, f, log, new, run) ==
    /\ DOMAIN log = 1..e + (b + d) + f /\ DOMAIN new = 1..e + 1 + b + f
    /\ Len(run) = b + d + f
    /\ \A i \in 1..e : new[i] = log[i]
    /\ new[e + 1] = Notice
    /\ \A i \in 1..b : new[e + 1 + i] = log[e + i]
    /\ \A i \in 1..f : new[e + 1 + b + i] = log[e + (b + d) + i]
    /\ \A i \in 1..b + d : log[e + i] = run[i]
    /\ \A i \in 1..f : log[e + (b + d) + i] = run[b + d + i]

LEMMA DropIs ==
    ASSUME NEW E \in Seq(Entry), NEW B \in Seq(Entry), NEW D \in Seq(Entry), NEW F \in Seq(Entry)
    PROVE  Dropped(Len(E), Len(B), Len(D), Len(F), OldLog(E, B, D, F), NewLog(E, B, F), RunOf(B, D, F))
  <1>0. PICK e \in Nat, b \in Nat, d \in Nat, f \in Nat : e = Len(E) /\ b = Len(B) /\ d = Len(D) /\ f = Len(F)
    BY LenProperties
  <1>a. PICK log, new, run : log = (E \o (B \o D)) \o F /\ new = ((E \o <<Notice>>) \o B) \o F /\ run = (B \o D) \o F
    OBVIOUS
  <1> USE <1>0, <1>a
  <1> DEFINE BD == B \o D  EBD == E \o BD  EN == E \o <<Notice>>  ENB == EN \o B
  <1>1. BD \in Seq(Entry) /\ Len(BD) = b + d /\ b + d \in Nat /\ \A i \in 1..b : BD[i] = B[i]
    BY ConcatIs
  <1> HIDE DEF BD
  <1>2. /\ EBD \in Seq(Entry) /\ Len(EBD) = e + (b + d) /\ e + (b + d) \in Nat
        /\ \A i \in 1..e : EBD[i] = E[i]
        /\ \A i \in 1..b + d : EBD[e + i] = BD[i]
    <2>1. /\ EBD \in Seq(Entry) /\ Len(EBD) = Len(E) + Len(BD) /\ Len(EBD) \in Nat
          /\ \A i \in 1..Len(E) : EBD[i] = E[i]
          /\ \A i \in 1..Len(BD) : EBD[Len(E) + i] = BD[i]
      <3>1. PICK X, Y : X = E /\ Y = BD
        OBVIOUS
      <3>2. X \in Seq(Entry) /\ Y \in Seq(Entry)
        BY <1>1, <3>1
      <3>3. /\ X \o Y \in Seq(Entry) /\ Len(X \o Y) = Len(X) + Len(Y) /\ Len(X \o Y) \in Nat
            /\ \A i \in 1..Len(X) : (X \o Y)[i] = X[i]
            /\ \A i \in 1..Len(Y) : (X \o Y)[Len(X) + i] = Y[i]
        BY ONLY <3>2, ConcatIs
      <3> QED BY ONLY <3>1, <3>3
    <2> HIDE DEF EBD
    <2>2. Len(BD) = b + d /\ Len(E) = e /\ b + d \in Nat
      BY <1>1
    <2> QED BY <2>1, <2>2
  <1> HIDE DEF EBD
  <1>3. /\ log \in Seq(Entry) /\ Len(log) = e + (b + d) + f
        /\ \A i \in 1..e + (b + d) : log[i] = EBD[i]
        /\ \A i \in 1..f : log[e + (b + d) + i] = F[i]
    <2>1. log = EBD \o F
      BY DEF EBD, BD
    <2>2. /\ log \in Seq(Entry) /\ Len(log) = Len(EBD) + Len(F) /\ Len(log) \in Nat
          /\ \A i \in 1..Len(EBD) : log[i] = EBD[i]
          /\ \A i \in 1..Len(F) : log[Len(EBD) + i] = F[i]
      <3>1. EBD \in Seq(Entry) /\ F \in Seq(Entry)
        BY <1>2
      <3>2. /\ EBD \o F \in Seq(Entry) /\ Len(EBD \o F) = Len(EBD) + Len(F) /\ Len(EBD \o F) \in Nat
            /\ \A i \in 1..Len(EBD) : (EBD \o F)[i] = EBD[i]
            /\ \A i \in 1..Len(F) : (EBD \o F)[Len(EBD) + i] = F[i]
        BY ONLY <3>1, ConcatIs
      <3> QED BY ONLY <2>1, <3>2
    <2>3. Len(EBD) = e + (b + d) /\ Len(F) = f
      BY <1>2
    <2> QED BY ONLY <2>2, <2>3
  <1>4. /\ Len(run) = b + d + f
        /\ \A i \in 1..b + d : run[i] = BD[i]
        /\ \A i \in 1..f : run[b + d + i] = F[i]
    <2>1. run = BD \o F
      BY DEF BD
    <2>2. /\ run \in Seq(Entry) /\ Len(run) = Len(BD) + Len(F) /\ Len(run) \in Nat
          /\ \A i \in 1..Len(BD) : run[i] = BD[i]
          /\ \A i \in 1..Len(F) : run[Len(BD) + i] = F[i]
      <3>1. BD \in Seq(Entry) /\ F \in Seq(Entry)
        BY <1>1
      <3>2. /\ BD \o F \in Seq(Entry) /\ Len(BD \o F) = Len(BD) + Len(F) /\ Len(BD \o F) \in Nat
            /\ \A i \in 1..Len(BD) : (BD \o F)[i] = BD[i]
            /\ \A i \in 1..Len(F) : (BD \o F)[Len(BD) + i] = F[i]
        BY ONLY <3>1, ConcatIs
      <3> QED BY ONLY <2>1, <3>2
    <2>3. Len(BD) = b + d /\ Len(F) = f
      BY <1>1
    <2> QED BY ONLY <2>2, <2>3
  <1>5. /\ EN \in Seq(Entry) /\ Len(EN) = e + 1 /\ e + 1 \in Nat
        /\ EN[e + 1] = Notice /\ \A i \in 1..e : EN[i] = E[i]
    <2>1. Notice \in Entry
      BY DEF Notice, Entry
    <2>2. EN = Append(E, Notice)
      BY <2>1, AppendIsConcat
    <2> HIDE DEF EN
    <2> QED BY <2>1, <2>2, AppendProperties
  <1> HIDE DEF EN
  <1>6. /\ ENB \in Seq(Entry) /\ Len(ENB) = e + 1 + b /\ e + 1 + b \in Nat
        /\ \A i \in 1..e + 1 : ENB[i] = EN[i]
        /\ \A i \in 1..b : ENB[e + 1 + i] = B[i]
    <2>1. /\ ENB \in Seq(Entry) /\ Len(ENB) = Len(EN) + Len(B) /\ Len(ENB) \in Nat
          /\ \A i \in 1..Len(EN) : ENB[i] = EN[i]
          /\ \A i \in 1..Len(B) : ENB[Len(EN) + i] = B[i]
      <3>1. EN \in Seq(Entry) /\ B \in Seq(Entry)
        BY <1>5
      <3> QED BY ONLY <3>1, ConcatIs
    <2>2. Len(EN) = e + 1 /\ Len(B) = b /\ e + 1 + b \in Nat
      BY <1>5
    <2> HIDE DEF ENB
    <2> QED BY <2>1, <2>2
  <1> HIDE DEF ENB
  <1>7. /\ new \in Seq(Entry) /\ Len(new) = e + 1 + b + f
        /\ \A i \in 1..e + 1 + b : new[i] = ENB[i]
        /\ \A i \in 1..f : new[e + 1 + b + i] = F[i]
    <2>1. new = ENB \o F
      BY DEF ENB, EN
    <2>2. /\ new \in Seq(Entry) /\ Len(new) = Len(ENB) + Len(F) /\ Len(new) \in Nat
          /\ \A i \in 1..Len(ENB) : new[i] = ENB[i]
          /\ \A i \in 1..Len(F) : new[Len(ENB) + i] = F[i]
      <3>1. ENB \in Seq(Entry) /\ F \in Seq(Entry)
        BY <1>6
      <3>2. /\ ENB \o F \in Seq(Entry) /\ Len(ENB \o F) = Len(ENB) + Len(F) /\ Len(ENB \o F) \in Nat
            /\ \A i \in 1..Len(ENB) : (ENB \o F)[i] = ENB[i]
            /\ \A i \in 1..Len(F) : (ENB \o F)[Len(ENB) + i] = F[i]
        BY ONLY <3>1, ConcatIs
      <3> QED BY ONLY <2>1, <3>2
    <2>3. Len(ENB) = e + 1 + b /\ Len(F) = f
      BY <1>6
    <2> QED BY ONLY <2>2, <2>3
  <1>8. DOMAIN log = 1..e + (b + d) + f /\ DOMAIN new = 1..e + 1 + b + f
    BY <1>3, <1>7, LenProperties
  <1>9. ASSUME NEW i \in 1..e PROVE new[i] = log[i]
    <2>1. i \in 1..e + 1 + b /\ i \in 1..e + 1 /\ i \in 1..e + (b + d)
      OBVIOUS
    <2> QED BY <1>2, <1>3, <1>5, <1>6, <1>7, <2>1
  <1>10. new[e + 1] = Notice
    <2>1. e + 1 \in 1..e + 1 + b /\ e + 1 \in 1..e + 1
      OBVIOUS
    <2> QED BY <1>5, <1>6, <1>7, <2>1
  <1>11. ASSUME NEW i \in 1..b + d PROVE log[e + i] = run[i]
    <2>1. PICK j : j = e + i /\ j \in 1..e + (b + d)
      OBVIOUS
    <2>2. log[j] = EBD[j]
      BY <1>3, <2>1
    <2>3. EBD[j] = BD[i]
      BY <1>2, <2>1
    <2> QED BY <1>4, <2>1, <2>2, <2>3
  <1>12. ASSUME NEW i \in 1..b PROVE new[e + 1 + i] = log[e + i]
    <2>1. i \in 1..b + d
      OBVIOUS
    <2>2. log[e + i] = B[i]
      BY <1>1, <1>4, <1>11, <2>1
    <2>3. PICK j : j = e + 1 + i /\ j \in 1..e + 1 + b
      OBVIOUS
    <2>4. new[j] = ENB[j]
      BY <1>7, <2>3
    <2>5. ENB[j] = B[i]
      BY <1>6, <2>3
    <2> QED BY <2>2, <2>3, <2>4, <2>5
  <1>13. \A i \in 1..f : new[e + 1 + b + i] = log[e + (b + d) + i] /\ log[e + (b + d) + i] = run[b + d + i]
    BY <1>3, <1>4, <1>7
  <1>14. Dropped(e, b, d, f, log, new, run)
    BY ONLY <1>4, <1>8, <1>9, <1>10, <1>11, <1>12, <1>13 DEF Dropped
  <1> QED BY ONLY <1>0, <1>a, <1>14 DEF OldLog, NewLog, RunOf

LEMMA DropCovers ==
    ASSUME NEW E \in Seq(Entry), NEW B \in Seq(Entry), NEW D \in Seq(Entry), NEW F \in Seq(Entry), NEW n \in Nat,
           B # <<>>, Covered((E \o (B \o D)) \o F, n), Run((B \o D) \o F, n)
    PROVE  Covered(((E \o <<Notice>>) \o B) \o F, n)
  <1>1. PICK e \in Nat, b \in Nat, d \in Nat, f \in Nat :
            e = Len(E) /\ b = Len(B) /\ d = Len(D) /\ f = Len(F) /\ b # 0
    <2>1. Len(B) # 0
      BY EmptySeq
    <2> QED BY <2>1, LenProperties
  <1>2. PICK log, new, run : log = (E \o (B \o D)) \o F /\ new = ((E \o <<Notice>>) \o B) \o F /\ run = (B \o D) \o F
    OBVIOUS
  <1>3. /\ DOMAIN log = 1..e + (b + d) + f /\ DOMAIN new = 1..e + 1 + b + f
        /\ Len(run) = b + d + f
        /\ \A i \in 1..e : new[i] = log[i]
        /\ new[e + 1] = Notice
        /\ \A i \in 1..b : new[e + 1 + i] = log[e + i]
        /\ \A i \in 1..f : new[e + 1 + b + i] = log[e + (b + d) + i]
        /\ \A i \in 1..b + d : log[e + i] = run[i]
        /\ \A i \in 1..f : log[e + (b + d) + i] = run[b + d + i]
    <2>1. Dropped(Len(E), Len(B), Len(D), Len(F), OldLog(E, B, D, F), NewLog(E, B, F), RunOf(B, D, F))
      BY DropIs
    <2>2. log = OldLog(E, B, D, F) /\ new = NewLog(E, B, F) /\ run = RunOf(B, D, F)
      BY <1>2 DEF OldLog, NewLog, RunOf
    <2>3. Dropped(e, b, d, f, log, new, run)
      BY ONLY <1>1, <2>1, <2>2
    <2> QED BY ONLY <2>3 DEF Dropped
  <1>4. Covered(log, n) /\ Run(run, n)
    BY <1>2
  <1>5. SUFFICES Covered(new, n)
    BY <1>2
  <1>6. PICK o \in Nat : o = n - (b + d + f) /\ \A k \in 1..b + d + f : run[k][1] = o + k
    <2>1. b + d + f <= n /\ \A k \in 1..b + d + f : run[k][1] = n - (b + d + f) + k
      BY <1>3, <1>4 DEF Run
    <2>2. n - (b + d + f) \in Nat
      BY ONLY <2>1, n \in Nat, b \in Nat, d \in Nat, f \in Nat
    <2> QED BY ONLY <2>1, <2>2
  \* The numbers from B on.
  <1>7. /\ \A i \in 1..b + d : log[e + i][1] = o + i
        /\ \A i \in 1..f : log[e + (b + d) + i][1] = o + (b + d) + i
    <2>1. ASSUME NEW i \in 1..b + d PROVE log[e + i][1] = o + i
      <3>1. i \in 1..b + d + f
        BY ONLY i \in 1..b + d, b \in Nat, d \in Nat, f \in Nat
      <3>2. log[e + i] = run[i]
        BY ONLY <1>3, i \in 1..b + d
      <3> QED BY ONLY <1>6, <3>1, <3>2
    <2>2. ASSUME NEW i \in 1..f PROVE log[e + (b + d) + i][1] = o + (b + d) + i
      <3>1. PICK k \in 1..b + d + f : k = b + d + i
        BY ONLY <1>1, i \in 1..f, SMTT(60)
      <3>2. run[k][1] = o + k
        BY <1>6
      <3>3. log[e + (b + d) + i] = run[k]
        BY <1>3, <3>1
      <3>4. o + k = o + (b + d) + i
        BY <1>1, <3>1
      <3> QED BY <3>2, <3>3, <3>4
    <2> QED BY <2>1, <2>2
  <1>8. LinesIn(log) = {i \in 1..e + (b + d) + f : log[i] # Notice} /\ NoticesIn(log) = {i \in 1..e + (b + d) + f : log[i] = Notice}
    BY <1>3 DEF LinesIn, NoticesIn
  <1>9. LinesIn(new) = {i \in 1..e + 1 + b + f : new[i] # Notice} /\ NoticesIn(new) = {i \in 1..e + 1 + b + f : new[i] = Notice}
    BY <1>3 DEF LinesIn, NoticesIn
  <1>10. Notice[1] = 0
    BY DEF Notice
  \* Every place of the new log is one of three kinds.
  <1>11. ASSUME NEW i \in LinesIn(new)
         PROVE  \/ i \in 1..e
                \/ \E k \in 1..b : i = e + 1 + k
                \/ \E k \in 1..f : i = e + 1 + b + k
    <2>1. i \in 1..e + 1 + b + f /\ i # e + 1
      BY <1>3, <1>9
    <2>2. CASE i <= e
      BY <1>1, <2>1, <2>2
    <2>3. CASE i > e /\ i <= e + 1 + b
      <3>1. i - (e + 1) \in 1..b /\ i = e + 1 + (i - (e + 1))
        BY <1>1, <2>1, <2>3
      <3> QED BY <3>1
    <2>4. CASE i > e + 1 + b
      <3>1. i - (e + 1 + b) \in 1..f /\ i = e + 1 + b + (i - (e + 1 + b))
        BY <1>1, <2>1, <2>4
      <3> QED BY <3>1
    <2> QED BY <1>1, <2>1, <2>2, <2>3, <2>4
  \* And of the old one.
  <1>11a. ASSUME NEW i \in LinesIn(log)
         PROVE  \/ i \in 1..e
                \/ \E k \in 1..b + d : i = e + k
                \/ \E k \in 1..f : i = e + (b + d) + k
    <2>1. i \in 1..e + (b + d) + f
      BY <1>8
    <2>2. CASE i <= e
      BY <1>1, <2>1, <2>2
    <2>3. CASE i > e /\ i <= e + (b + d)
      <3>1. i - e \in 1..b + d /\ i = e + (i - e)
        BY <1>1, <2>1, <2>3
      <3> QED BY <3>1
    <2>4. CASE i > e + (b + d)
      <3>1. i - (e + (b + d)) \in 1..f /\ i = e + (b + d) + (i - (e + (b + d)))
        BY <1>1, <2>1, <2>4
      <3> QED BY <3>1
    <2> QED BY <1>1, <2>1, <2>2, <2>3, <2>4
  <1>12. \A i \in 1..e : i \in LinesIn(new) <=> i \in LinesIn(log)
    <2>1. \A i \in 1..e : i \in 1..e + 1 + b + f /\ i \in 1..e + (b + d) + f
      BY <1>1
    <2> QED BY <1>3, <1>8, <1>9, <2>1
  <1>13. \A k \in 1..b : e + k \in LinesIn(log) /\ e + 1 + k \in LinesIn(new) /\ new[e + 1 + k][1] = o + k
    <2> SUFFICES ASSUME NEW k \in 1..b PROVE e + k \in LinesIn(log) /\ e + 1 + k \in LinesIn(new) /\ new[e + 1 + k][1] = o + k
      OBVIOUS
    <2>1. e + k \in 1..e + (b + d) + f /\ e + 1 + k \in 1..e + 1 + b + f /\ k \in 1..b + d
      BY <1>1
    <2>2. log[e + k][1] = o + k /\ o + k # 0
      BY <1>1, <1>6, <1>7, <2>1
    <2>3. new[e + 1 + k] = log[e + k] /\ log[e + k] # Notice
      BY <1>3, <1>10, <2>2
    <2> QED BY <1>8, <1>9, <2>1, <2>2, <2>3
  <1>14. \A k \in 1..f : e + (b + d) + k \in LinesIn(log) /\ e + 1 + b + k \in LinesIn(new) /\ new[e + 1 + b + k][1] = o + (b + d) + k
    <2> SUFFICES ASSUME NEW k \in 1..f
                 PROVE  e + (b + d) + k \in LinesIn(log) /\ e + 1 + b + k \in LinesIn(new) /\ new[e + 1 + b + k][1] = o + (b + d) + k
      OBVIOUS
    <2>1. e + (b + d) + k \in 1..e + (b + d) + f /\ e + 1 + b + k \in 1..e + 1 + b + f
      BY <1>1
    <2>2. log[e + (b + d) + k][1] = o + (b + d) + k /\ o + (b + d) + k # 0
      BY <1>1, <1>6, <1>7
    <2>3. new[e + 1 + b + k] = log[e + (b + d) + k] /\ log[e + (b + d) + k] # Notice
      BY <1>3, <1>10, <2>2
    <2> QED BY <1>8, <1>9, <2>1, <2>2, <2>3
  \* A line of E comes before what is in B.
  <1>15. \A i \in 1..e : i \in LinesIn(log) => log[i][1] \in 1..n /\ log[i][1] < o + 1
    <2> SUFFICES ASSUME NEW i \in 1..e, i \in LinesIn(log) PROVE log[i][1] \in 1..n /\ log[i][1] < o + 1
      OBVIOUS
    <2>1. 1 \in 1..b /\ 1 \in 1..b + d
      BY <1>1
    <2>2. e + 1 \in LinesIn(log) /\ log[e + 1][1] = o + 1
      BY <1>7, <1>13, <2>1
    <2>3. i < e + 1
      BY <1>1
    <2> QED BY <1>4, <2>2, <2>3 DEF Covered
  <1>16. \A i \in LinesIn(new) : new[i][1] \in 1..n
    <2> SUFFICES ASSUME NEW i \in LinesIn(new) PROVE new[i][1] \in 1..n
      OBVIOUS
    <2>1. CASE i \in 1..e
      BY <1>3, <1>12, <1>15, <2>1
    <2>2. ASSUME NEW k \in 1..b, i = e + 1 + k PROVE new[i][1] \in 1..n
      BY <1>1, <1>6, <1>13, <2>2
    <2>3. ASSUME NEW k \in 1..f, i = e + 1 + b + k PROVE new[i][1] \in 1..n
      BY <1>1, <1>6, <1>14, <2>3
    <2> QED BY <1>11, <2>1, <2>2, <2>3
  <1>17. \A i, j \in LinesIn(new) : i < j => new[i][1] < new[j][1]
    <2> SUFFICES ASSUME NEW i \in LinesIn(new), NEW j \in LinesIn(new), i < j PROVE new[i][1] < new[j][1]
      OBVIOUS
    <2>1. CASE i \in 1..e /\ j \in 1..e
      <3>1. new[i] = log[i] /\ new[j] = log[j] /\ i \in LinesIn(log) /\ j \in LinesIn(log)
        BY <1>3, <1>12, <2>1
      <3> QED BY <1>4, <3>1 DEF Covered
    <2>2. ASSUME NEW k \in 1..b, j = e + 1 + k PROVE new[i][1] < new[j][1]
      <3>1. new[j][1] = o + k
        BY <1>13, <2>2
      <3>2. CASE i \in 1..e
        <4>1. new[i][1] \in 1..n /\ new[i][1] < o + 1
          BY <1>3, <1>12, <1>15, <3>2
        <4> QED BY <1>1, <3>1, <4>1
      <3>3. ASSUME NEW m \in 1..b, i = e + 1 + m PROVE new[i][1] < new[j][1]
        <4>1. new[i][1] = o + m /\ m < k
          BY <1>1, <1>13, <2>2, <3>3
        <4> QED BY <1>1, <3>1, <4>1
      <3>4. ASSUME NEW m \in 1..f, i = e + 1 + b + m PROVE FALSE
        BY <1>1, <2>2, <3>4
      <3> QED BY <1>11, <3>2, <3>3, <3>4
    <2>3. ASSUME NEW k \in 1..f, j = e + 1 + b + k PROVE new[i][1] < new[j][1]
      <3>1. new[j][1] = o + (b + d) + k
        BY <1>14, <2>3
      <3>2. CASE i \in 1..e
        <4>1. new[i][1] \in 1..n /\ new[i][1] < o + 1
          BY <1>3, <1>12, <1>15, <3>2
        <4> QED BY <1>1, <3>1, <4>1
      <3>3. ASSUME NEW m \in 1..b, i = e + 1 + m PROVE new[i][1] < new[j][1]
        <4>1. new[i][1] = o + m
          BY <1>13, <3>3
        <4> QED BY <1>1, <3>1, <4>1
      <3>4. ASSUME NEW m \in 1..f, i = e + 1 + b + m PROVE new[i][1] < new[j][1]
        <4>1. new[i][1] = o + (b + d) + m /\ m < k
          BY <1>1, <1>14, <2>3, <3>4
        <4> QED BY <1>1, <3>1, <4>1
      <3> QED BY <1>11, <3>2, <3>3, <3>4
    <2>4. j \in 1..e => i \in 1..e
      <3>1. i \in Nat /\ i >= 1
        BY <1>1, <1>9
      <3> QED BY <1>1, <3>1
    <2> QED BY <1>11, <2>1, <2>2, <2>3, <2>4
  <1>18. \A i \in Skips(new, n) : (i \in 1..e /\ i \in Skips(log, n)) \/ i = e + 1 + b
    <2> SUFFICES ASSUME NEW i \in Skips(new, n), i # e + 1 + b PROVE i \in 1..e /\ i \in Skips(log, n)
      OBVIOUS
    <2>1. i \in LinesIn(new) /\ new[i][1] < n /\ \A j \in LinesIn(new) : new[j][1] # new[i][1] + 1
      BY DEF Skips
    <2>2. ASSUME NEW k \in 1..b, i = e + 1 + k PROVE FALSE
      <3>0. k # b
        BY <2>2
      <3>1. k + 1 \in 1..b
        BY <1>1, <3>0
      <3>2. e + 1 + (k + 1) \in LinesIn(new) /\ new[e + 1 + (k + 1)][1] = o + (k + 1) /\ new[i][1] = o + k
        BY <1>13, <2>2, <3>1
      <3> QED BY <1>1, <2>1, <3>2
    <2>3. ASSUME NEW k \in 1..f, i = e + 1 + b + k PROVE FALSE
      <3>1. new[i][1] = o + (b + d) + k /\ k # f
        <4>1. new[i][1] = o + (b + d) + k
          BY <1>14, <2>3
        <4> QED BY <1>1, <1>6, <2>1, <4>1
      <3>2. k + 1 \in 1..f
        BY <1>1, <3>1
      <3>3. e + 1 + b + (k + 1) \in LinesIn(new) /\ new[e + 1 + b + (k + 1)][1] = o + (b + d) + (k + 1)
        BY <1>14, <3>2
      <3> QED BY <1>1, <2>1, <3>1, <3>3
    <2>4. i \in 1..e
      BY <1>11, <2>1, <2>2, <2>3
    <2>5. i \in LinesIn(log) /\ new[i] = log[i] /\ log[i][1] \in 1..n /\ log[i][1] < o + 1
      BY <1>3, <1>12, <1>15, <2>1, <2>4
    <2>6. ASSUME NEW j \in LinesIn(log), log[j][1] = log[i][1] + 1 PROVE FALSE
      <3>4. CASE j \in 1..e
        BY <1>3, <1>12, <2>1, <2>5, <2>6, <3>4
      <3>5. ASSUME NEW k \in 1..b + d, j = e + k PROVE FALSE
        <4>1. log[j][1] = o + k
          BY <1>7, <3>5
        <4>2. k = 1
          BY <1>1, <2>5, <2>6, <4>1
        <4>3. 1 \in 1..b
          BY <1>1
        <4>4. e + 1 + 1 \in LinesIn(new) /\ new[e + 1 + 1][1] = o + 1
          BY <1>13, <4>3
        <4> QED BY <2>1, <2>5, <2>6, <4>1, <4>2, <4>4
      <3>6. ASSUME NEW k \in 1..f, j = e + (b + d) + k PROVE FALSE
        <4>1. log[j][1] = o + (b + d) + k
          BY <1>7, <3>6
        <4> QED BY <1>1, <2>5, <2>6, <4>1
      <3> QED BY <1>11a, <3>4, <3>5, <3>6
    <2> QED BY <2>1, <2>4, <2>5, <2>6 DEF Skips
  <1>19. \A i \in Skips(new, n) : \E k \in NoticesIn(new) : k < i /\ \A j \in Skips(new, n) : j < i => j < k
    <2> SUFFICES ASSUME NEW i \in Skips(new, n)
                 PROVE  \E k \in NoticesIn(new) : k < i /\ \A j \in Skips(new, n) : j < i => j < k
      OBVIOUS
    <2>1. CASE i \in 1..e /\ i \in Skips(log, n)
      <3>1. PICK k \in NoticesIn(log) : k < i /\ \A j \in Skips(log, n) : j < i => j < k
        BY <1>4, <2>1 DEF Covered
      <3>2. k \in 1..e /\ k \in 1..e + 1 + b + f /\ log[k] = Notice
        BY <1>1, <1>8, <2>1, <3>1
      <3>3. k \in NoticesIn(new)
        BY <1>3, <1>9, <3>2
      <3>4. ASSUME NEW j \in Skips(new, n), j < i PROVE j < k
        <4>1. j # e + 1 + b
          BY <1>1, <2>1, <3>4
        <4> QED BY <1>18, <3>1, <3>4, <4>1
      <3> QED BY <3>1, <3>3, <3>4
    <2>2. CASE i = e + 1 + b
      <3>1. e + 1 \in NoticesIn(new) /\ e + 1 < i
        BY <1>1, <1>3, <1>9, <2>2
      <3>2. ASSUME NEW j \in Skips(new, n), j < i PROVE j < e + 1
        <4>1. j \in 1..e
          BY <1>1, <1>18, <2>2, <3>2
        <4> QED BY <1>1, <4>1
      <3> QED BY <3>1, <3>2
    <2> QED BY <1>18, <2>1, <2>2
  <1>20. n > 0 => \E i \in LinesIn(new) : new[i][1] = 1
    <2> SUFFICES ASSUME n > 0 PROVE \E i \in LinesIn(new) : new[i][1] = 1
      OBVIOUS
    <2>1. PICK i \in LinesIn(log) : log[i][1] = 1
      BY <1>4 DEF Covered
    <2>5. CASE i \in 1..e
      BY <1>3, <1>12, <2>1, <2>5
    <2>6. ASSUME NEW k \in 1..b + d, i = e + k PROVE \E j \in LinesIn(new) : new[j][1] = 1
      <3>1. o + k = 1
        BY <1>7, <2>1, <2>6
      <3>2. 1 \in 1..b /\ o + 1 = 1
        BY <1>1, <3>1
      <3>3. e + 1 + 1 \in LinesIn(new) /\ new[e + 1 + 1][1] = o + 1
        BY <1>13, <3>2
      <3> QED BY <3>2, <3>3
    <2>7. ASSUME NEW k \in 1..f, i = e + (b + d) + k PROVE FALSE
      <3>1. o + (b + d) + k = 1
        BY <1>7, <2>1, <2>7
      <3> QED BY <1>1, <3>1
    <2> QED BY <1>11a, <2>5, <2>6, <2>7
  <1> QED BY <1>16, <1>17, <1>19, <1>20 DEF Covered

\* The files of a LogFile.
IsLog(out) == "files" \in DOMAIN out /\ out.files \in Seq(Seq(Entry)) /\ out.files # <<>>

LEMMA SameFiles ==
    ASSUME NEW out, IsLog(out), NEW o, DOMAIN o = DOMAIN out, o.files = out.files
    PROVE  IsLog(o) /\ Entries(o) = Entries(out)
  BY DEF IsLog, Entries

LEMMA FlushKeeps == ASSUME NEW out, IsLog(out) PROVE IsLog(Flush(out)) /\ Entries(Flush(out)) = Entries(out)
  <1> DEFINE o == Flush(out)
  <1>1. DOMAIN o = DOMAIN out /\ o.files = out.files
    BY DEF Flush, IsLog
  <1> HIDE DEF o
  <1>2. IsLog(o) /\ Entries(o) = Entries(out)
    BY <1>1, SameFiles
  <1> QED BY <1>2 DEF o

LEMMA AppendFileKeeps ==
    ASSUME NEW out, IsLog(out), NEW text \in Seq(Entry)
    PROVE  /\ IsLog(AppendFile(out, text))
           /\ Entries(out) \in Seq(Entry)
           /\ Entries(AppendFile(out, text)) = Entries(out) \o text
  <1> DEFINE w == AppendFile(out, text)  fs == out.files
  <1>1. fs \in Seq(Seq(Entry)) /\ fs # <<>>
    BY DEF IsLog
  <1>2. DOMAIN w = DOMAIN out /\ w.files = [fs EXCEPT ![Len(fs)] = fs[Len(fs)] \o text]
    BY DEF AppendFile, IsLog
  <1> HIDE DEF w, fs
  <1>3. Len(fs) \in Nat \ {0} /\ Len(fs) \in 1..Len(fs) /\ 1 \in 1..Len(fs)
    BY <1>1, EmptySeq
  <1>4. fs[Len(fs)] \in Seq(Entry) /\ \A i \in 1..Len(fs) : fs[i] \in Seq(Entry)
    BY <1>1, <1>3, ElementOfSeq
  <1>5. fs[Len(fs)] \o text \in Seq(Entry)
    BY <1>4, ConcatProperties
  <1> DEFINE front == SubSeq(fs, 1, Len(fs) - 1)  last == fs[Len(fs)]  more == last \o text
  <1>6. fs = Append(front, last) /\ front \in Seq(Seq(Entry)) /\ Len(front) = Len(fs) - 1
        /\ \A i \in 1..Len(fs) - 1 : front[i] = fs[i]
    <2>1. front \in Seq(Seq(Entry)) /\ Len(front) = Len(fs) - 1 /\ \A i \in 1..Len(fs) - 1 : front[i] = fs[i]
      <3>0. Len(fs) - 1 \in Nat
        BY <1>3
      <3>1. PICK n \in Nat : n = Len(fs) - 1
        BY <3>0
      <3>2. \A i \in 1..n : fs[i] \in Seq(Entry)
        BY <1>3, <1>4, <3>1
      <3>3. /\ SubSeq(fs, 1, n) \in Seq(Seq(Entry)) /\ Len(SubSeq(fs, 1, n)) = (IF 1 <= n THEN n - 1 + 1 ELSE 0)
            /\ \A i \in 1..n - 1 + 1 : SubSeq(fs, 1, n)[i] = fs[1 + i - 1]
        BY ONLY <3>2, SubSeqProperties
      <3>4. Len(SubSeq(fs, 1, n)) = n /\ \A i \in 1..n : SubSeq(fs, 1, n)[i] = fs[i]
        BY <3>3
      <3> QED BY <3>1, <3>3, <3>4
    <2>2. SubSeq(fs, 1, Len(fs)) = front \o <<last>>
      BY <1>1, <1>3, SubSeqRecursiveSecond
    <2>3. SubSeq(fs, 1, Len(fs)) = fs
      BY <1>1, SubSeqFull
    <2> HIDE DEF front, last
    <2>4. last \in Seq(Entry)
      BY <1>4 DEF last
    <2>5. front \o <<last>> = Append(front, last)
      BY <2>1, <2>4, AppendIsConcat
    <2> QED BY <2>1, <2>2, <2>3, <2>5
  <1>7. [fs EXCEPT ![Len(fs)] = more] = Append(front, more)
    <2> DEFINE g == [fs EXCEPT ![Len(fs)] = more]  h == Append(front, more)
    <2>1. g \in Seq(Seq(Entry)) /\ Len(g) = Len(fs) /\ \A j \in 1..Len(fs) : g[j] = IF j = Len(fs) THEN more ELSE fs[j]
      BY <1>1, <1>3, <1>5, ExceptSeq
    <2> HIDE DEF front, more
    <2>2. h \in Seq(Seq(Entry)) /\ Len(h) = Len(front) + 1 /\ h[Len(front) + 1] = more
          /\ \A j \in 1..Len(front) : h[j] = front[j]
      <3>1. more \in Seq(Entry)
        BY <1>5 DEF more
      <3> QED BY <1>6, <3>1, AppendProperties
    <2> HIDE DEF g, h
    <2>3. Len(g) = Len(h)
      BY <1>3, <1>6, <2>1, <2>2
    <2>4. ASSUME NEW j \in 1..Len(g) PROVE g[j] = h[j]
      <3>1. CASE j = Len(fs)
        BY <1>3, <1>6, <2>1, <2>2, <3>1
      <3>2. CASE j # Len(fs)
        <4>1. j \in 1..Len(fs) - 1 /\ j \in 1..Len(front)
          BY <1>3, <1>6, <2>1, <3>2
        <4> QED BY <1>6, <2>1, <2>2, <3>2, <4>1
      <3> QED BY <3>1, <3>2
    <2>5. g = h
      BY <2>1, <2>2, <2>3, <2>4, SeqEqual
    <2> QED BY <2>5 DEF g, h
  <1>8. w.files = Append(front, more)
    BY <1>2, <1>7
  <1> HIDE DEF front, more, last
  <1>9. last \in Seq(Entry) /\ more \in Seq(Entry) /\ more = last \o text
    BY <1>4, <1>5 DEF last, more
  <1>10. FlattenSeq(fs) = FlattenSeq(front) \o last /\ FlattenSeq(front) \in Seq(Entry)
    BY <1>6, <1>9, FlattenAppend
  <1>11. FlattenSeq(w.files) = FlattenSeq(front) \o more
    BY <1>6, <1>8, <1>9, FlattenAppend
  <1>12. FlattenSeq(front) \o (last \o text) = (FlattenSeq(front) \o last) \o text
    <2>1. PICK x : x = FlattenSeq(front)
      OBVIOUS
    <2>2. x \in Seq(Entry) /\ last \in Seq(Entry) /\ text \in Seq(Entry)
      BY <1>9, <1>10, <2>1
    <2>3. (x \o last) \o text = x \o (last \o text)
      BY ONLY <2>2, ConcatAssociative, SMTT(60)
    <2> QED BY <2>1, <2>3
  <1>13. Entries(w) = Entries(out) \o text
    BY <1>9, <1>10, <1>11, <1>12 DEF Entries, fs
  <1>14. Entries(out) \in Seq(Entry)
    BY <1>9, <1>10, ConcatProperties DEF Entries, fs
  <1>15. IsLog(w)
    <2>1. Append(front, more) \in Seq(Seq(Entry)) /\ Append(front, more) # <<>>
      BY <1>6, <1>9, AppendProperties
    <2> QED BY <1>2, <1>8, <2>1 DEF IsLog
  <1> QED BY <1>13, <1>14, <1>15 DEF w

LEMMA RollKeeps == ASSUME NEW out, IsLog(out), NEW second PROVE IsLog(RollFile(out, second)) /\ Entries(RollFile(out, second)) = Entries(out)
  <1>1. CASE second <= out.lastRoll
    BY <1>1 DEF RollFile
  <1>2. CASE ~ (second <= out.lastRoll)
    <2> DEFINE w == RollFile(out, second)
    <2>1. DOMAIN w = DOMAIN out /\ w.files = Append(out.files, <<>>)
      <3>1. DOMAIN Flush(out) = DOMAIN out /\ Flush(out).files = out.files
        BY DEF Flush, IsLog
      <3> QED BY <1>2, <3>1 DEF RollFile, IsLog
    <2> HIDE DEF w
    <2>2. <<>> \in Seq(Entry) /\ out.files \in Seq(Seq(Entry)) /\ "files" \in DOMAIN out
      BY EmptySeq DEF IsLog
    <2>3. Append(out.files, <<>>) \in Seq(Seq(Entry)) /\ Append(out.files, <<>>) # <<>>
      BY <2>2, AppendProperties
    <2>4. FlattenSeq(Append(out.files, <<>>)) = FlattenSeq(out.files) \o <<>> /\ FlattenSeq(out.files) \in Seq(Entry)
      BY <2>2, FlattenAppend
    <2>5. FlattenSeq(out.files) \o <<>> = FlattenSeq(out.files)
      BY <2>4, ConcatEmptySeq
    <2>6. IsLog(w) /\ Entries(w) = Entries(out)
      BY <2>1, <2>2, <2>3, <2>4, <2>5 DEF IsLog, Entries
    <2> QED BY <2>6 DEF w
  <1> QED BY <1>1, <1>2

\* What a LogFile is given is what it has more, also when it goes on in another file.
LEMMA LogFileKeeps ==
    ASSUME NEW out, IsLog(out), NEW text \in Seq(Entry), NEW second
    PROVE  /\ IsLog(LogFileAppend(out, text, second))
           /\ Entries(LogFileAppend(out, text, second)) = Entries(out) \o text
  <1>1. PICK w : w = AppendFile(out, text)
    OBVIOUS
  <1>2. IsLog(w) /\ Entries(w) = Entries(out) \o text
    BY <1>1, AppendFileKeeps
  <1>3. \A now1 : IsLog(RollFile(w, now1)) /\ Entries(RollFile(w, now1)) = Entries(w)
    BY <1>2, RollKeeps
  <1>4. PICK c : c = [w EXCEPT !.count = 0]
    OBVIOUS
  <1>5. IsLog(c) /\ Entries(c) = Entries(w)
    <2>1. DOMAIN c = DOMAIN w /\ c.files = w.files
      BY <1>2, <1>4 DEF IsLog
    <2> QED BY <1>2, <2>1, SameFiles
  <1>6. IsLog(CheckTime(c, second)) /\ Entries(CheckTime(c, second)) = Entries(c)
    <2>1. IsLog(RollFile(c, second)) /\ Entries(RollFile(c, second)) = Entries(c)
      BY <1>5, RollKeeps
    <2>2. PICK g : g = [c EXCEPT !.lastFlush = second]
      OBVIOUS
    <2>3. DOMAIN g = DOMAIN c /\ g.files = c.files
      BY <1>5, <2>2 DEF IsLog
    <2>4. IsLog(g) /\ Entries(g) = Entries(c)
      BY <1>5, <2>3, SameFiles
    <2>5. IsLog(Flush(g)) /\ Entries(Flush(g)) = Entries(g)
      BY <2>4, FlushKeeps
    <2> QED BY <1>5, <2>1, <2>2, <2>4, <2>5 DEF CheckTime
  <1>7. PICK d : d = [w EXCEPT !.count = @ + 1]
    OBVIOUS
  <1>8. IsLog(d) /\ Entries(d) = Entries(w)
    <2>1. DOMAIN d = DOMAIN w /\ d.files = w.files
      BY <1>2, <1>7 DEF IsLog
    <2> QED BY <1>2, <2>1, SameFiles
  <1>9. LogFileAppend(out, text, second) \in {RollFile(w, second), CheckTime(c, second), d}
    BY <1>1, <1>4, <1>7 DEF LogFileAppend
  <1> QED BY <1>2, <1>3, <1>5, <1>6, <1>8, <1>9

\* An empty buffer has room for every line.
LEMMA EmptyLength == BufferLength(<<>>) = 0
  <1> DEFINE s == <<>>
  <1>1. DOMAIN s = {}
    OBVIOUS
  <1> QED BY <1>1 DEF BufferLength, FoldLeft, MapThenFoldSet

\* What append has filled and the thread has not taken, and what it has taken and not written.
InFront == FlattenSeq(buffers_ \o currentBuffer_)
Unwritten == SubSeq(buffersToWrite, written + 1, Len(buffersToWrite))
\* The inductive invariant: what was appended and not dropped is on its way in order, its
\* end is a run up to the last line, and a drop always drops something, after its message.
LinesInv ==
    /\ IsLog(output) /\ (logAt \in {"none", "begin"} => Entries(output) = <<>>)
    /\ written \in 0..Len(buffersToWrite)
    /\ Covered(Logged, lines)
    /\ Run(InFront, lines)
    /\ logAt = "write" /\ written = 0 /\ Len(buffersToWrite) > 2 => Run(FlattenSeq(buffersToWrite) \o InFront, lines)
    /\ \A i \in 1..Len(buffers_) : buffers_[i] # <<>>
    /\ Len(buffersToWrite) > 2 => buffersToWrite[1] # <<>>

\* The types of what is in front of, in and behind the logging thread.
LEMMA LoggedIs ==
    ASSUME LogInv, LinesInv
    PROVE  /\ lines \in Nat
           /\ buffers_ \in Seq(Seq(Entry)) /\ buffersToWrite \in Seq(Seq(Entry)) /\ Unwritten \in Seq(Seq(Entry))
           /\ \E b \in Seq(Entry) : currentBuffer_ = <<b>> /\ buffers_ \o currentBuffer_ = Append(buffers_, b)
                                    /\ InFront = FlattenSeq(buffers_) \o b
           /\ FlattenSeq(buffers_) \in Seq(Entry) /\ InFront \in Seq(Entry)
           /\ Entries(output) \in Seq(Entry) /\ FlattenSeq(Unwritten) \in Seq(Entry)
           /\ Logged = (Entries(output) \o FlattenSeq(Unwritten)) \o InFront /\ Logged \in Seq(Entry)
  <1>0. lines \in Nat
    BY DEF LogInv, FrontInv
  <1>1. Buffers \subseteq Seq(Entry) /\ Seq(Buffers) \subseteq Seq(Seq(Entry))
    <2>1. Nat \X LineLengths \subseteq Entry
      BY LogAssumption DEF Entry
    <2>2. Buffers \subseteq Seq(Entry)
      BY <2>1, SeqMonotonic DEF Buffers
    <2> QED BY <2>2, SeqMonotonic
  <1>2. buffers_ \in Seq(Seq(Entry)) /\ buffersToWrite \in Seq(Seq(Entry))
    BY <1>1 DEF LogInv, FrontInv, BackInv
  <1>3. PICK b \in Buffers : currentBuffer_ = <<b>>
    BY DEF LogInv, FrontInv
  <1>4. b \in Seq(Entry)
    BY <1>1
  <1>5. buffers_ \o currentBuffer_ = Append(buffers_, b)
    BY <1>2, <1>3, <1>4, AppendIsConcat
  <1>6. FlattenSeq(buffers_) \in Seq(Entry) /\ InFront = FlattenSeq(buffers_) \o b
    BY <1>2, <1>4, <1>5, FlattenAppend DEF InFront
  <1>7. InFront \in Seq(Entry)
    BY <1>4, <1>6, ConcatProperties
  <1>8. Entries(output) \in Seq(Entry)
    <2>1. <<>> \in Seq(Entry)
      BY EmptySeq
    <2> QED BY <2>1, AppendFileKeeps DEF LinesInv
  <1>9. Unwritten \in Seq(Seq(Entry))
    <2>1. Len(buffersToWrite) \in Nat /\ \A i \in 1..Len(buffersToWrite) : buffersToWrite[i] \in Seq(Entry)
      BY <1>2, LenProperties, ElementOfSeq
    <2>0. written \in 0..Len(buffersToWrite)
      BY DEF LinesInv
    <2>5. PICK n \in Nat : n = Len(buffersToWrite)
      BY ONLY <2>1
    <2>6. PICK w \in Nat : w = written
      BY ONLY <2>0, <2>1
    <2>7. PICK m \in Nat : m = w + 1 /\ m >= 1
      OBVIOUS
    <2>2. m = written + 1 /\ n = Len(buffersToWrite) /\ m >= 1
      BY ONLY <2>5, <2>6, <2>7
    <2>3. \A i \in m..n : buffersToWrite[i] \in Seq(Entry)
      BY <2>1, <2>2
    <2>4. SubSeq(buffersToWrite, m, n) \in Seq(Seq(Entry))
      BY <2>2, <2>3, SubSeqProperties
    <2> QED BY <2>2, <2>4 DEF Unwritten
  <1>10. FlattenSeq(Unwritten) \in Seq(Entry)
    <2>1. <<>> \in Seq(Entry)
      BY EmptySeq
    <2> QED BY <1>9, <2>1, FlattenAppend
  <1>11. Logged = (Entries(output) \o FlattenSeq(Unwritten)) \o InFront
    BY DEF Logged, Unwritten, InFront
  <1>12. Entries(output) \o FlattenSeq(Unwritten) \in Seq(Entry)
    BY <1>8, <1>10, ConcatProperties
  <1>13. Logged \in Seq(Entry)
    BY <1>7, <1>11, <1>12, ConcatProperties
  <1> QED BY <1>0, <1>2, <1>3, <1>4, <1>5, <1>6, <1>7, <1>8, <1>9, <1>10, <1>11, <1>13

\* Unless lines, buffers or files change, nothing does.
LEMMA LinesStay ==
    ASSUME LinesInv, UNCHANGED <<lines, buffers_, currentBuffer_, buffersToWrite, written>>,
           IsLog(output'), Entries(output') = Entries(output),
           logAt' \in {"none", "begin"} => logAt \in {"none", "begin"},
           logAt' = "write" => logAt = "write"
    PROVE  LinesInv'
  <1>1. Logged' = Logged /\ InFront' = InFront
    BY DEF Logged, InFront
  <1> QED BY <1>1 DEF LinesInv

LEMMA LinesStart == LogInit => LinesInv
  <1> SUFFICES ASSUME LogInit PROVE LinesInv
    OBVIOUS
  <1>0. <<>> \in Seq(Entry) /\ <<>> \in Seq(Seq(Entry)) /\ Len(<<>>) = 0
    BY EmptySeq
  <1>1. /\ buffers_ = <<>> /\ currentBuffer_ = <<<<>>>> /\ buffersToWrite = <<>> /\ written = 0 /\ lines = 0
        /\ output = LogFile(seconds)
    BY DEF LogInit, FreshBuffer, Empty
  <1>2. <<<<>>>> = Append(<<>>, <<>>) /\ <<>> \o <<<<>>>> = <<<<>>>>
    BY <1>0
  <1>3. FlattenSeq(<<<<>>>>) = <<>>
    <2>1. FlattenSeq(Append(<<>>, <<>>)) = FlattenSeq(<<>>) \o <<>>
      BY <1>0, FlattenAppend
    <2>2. <<>> \o <<>> = <<>>
      BY <1>0, ConcatEmptySeq
    <2> QED BY <1>2, <2>1, <2>2, FlattenOfNone
  <1>4. InFront = <<>>
    BY <1>1, <1>2, <1>3 DEF InFront
  <1>5. IsLog(output) /\ Entries(output) = <<>>
    <2>1. output.files = <<<<>>>> /\ "files" \in DOMAIN output
      BY <1>1 DEF LogFile
    <2>2. <<<<>>>> \in Seq(Seq(Entry)) /\ <<<<>>>> # <<>>
      BY <1>0, <1>2, AppendProperties
    <2> QED BY <1>3, <2>1, <2>2 DEF IsLog, Entries
  <1>6. Unwritten = <<>>
    BY <1>0, <1>1, SubSeqEmpty DEF Unwritten
  <1>7. Logged = <<>>
    <2>1. Logged = (Entries(output) \o FlattenSeq(Unwritten)) \o InFront
      BY DEF Logged, Unwritten, InFront
    <2>2. (<<>> \o <<>>) \o <<>> = <<>>
      BY <1>0, ConcatEmptySeq
    <2> QED BY <1>4, <1>5, <1>6, <2>1, <2>2, FlattenOfNone
  <1>8. Covered(Logged, lines) /\ Run(InFront, lines)
    <2>1. DOMAIN Logged = {}
      BY <1>7
    <2>2. LinesIn(Logged) = {} /\ Skips(Logged, lines) = {}
      BY <2>1 DEF LinesIn, Skips
    <2>3. Covered(Logged, lines)
      BY <1>1, <2>2 DEF Covered
    <2>4. Run(InFront, lines)
      BY <1>0, <1>1, <1>4 DEF Run
    <2> QED BY <2>3, <2>4
  <1> QED BY <1>0, <1>1, <1>5, <1>8 DEF LinesInv

\* append: the line comes last, in whatever buffer.
LEMMA AppendLogs == ASSUME LogInv, LinesInv, NEW len \in LineLengths, AppendLine(len) PROVE LinesInv'
  <1> DEFINE line == <<lines + 1, len>>
  <1>0. /\ lines \in Nat /\ lines' = lines + 1 /\ len \in Nat /\ line \in Entry /\ line[1] = lines + 1
        /\ UNCHANGED <<buffersToWrite, written, output>>
        /\ (logAt' = logAt \/ (logAt = "waiting" /\ logAt' = "woken"))
    <2>1. len \in Nat
      BY LogAssumption
    <2>2. lines \in Nat
      BY LoggedIs
    <2>3. line \in Entry /\ line[1] = lines + 1
      BY <2>1, <2>2 DEF Entry
    <2>4. /\ lines' = lines + 1 /\ UNCHANGED <<buffersToWrite, written, output>>
          /\ (logAt' = logAt \/ (logAt = "waiting" /\ logAt' = "woken"))
      BY DEF AppendLine, backVars, NotifyLog
    <2> QED BY <2>1, <2>2, <2>3, <2>4
  <1> HIDE DEF line
  <1>1. PICK b \in Seq(Entry) : currentBuffer_ = <<b>> /\ buffers_ \o currentBuffer_ = Append(buffers_, b)
                               /\ InFront = FlattenSeq(buffers_) \o b
    BY LoggedIs
  <1>2. /\ buffers_ \in Seq(Seq(Entry)) /\ FlattenSeq(buffers_) \in Seq(Entry) /\ InFront \in Seq(Entry)
        /\ Logged = (Entries(output) \o FlattenSeq(Unwritten)) \o InFront
        /\ Entries(output) \in Seq(Entry) /\ FlattenSeq(Unwritten) \in Seq(Entry) /\ Logged \in Seq(Entry)
        /\ buffersToWrite \in Seq(Seq(Entry))
    BY LoggedIs
  \* The buffers of the front: line comes after what there was.
  <1>3. InFront' = Append(InFront, line) /\ \A i \in 1..Len(buffers_') : buffers_'[i] # <<>>
    <2>1. CASE currentBuffer_' = <<Append(currentBuffer_[1], line)>> /\ UNCHANGED buffers_
      <3>1. PICK more : more = Append(b, line) /\ currentBuffer_' = <<more>>
        BY <1>1, <2>1
      <3>2. more \in Seq(Entry) /\ more = b \o <<line>>
        BY <1>0, <3>1, AppendProperties, AppendIsConcat
      <3>3. buffers_ \o <<more>> = Append(buffers_, more)
        BY <1>2, <3>2, AppendIsConcat
      <3>4. FlattenSeq(buffers_ \o <<more>>) = FlattenSeq(buffers_) \o (b \o <<line>>)
        BY <1>2, <3>2, <3>3, FlattenAppend
      <3>5. PICK x, y : x = FlattenSeq(buffers_) /\ y = <<line>>
        OBVIOUS
      <3>6. x \in Seq(Entry) /\ b \in Seq(Entry) /\ y \in Seq(Entry)
        BY <1>0, <1>1, <1>2, <3>5
      <3>7. (x \o b) \o y = x \o (b \o y)
        BY ONLY <3>6, ConcatAssociative, SMTT(60)
      <3>8. InFront \o <<line>> = Append(InFront, line)
        BY <1>0, <1>2, AppendIsConcat
      <3>9. InFront' = FlattenSeq(buffers_ \o <<more>>)
        BY <2>1, <3>1 DEF InFront
      <3>10. InFront' = Append(InFront, line)
        BY <1>1, <3>4, <3>5, <3>7, <3>8, <3>9
      <3> QED BY <2>1, <3>10 DEF LinesInv
    <2>2. CASE /\ Avail(currentBuffer_[1]) <= len
               /\ buffers_' = buffers_ \o currentBuffer_
               /\ currentBuffer_' = <<Append((IF nextBuffer_ # Null THEN nextBuffer_ ELSE FreshBuffer)[1], line)>>
      <3>1. currentBuffer_' = <<Append(<<>>, line)>>
        <4>1. (IF nextBuffer_ # Null THEN nextBuffer_ ELSE FreshBuffer) = <<<<>>>>
          BY DEF LogInv, FrontInv, FreshBuffer, Empty
        <4>2. <<<<>>>>[1] = <<>>
          OBVIOUS
        <4> QED BY <2>2, <4>1, <4>2
      <3>2. PICK one : one = Append(<<>>, line) /\ currentBuffer_' = <<one>>
        BY <3>1
      <3>3. one \in Seq(Entry) /\ <<>> \in Seq(Entry)
        <4>1. <<>> \in Seq(Entry)
          BY EmptySeq
        <4> QED BY <1>0, <3>2, <4>1, AppendProperties
      <3>4. buffers_' = Append(buffers_, b) /\ buffers_' \in Seq(Seq(Entry))
        BY <1>1, <1>2, <2>2, AppendProperties
      <3>5. FlattenSeq(buffers_') = InFront
        BY <1>1, <1>2, <3>4, FlattenAppend
      <3>6. buffers_' \o <<one>> = Append(buffers_', one)
        BY <3>3, <3>4, AppendIsConcat
      <3>7. FlattenSeq(buffers_' \o <<one>>) = InFront \o one
        BY <3>3, <3>4, <3>5, <3>6, FlattenAppend
      <3>8. InFront' = FlattenSeq(buffers_' \o <<one>>)
        BY <3>2 DEF InFront
      <3>9. InFront \o one = Append(InFront, line)
        <4>1. one = <<line>>
          BY <1>0, <3>2
        <4> QED BY <1>0, <1>2, <4>1, AppendIsConcat
      <3>10. b # <<>>
        <4> SUFFICES ASSUME b = <<>> PROVE FALSE
          OBVIOUS
        <4>1. Avail(<<>>) <= len
          BY <1>1, <2>2
        <4>2. kLargeBuffer - 0 <= len
          BY <4>1, EmptyLength DEF Avail
        <4>3. len \in 1..kLargeBuffer - 1
          BY LogAssumption
        <4> QED BY <4>2, <4>3, LogAssumption
      <3>11. \A i \in 1..Len(buffers_') : buffers_'[i] # <<>>
        <4>1. Len(buffers_') = Len(buffers_) + 1 /\ buffers_'[Len(buffers_) + 1] = b /\ Len(buffers_) \in Nat
              /\ \A i \in 1..Len(buffers_) : buffers_'[i] = buffers_[i]
          BY <1>2, <3>4, AppendProperties
        <4>2. ASSUME NEW i \in 1..Len(buffers_) + 1 PROVE buffers_'[i] # <<>>
          <5>1. CASE i = Len(buffers_) + 1
            BY <3>10, <4>1, <5>1
          <5>2. CASE i # Len(buffers_) + 1
            <6>1. i \in 1..Len(buffers_)
              BY <4>1, <5>2
            <6> QED BY <4>1, <6>1 DEF LinesInv
          <5> QED BY <5>1, <5>2
        <4> QED BY <4>1, <4>2
      <3> QED BY <3>7, <3>8, <3>9, <3>11
    <2> QED BY <2>1, <2>2 DEF AppendLine, line
  <1>4. PICK x, y, z : x = Entries(output) /\ y = FlattenSeq(Unwritten) /\ z = InFront
    OBVIOUS
  <1>5. x \in Seq(Entry) /\ y \in Seq(Entry) /\ z \in Seq(Entry) /\ <<line>> \in Seq(Entry)
    BY <1>0, <1>2, <1>4
  <1>6. (x \o y) \o Append(z, line) = Append((x \o y) \o z, line)
    <2>1. PICK u : u = x \o y
      OBVIOUS
    <2>2. u \in Seq(Entry)
      BY <1>5, <2>1, ConcatProperties
    <2>3. PICK one : one = <<line>>
      OBVIOUS
    <2>4. u \in Seq(Entry) /\ z \in Seq(Entry) /\ one \in Seq(Entry)
      BY <1>5, <2>2, <2>3
    <2>5. (u \o z) \o one = u \o (z \o one)
      BY ONLY <2>4, ConcatAssociative, SMTT(60)
    <2>6. Append(z, line) = z \o one /\ u \o z \in Seq(Entry)
      BY <1>0, <1>5, <2>2, <2>3, AppendIsConcat, ConcatProperties
    <2>7. Append(u \o z, line) = (u \o z) \o one
      BY <1>0, <2>3, <2>6, AppendIsConcat
    <2> QED BY <2>1, <2>5, <2>6, <2>7
  <1>7. Logged' = Append(Logged, line)
    <2>1. Entries(output)' = x /\ FlattenSeq(Unwritten)' = y /\ InFront' = Append(z, line)
      BY <1>0, <1>3, <1>4 DEF Unwritten
    <2>2. Logged' = ((Entries(output) \o FlattenSeq(Unwritten)) \o InFront)'
      BY DEF Logged, Unwritten, InFront
    <2> QED BY <1>2, <1>4, <1>6, <2>1, <2>2
  <1>8. Covered(Append(Logged, line), lines + 1)
    <2>1. Covered(Logged, lines)
      BY DEF LinesInv
    <2> QED BY <1>0, <1>2, <2>1, AppendCovers DEF line
  <1>9. \A s \in Seq(Entry) : Run(s, lines) => Run(Append(s, line), lines + 1)
    <2> SUFFICES ASSUME NEW s \in Seq(Entry), Run(s, lines) PROVE Run(Append(s, line), lines + 1)
      OBVIOUS
    <2>0. PICK m \in Nat : m = Len(s)
      BY LenProperties
    <2>1. PICK more : more = Append(s, line) /\ m = Len(s) /\ m \in Nat
      BY <2>0
    <2>2. Len(more) = m + 1 /\ more[m + 1] = line /\ \A k \in 1..m : more[k] = s[k]
      BY <1>0, <2>1, AppendProperties
    <2>3. m <= lines /\ \A k \in 1..m : s[k][1] = lines - m + k
      BY <2>1 DEF Run
    <2>4. ASSUME NEW k \in 1..m + 1 PROVE more[k][1] = lines + 1 - (m + 1) + k
      <3>1. CASE k = m + 1
        BY <1>0, <2>1, <2>2, <3>1
      <3>2. CASE k # m + 1
        <4>1. k \in 1..m
          BY <2>1, <3>2
        <4>2. more[k][1] = lines - m + k
          BY <2>2, <2>3, <4>1
        <4> QED BY <1>0, <2>1, <4>2
      <3> QED BY <3>1, <3>2
    <2>5. m + 1 <= lines + 1
      BY <1>0, <2>1, <2>3
    <2>6. Run(more, lines + 1)
      <3>1. PICK l \in Nat, n \in Nat : l = Len(more) /\ n = lines + 1
        BY <1>0, <2>1, <2>2
      <3>2. l = m + 1
        BY <2>2, <3>1
      <3>3. \A k \in 1..l : more[k][1] = n - l + k
        <4>1. lines \in Nat /\ \A k \in 1..m + 1 : more[k][1] = lines + 1 - (m + 1) + k
          BY <1>0, <2>4
        <4>2. PICK p \in Nat : p = lines
          BY <4>1
        <4> QED BY ONLY <3>1, <3>2, <4>1, <4>2
      <3>4. l <= n
        BY ONLY <2>5, <3>1, <3>2
      <3>5. Run(more, n)
        BY ONLY <3>1, <3>3, <3>4 DEF Run
      <3> QED BY ONLY <3>1, <3>5
    <2> QED BY ONLY <2>1, <2>6
  <1>10. Run(InFront', lines')
    BY <1>0, <1>2, <1>3, <1>9 DEF LinesInv
  <1>11. ASSUME logAt' = "write", written' = 0, Len(buffersToWrite') > 2
         PROVE  Run(FlattenSeq(buffersToWrite') \o InFront', lines')
    <2>1. Run(FlattenSeq(buffersToWrite) \o InFront, lines)
      BY <1>0, <1>11 DEF LinesInv
    <2>2. PICK u, one : u = FlattenSeq(buffersToWrite) /\ one = <<line>>
      OBVIOUS
    <2>3. u \in Seq(Entry)
      <3>1. <<>> \in Seq(Entry)
        BY EmptySeq
      <3> QED BY <1>2, <2>2, <3>1, FlattenAppend
    <2>4. u \in Seq(Entry) /\ z \in Seq(Entry) /\ one \in Seq(Entry)
      BY <1>5, <2>2, <2>3
    <2>5. (u \o z) \o one = u \o (z \o one)
      BY ONLY <2>4, ConcatAssociative, SMTT(60)
    <2>6. Append(z, line) = z \o one /\ u \o z \in Seq(Entry)
      BY <1>0, <2>2, <2>4, AppendIsConcat, ConcatProperties
    <2>7. Append(u \o z, line) = (u \o z) \o one
      BY <1>0, <2>2, <2>6, AppendIsConcat
    <2>8. Run(Append(u \o z, line), lines + 1)
      BY <1>4, <1>9, <2>1, <2>2, <2>6
    <2>9. FlattenSeq(buffersToWrite') = u /\ InFront' = Append(z, line)
      BY <1>0, <1>3, <1>4, <2>2
    <2> QED BY <1>0, <2>5, <2>6, <2>7, <2>8, <2>9
  <1>12. Covered(Logged', lines')
    BY <1>0, <1>7, <1>8
  <1>13. /\ IsLog(output') /\ (logAt' \in {"none", "begin"} => Entries(output') = <<>>)
         /\ written' \in 0..Len(buffersToWrite')
         /\ Len(buffersToWrite') > 2 => buffersToWrite'[1] # <<>>
    BY <1>0 DEF LinesInv
  <1> QED BY <1>3, <1>10, <1>11, <1>12, <1>13 DEF LinesInv

\* The swap: what was in front is what there is to write.
LEMMA TakeLogs == ASSUME LogInv, LinesInv, logAt \in {"lock", "woken"}, TakeBuffers PROVE LinesInv'
  <1>0. <<>> \in Seq(Entry) /\ <<>> \in Seq(Seq(Entry)) /\ Len(<<>>) = 0
    BY EmptySeq
  <1>1. PICK b \in Seq(Entry) : currentBuffer_ = <<b>> /\ buffers_ \o currentBuffer_ = Append(buffers_, b)
    BY LoggedIs
  <1>2. /\ buffers_ \in Seq(Seq(Entry)) /\ InFront \in Seq(Entry)
        /\ Logged = (Entries(output) \o FlattenSeq(Unwritten)) \o InFront
        /\ Entries(output) \in Seq(Entry)
    BY LoggedIs
  <1>3. /\ buffersToWrite' = Append(buffers_, b) /\ written' = 0 /\ lines' = lines /\ output' = output
        /\ buffers_' = <<>> /\ currentBuffer_' = <<<<>>>> /\ logAt' = "write"
        /\ buffersToWrite = <<>>
    BY <1>1 DEF TakeBuffers, LogInv, BackInv, FreshBuffer, Empty
  <1>4. FlattenSeq(Unwritten) = <<>>
    <2>1. written + 1 \in Int /\ 0 \in Int /\ 0 < written + 1
      BY <1>0, <1>3 DEF LinesInv
    <2>2. SubSeq(<<>>, written + 1, 0) = <<>>
      BY <2>1, SubSeqEmpty
    <2> QED BY <1>0, <1>3, <2>2, FlattenOfNone DEF Unwritten
  <1>5. InFront' = <<>>
    <2>1. <<>> \o <<<<>>>> = <<<<>>>> /\ <<<<>>>> = Append(<<>>, <<>>)
      OBVIOUS
    <2>2. FlattenSeq(Append(<<>>, <<>>)) = FlattenSeq(<<>>) \o <<>>
      BY <1>0, FlattenAppend
    <2>3. <<>> \o <<>> = <<>>
      BY <1>0, ConcatEmptySeq
    <2> QED BY <1>3, <2>1, <2>2, <2>3, FlattenOfNone DEF InFront
  <1>6. /\ buffersToWrite' \in Seq(Seq(Entry)) /\ Len(buffersToWrite') = Len(buffers_) + 1 /\ Len(buffers_) \in Nat
        /\ \A i \in 1..Len(buffers_) : buffersToWrite'[i] = buffers_[i]
    BY <1>2, <1>3, AppendProperties, LenProperties
  <1>7. Unwritten' = buffersToWrite'
    <2>1. PICK s : s = buffersToWrite' /\ s \in Seq(Seq(Entry))
      BY <1>6
    <2>2. SubSeq(s, 1, Len(s)) = s
      BY <2>1, SubSeqFull
    <2>3. written' + 1 = 1
      BY <1>3
    <2> QED BY <2>1, <2>2, <2>3 DEF Unwritten
  <1>8. FlattenSeq(buffersToWrite') = InFront
    BY <1>1, <1>3 DEF InFront
  <1>9. Logged' = Logged
    <2>1. Logged' = (Entries(output)' \o FlattenSeq(Unwritten')) \o InFront'
      BY DEF Logged, Unwritten, InFront
    <2>2. PICK x, z : x = Entries(output) /\ z = InFront /\ x \in Seq(Entry) /\ z \in Seq(Entry)
      BY <1>2
    <2>3. x \o <<>> = x /\ x \o z \in Seq(Entry)
      BY <2>2, ConcatEmptySeq, ConcatProperties
    <2>4. (x \o z) \o <<>> = x \o z
      BY <2>3, ConcatEmptySeq
    <2>5. Logged = x \o z
      BY <1>2, <1>4, <2>2, <2>3
    <2>6. Entries(output)' = x
      BY <1>3, <2>2
    <2> QED BY <1>5, <1>7, <1>8, <2>1, <2>2, <2>4, <2>5, <2>6
  <1>10. FlattenSeq(buffersToWrite') \o InFront' = InFront
    BY <1>2, <1>5, <1>8, ConcatEmptySeq
  <1>11. lines \in Nat /\ Run(<<>>, lines)
    BY <1>0, LoggedIs DEF Run
  <1>12. Run(InFront, lines) /\ Covered(Logged, lines)
    BY DEF LinesInv
  <1>13. Len(buffersToWrite') > 2 => buffersToWrite'[1] # <<>>
    <2> SUFFICES ASSUME Len(buffersToWrite') > 2 PROVE buffersToWrite'[1] # <<>>
      OBVIOUS
    <2>1. 1 \in 1..Len(buffers_)
      BY <1>6
    <2> QED BY <1>6, <2>1 DEF LinesInv
  <1>14. \A i \in 1..Len(buffers_') : buffers_'[i] # <<>>
    BY <1>0, <1>3
  <1>15. Covered(Logged', lines') /\ Run(InFront', lines') /\ Run(FlattenSeq(buffersToWrite') \o InFront', lines')
    BY <1>3, <1>5, <1>9, <1>10, <1>11, <1>12
  <1>16. written' \in 0..Len(buffersToWrite')
    BY <1>3, <1>6
  <1> QED BY <1>3, <1>13, <1>14, <1>15, <1>16 DEF LinesInv


\* Too many buffers: the message takes the place of all but two.
LEMMA DropLogs == ASSUME LogInv, LinesInv, DropBuffers PROVE LinesInv'
  <1>1. PICK s \in Seq(Seq(Entry)) : s = buffersToWrite
    BY LoggedIs
  <1>2. PICK n \in Nat : n = Len(s) /\ n > 2
    <2>1. Len(s) \in Nat
      BY LenProperties
    <2> QED BY <1>1, <2>1, LogAssumption DEF DropBuffers
  <1>3. /\ logAt = "write" /\ written = 0 /\ lines' = lines /\ UNCHANGED <<buffers_, currentBuffer_, written, logAt>>
        /\ output' = LogFileAppend(output, <<Notice>>, seconds) /\ buffersToWrite' = SubSeq(s, 1, 2)
    BY <1>1 DEF DropBuffers, frontVars
  <1>4. \A i \in 1..n : s[i] \in Seq(Entry)
    BY <1>2, ElementOfSeq
  <1>5. PICK kept, rest : kept = SubSeq(s, 1, 2) /\ rest = SubSeq(s, 3, n)
    OBVIOUS
  <1>6. kept \in Seq(Seq(Entry)) /\ Len(kept) = 2 /\ kept[1] = s[1] /\ kept[2] = s[2]
    <2>1. \A i \in 1..2 : s[i] \in Seq(Entry)
      BY <1>2, <1>4
    <2>2. SubSeq(s, 1, 2) \in Seq(Seq(Entry)) /\ Len(SubSeq(s, 1, 2)) = 2 /\ \A i \in 1..2 : SubSeq(s, 1, 2)[i] = s[1 + i - 1]
      BY <2>1, SubSeqProperties
    <2> QED BY <1>5, <2>2
  <1>7. rest \in Seq(Seq(Entry))
    <2>1. \A i \in 3..n : s[i] \in Seq(Entry)
      BY <1>2, <1>4
    <2> QED BY <1>2, <1>5, <2>1, SubSeqProperties
  <1>8. s = kept \o rest
    <2>1. SubSeq(s, 1, 2) \o SubSeq(s, 2 + 1, n) = SubSeq(s, 1, n)
      <3>1. 1 \in 1..Len(s) + 1 /\ 2 \in 1 - 1..Len(s) /\ n \in 2..Len(s)
        BY <1>2
      <3> QED BY <3>1, ConcatAdjacentSubSeq
    <2>2. SubSeq(s, 1, n) = s
      BY <1>2, SubSeqFull
    <2> QED BY <1>5, <2>1, <2>2
  <1>9. PICK E, B, D, F : /\ E = Entries(output) /\ B = FlattenSeq(kept) /\ D = FlattenSeq(rest) /\ F = InFront
    OBVIOUS
  <1>10. E \in Seq(Entry) /\ B \in Seq(Entry) /\ D \in Seq(Entry) /\ F \in Seq(Entry) /\ lines \in Nat
    <2>1. <<>> \in Seq(Entry)
      BY EmptySeq
    <2> QED BY <1>6, <1>7, <1>9, <2>1, FlattenAppend, LoggedIs
  <1>11. FlattenSeq(s) = B \o D
    BY <1>6, <1>7, <1>8, <1>9, FlattenConcat
  <1>12. FlattenSeq(Unwritten) = B \o D
    <2>1. SubSeq(s, 1, Len(s)) = s
      BY SubSeqFull
    <2>2. written + 1 = 1
      BY <1>3
    <2> QED BY <1>1, <1>11, <2>1, <2>2 DEF Unwritten
  <1>13. B # <<>>
    <2>1. s[1] # <<>> /\ s[1] \in Seq(Entry) /\ s[2] \in Seq(Entry)
      <3>1. Len(buffersToWrite) > 2 => buffersToWrite[1] # <<>>
        BY DEF LinesInv
      <3> QED BY <1>1, <1>2, <1>4, <3>1
    <2>2. PICK p, q : p = s[1] /\ q = s[2]
      OBVIOUS
    <2>3. PICK one : one = Append(<<>>, p)
      OBVIOUS
    <2>4. <<>> \in Seq(Seq(Entry)) /\ <<>> \in Seq(Entry) /\ p \in Seq(Entry) /\ q \in Seq(Entry)
      BY <2>1, <2>2, EmptySeq
    <2>5. one \in Seq(Seq(Entry)) /\ Len(one) = 1 /\ one[1] = p
      <3>1. Len(<<>>) = 0
        BY <2>4, EmptySeq
      <3>2. \A e \in Seq(Entry) : /\ Append(<<>>, e) \in Seq(Seq(Entry)) /\ Len(Append(<<>>, e)) = Len(<<>>) + 1
                                  /\ Append(<<>>, e)[Len(<<>>) + 1] = e
        BY ONLY <2>4, AppendProperties
      <3> QED BY ONLY <2>3, <2>4, <3>1, <3>2
    <2>6. FlattenSeq(one) = p
      <3>1. FlattenSeq(one) = FlattenSeq(<<>>) \o p
        BY ONLY <2>3, <2>4, FlattenAppend
      <3> QED BY <2>4, <3>1, FlattenOfNone, ConcatEmptySeq
    <2>7. kept = Append(one, q)
      <3>1. PICK two : two = Append(one, q)
        OBVIOUS
      <3>2. two \in Seq(Seq(Entry)) /\ Len(two) = Len(one) + 1 /\ two[Len(one) + 1] = q /\ \A i \in 1..Len(one) : two[i] = one[i]
        <4>1. \A e \in Seq(Entry) : /\ Append(one, e) \in Seq(Seq(Entry)) /\ Len(Append(one, e)) = Len(one) + 1
                                    /\ Append(one, e)[Len(one) + 1] = e /\ \A i \in 1..Len(one) : Append(one, e)[i] = one[i]
          <5>1. one \in Seq(Seq(Entry))
            BY <2>5
          <5> QED BY ONLY <5>1, AppendProperties
        <4> QED BY ONLY <2>4, <3>1, <4>1
      <3>3. Len(two) = 2 /\ two[1] = p /\ two[2] = q
        BY ONLY <2>5, <3>2
      <3>4. Len(kept) = Len(two) /\ \A i \in 1..Len(kept) : kept[i] = two[i]
        BY ONLY <1>6, <2>2, <3>3
      <3>5. kept \in Seq(Seq(Entry)) /\ two \in Seq(Seq(Entry))
        BY <1>6, <3>2
      <3>6. kept = two
        BY ONLY <3>4, <3>5, SeqEqual
      <3> QED BY <3>1, <3>6
    <2>8. B = p \o q
      <3>1. FlattenSeq(Append(one, q)) = FlattenSeq(one) \o q
        BY ONLY <2>4, <2>5, FlattenAppend
      <3> QED BY <1>9, <2>6, <2>7, <3>1
    <2>9. p # <<>>
      BY <2>1, <2>2
    <2> QED BY ONLY <2>4, <2>8, <2>9, ConcatEqualIffEmpty
  <1>14. Covered((E \o (B \o D)) \o F, lines) /\ Run((B \o D) \o F, lines)
    <2>1. Logged = (E \o (B \o D)) \o F
      BY <1>9, <1>12, LoggedIs
    <2>2. Run(FlattenSeq(buffersToWrite) \o InFront, lines)
      BY <1>1, <1>2, <1>3 DEF LinesInv
    <2> QED BY <1>1, <1>9, <1>11, <2>1, <2>2 DEF LinesInv
  <1>15. Covered(((E \o <<Notice>>) \o B) \o F, lines)
    BY <1>10, <1>13, <1>14, DropCovers
  <1>16. IsLog(output') /\ Entries(output') = E \o <<Notice>>
    <2>1. <<Notice>> \in Seq(Entry)
      BY DEF Notice, Entry
    <2> QED BY <1>3, <1>9, <2>1, LogFileKeeps DEF LinesInv
  <1>17. Logged' = ((E \o <<Notice>>) \o B) \o F
    <2>1. Logged' = (Entries(output') \o FlattenSeq(Unwritten')) \o InFront'
      BY DEF Logged, Unwritten, InFront
    <2>2. InFront' = F
      BY <1>3, <1>9 DEF InFront
    <2>3. Unwritten' = kept
      <3>1. buffersToWrite' = kept /\ written' + 1 = 1
        BY <1>3, <1>5
      <3>2. SubSeq(kept, 1, Len(kept)) = kept
        BY <1>6, SubSeqFull
      <3> QED BY <3>1, <3>2 DEF Unwritten
    <2> QED BY <1>9, <1>16, <2>1, <2>2, <2>3
  <1>18. Covered(Logged', lines')
    BY <1>3, <1>15, <1>17
  <1>19. Run(InFront', lines')
    BY <1>3 DEF LinesInv, InFront
  <1>20. Len(buffersToWrite') = 2 /\ written' = 0
    BY <1>3, <1>5, <1>6
  <1> QED BY <1>3, <1>16, <1>18, <1>19, <1>20 DEF LinesInv

\* A buffer goes from what is unwritten to the end of the file.
LEMMA WriteLogs == ASSUME LogInv, LinesInv, WriteBuffer PROVE LinesInv'
  <1>1. PICK s \in Seq(Seq(Entry)), n \in Nat : s = buffersToWrite /\ n = Len(s)
    BY LoggedIs, LenProperties
  <1>2. PICK m \in 1..n : m = written + 1
    BY <1>1 DEF WriteBuffer, LinesInv
  <1>3. /\ logAt = "write" /\ logAt' = "write" /\ written' = m /\ lines' = lines
        /\ UNCHANGED <<buffers_, currentBuffer_, buffersToWrite>>
        /\ output' = LogFileAppend(output, s[m], seconds)
    BY <1>1, <1>2 DEF WriteBuffer, frontVars
  <1>4. s[m] \in Seq(Entry) /\ \A i \in 1..n : s[i] \in Seq(Entry)
    BY <1>1, <1>2, ElementOfSeq
  <1>5. PICK E, U, F, rest : E = Entries(output) /\ U = FlattenSeq(rest) /\ F = InFront /\ rest = SubSeq(s, m + 1, n)
    OBVIOUS
  <1>6. rest \in Seq(Seq(Entry))
    <2>1. \A i \in m + 1..n : s[i] \in Seq(Entry)
      BY <1>4
    <2> QED BY <1>5, <2>1, SubSeqProperties
  <1>7. E \in Seq(Entry) /\ U \in Seq(Entry) /\ F \in Seq(Entry)
    <2>1. <<>> \in Seq(Entry)
      BY EmptySeq
    <2> QED BY <1>5, <1>6, <2>1, FlattenAppend, LoggedIs
  <1>8. Unwritten = <<s[m]>> \o rest
    <2>1. m \in 1..Len(s) /\ n \in m..Len(s)
      BY <1>1
    <2>2. SubSeq(s, m, n) = <<s[m]>> \o SubSeq(s, m + 1, n)
      BY <2>1, SubSeqRecursiveFirst
    <2> QED BY <1>1, <1>2, <1>5, <2>2 DEF Unwritten
  <1>9. FlattenSeq(Unwritten) = s[m] \o U
    <2>1. PICK p : p = s[m]
      OBVIOUS
    <2>2. PICK one : one = <<p>>
      OBVIOUS
    <2>3. p \in Seq(Entry) /\ <<>> \in Seq(Seq(Entry)) /\ <<>> \in Seq(Entry)
      BY <1>4, <2>1, EmptySeq
    <2>4. one = Append(<<>>, p)
      BY <2>2
    <2>5. one \in Seq(Seq(Entry)) /\ FlattenSeq(one) = <<>> \o p
      BY <2>3, <2>4, FlattenAppend, FlattenOfNone, AppendProperties
    <2>6. <<>> \o p = p
      BY <2>3, ConcatEmptySeq
    <2>7. FlattenSeq(one \o rest) = FlattenSeq(one) \o FlattenSeq(rest)
      BY <1>6, <2>5, FlattenConcat
    <2> QED BY <1>5, <1>8, <2>1, <2>2, <2>5, <2>6, <2>7
  <1>10. IsLog(output') /\ Entries(output') = E \o s[m]
    BY <1>3, <1>4, <1>5, LogFileKeeps DEF LinesInv
  <1>11. Logged' = Logged
    <2>1. Logged' = (Entries(output') \o FlattenSeq(Unwritten')) \o InFront'
      BY DEF Logged, Unwritten, InFront
    <2>2. InFront' = F /\ Unwritten' = rest
      BY <1>1, <1>3, <1>5 DEF InFront, Unwritten
    <2>3. PICK p : p = s[m]
      OBVIOUS
    <2>4. E \in Seq(Entry) /\ p \in Seq(Entry) /\ U \in Seq(Entry)
      BY <1>4, <1>7, <2>3
    <2>5. (E \o p) \o U = E \o (p \o U)
      BY ONLY <2>4, ConcatAssociative, SMTT(60)
    <2>6. Logged = (E \o (p \o U)) \o F
      BY <1>5, <1>9, <2>3, LoggedIs
    <2> QED BY <1>5, <1>10, <2>1, <2>2, <2>3, <2>5, <2>6
  <1>12. Covered(Logged', lines') /\ Run(InFront', lines')
    BY <1>3, <1>11 DEF LinesInv, InFront
  <1>13. written' \in 0..Len(buffersToWrite') /\ written' # 0
    BY <1>1, <1>3
  <1> QED BY <1>3, <1>10, <1>12, <1>13 DEF LinesInv

\* All is written, so that there is nothing unwritten afterwards either.
LEMMA RefillLogs == ASSUME LogInv, LinesInv, RefillBuffers PROVE LinesInv'
  <1>1. PICK n \in Nat : n = Len(buffersToWrite)
    BY LoggedIs, LenProperties
  <1>2. /\ written = n /\ lines' = lines /\ UNCHANGED <<buffers_, currentBuffer_>> /\ logAt' = "loop"
        /\ buffersToWrite' = <<>> /\ written' = 0 /\ output' = Flush(output)
    BY <1>1 DEF RefillBuffers, frontVars
  <1>3. IsLog(output') /\ Entries(output') = Entries(output)
    BY <1>2, FlushKeeps DEF LinesInv
  <1>4. Unwritten = <<>>
    <2>1. SubSeq(buffersToWrite, n + 1, n) = <<>>
      BY SubSeqEmpty
    <2> QED BY <1>1, <1>2, <2>1 DEF Unwritten
  <1>5. Unwritten' = <<>> /\ Len(buffersToWrite') = 0
    <2>1. Len(<<>>) = 0
      BY EmptySeq
    <2>2. SubSeq(<<>>, 1, 0) = <<>>
      BY SubSeqEmpty
    <2> QED BY <1>2, <2>1, <2>2 DEF Unwritten
  <1>6. InFront' = InFront
    BY <1>2 DEF InFront
  <1>7. Logged' = Logged
    BY <1>3, <1>4, <1>5, <1>6 DEF Logged, Unwritten, InFront
  <1> QED BY <1>2, <1>3, <1>5, <1>6, <1>7 DEF LinesInv

\* The LogFile is made before anything is written.
LEMMA BeginLogs == ASSUME LogInv, LinesInv, BeginLog PROVE LinesInv'
  <1>1. /\ logAt = "begin" /\ logAt' = "loop" /\ output' = LogFile(seconds)
        /\ UNCHANGED <<lines, buffers_, currentBuffer_, buffersToWrite, written>>
    BY DEF BeginLog, frontVars
  <1>2. IsLog(output') /\ Entries(output') = <<>>
    <2>1. output'.files = <<<<>>>> /\ "files" \in DOMAIN output'
      BY <1>1 DEF LogFile
    <2>2. <<>> \in Seq(Entry) /\ <<>> \in Seq(Seq(Entry)) /\ <<<<>>>> = Append(<<>>, <<>>)
      BY EmptySeq
    <2>3. <<<<>>>> \in Seq(Seq(Entry)) /\ <<<<>>>> # <<>>
      BY <2>2, AppendProperties
    <2>4. FlattenSeq(<<<<>>>>) = <<>> \o <<>>
      BY <2>2, FlattenAppend, FlattenOfNone
    <2>5. <<>> \o <<>> = <<>>
      BY <2>2, ConcatEmptySeq
    <2> QED BY <2>1, <2>3, <2>4, <2>5 DEF IsLog, Entries
  <1>3. Entries(output') = Entries(output)
    BY <1>1, <1>2 DEF LinesInv
  <1> QED BY <1>1, <1>2, <1>3, LinesStay

LEMMA LinesStep == LogInv /\ LinesInv /\ [LogNext]_logVars => LinesInv'
  <1> SUFFICES ASSUME LogInv, LinesInv, [LogNext]_logVars PROVE LinesInv'
    OBVIOUS
  <1>0. IsLog(output) /\ IsLog(Flush(output)) /\ Entries(Flush(output)) = Entries(output)
    BY FlushKeeps DEF LinesInv
  <1>1. CASE StartLog
    <2>1. UNCHANGED <<lines, buffers_, currentBuffer_, buffersToWrite, written, output>> /\ logAt' = "begin" /\ logAt = "none"
      BY <1>1 DEF StartLog, frontVars, backVars, LogInv, BackInv
    <2> QED BY <1>0, <2>1, LinesStay
  <1>2. CASE LatchOpen \/ StopLog \/ JoinLog \/ SecondPasses \/ UNCHANGED logVars
    <2>1. UNCHANGED <<lines, buffers_, currentBuffer_, buffersToWrite, written, output>> /\ (logAt' = logAt \/ logAt' = "woken")
      BY <1>2 DEF LatchOpen, StopLog, JoinLog, SecondPasses, NotifyLog, frontVars, backVars, logVars
    <2> QED BY <1>0, <2>1, LinesStay
  <1>3. CASE CheckRunning \/ WaitEnds \/ (LockLog /\ ~ TakeBuffers)
    <2>1. /\ UNCHANGED <<lines, buffers_, currentBuffer_, buffersToWrite, written>>
          /\ output' = output \/ output' = Flush(output)
          /\ logAt' \in {"lock", "ended", "waiting", "woken"}
      BY <1>3 DEF CheckRunning, WaitEnds, LockLog, frontVars, backVars
    <2> QED BY <1>0, <2>1, LinesStay
  <1>4. CASE (LockLog /\ TakeBuffers) \/ Woken
    BY <1>4, TakeLogs DEF LockLog, Woken
  <1>5. ASSUME NEW len \in LineLengths, AppendLine(len) PROVE LinesInv'
    BY <1>5, AppendLogs
  <1> QED BY <1>1, <1>2, <1>3, <1>4, <1>5, BeginLogs, DropLogs, WriteLogs, RefillLogs DEF LogNext, LogThread

(* The log is kept, for all lines, lengths, bounds and rolls: whatever threads append,
   however the logging thread swaps, drops, writes and rolls, no line is lost, repeated or
   out of order, but where a message comes before the gap; and the assertions of
   threadFunc hold.  (AsyncLogging::append, threadFunc; LogFile::append, rollFile) *)
THEOREM LogIsKept == LogSpec => []LogKept
  <1>1. LogInv => SparesReady
    BY DEF LogInv, FrontInv, BackInv, SparesReady, Null, FreshBuffer
  <1>2. LogInv /\ LinesInv => LinesKept
    <2> SUFFICES ASSUME LogInv, LinesInv PROVE LinesKept
      OBVIOUS
    <2>1. PICK log : log = Logged
      OBVIOUS
    <2>2. log \in Seq(Entry) /\ lines \in Nat /\ Covered(log, lines)
      BY <2>1, LoggedIs DEF LinesInv
    <2>3. \A i, j \in LinesIn(log) : i < j => log[i][1] < log[j][1]
      BY <2>2 DEF Covered
    <2>4. NoticesIn(log) = {} => LineNumbers(log) = [i \in 1..lines |-> i]
      BY <2>2, CoveredInOrder
    <2>5. \A n \in DOMAIN log : Cardinality(Gaps(log) \cap 1..n) <= Cardinality(NoticesIn(log) \cap 1..n)
      BY <2>2, CoveredGaps
    <2> QED BY <2>1, <2>3, <2>4, <2>5 DEF LinesKept
  <1>3. LogInv /\ LinesInv => LogKept
    BY <1>1, <1>2 DEF LogKept
  <1> QED BY <1>3, LogStarts, LogStep, LinesStart, LinesStep, PTL DEF LogSpec

=============================================================================
