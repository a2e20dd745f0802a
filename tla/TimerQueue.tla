----------------------------- MODULE TimerQueue -----------------------------
(***************************************************************************)
(* The timers of an event loop: a set of timers by expiration, the same    *)
(* timers by identity, and a timerfd that is armed for the earliest.  The  *)
(* queue is touched by the thread of its loop only; other threads queue    *)
(* functors.  A Timer is a raw pointer: its address is used again once it  *)
(* is deleted, and a TimerId tells the two apart by a sequence number.     *)
(* Time passes in units of the least delay the timerfd is armed for.       *)
(***************************************************************************)
EXTENDS Integers, SequencesExt, FiniteSetsExt

CONSTANTS
    Addresses,          \* where Timers are allocated
    Delays,             \* addTimer: how far ahead
    Intervals,          \* addTimer: 0 for once
    MaxTimers, MaxTime, MaxFunctors, MaxSetBack   \* bounds

ASSUME TimerAssumption ==
    /\ IsFiniteSet(Addresses)
    /\ Delays \subseteq Nat /\ Intervals \subseteq Nat
    /\ MaxTime \in Nat \ {0}

VARIABLES
    timer,              \* timer[a]: the Timer at a; its seq is 0 when there is none
    timers,             \* timers_: <<expiration, address>>
    activeTimers,       \* activeTimers_: <<address, sequence>>
    cancelingTimers,
    callingExpired,     \* callingExpiredTimers_
    batch,            \* handleRead: the entries still to run or to reset
    finished,           \* handleRead: those that have run
    now,                \* handleRead: the time at which it began
    loop,               \* what the thread of the loop is doing
    functors,           \* what other threads have queued: <<operation, address, sequence>>
    clock,              \* Timestamp::now()
    setBack,            \* how often the clock has been set back
    left,               \* the timerfd: time until it rings, 0 when it is disarmed
    rung,               \* can the timerfd be read?
    created,            \* s_numCreated_
    issued,             \* issued[seq]: the address and the interval of Timer seq (history)
    hasRun, cancelled   \* the timers that have run, and been cancelled when they
                        \* were in the queue (history)

history == <<hasRun, cancelled>>
queueVars == <<timers, activeTimers, cancelingTimers>>
timeVars == <<clock, setBack>>
batchVars == <<batch, finished, now>>
timerVars == <<timer, queueVars, callingExpired, batchVars, loop, functors, timeVars, left, rung,
               created, issued, history>>

NoTimer == [seq |-> 0, when |-> 0, interval |-> 0]
Expiration(e) == e[1]

TimerInit ==
    /\ timer = [a \in Addresses |-> NoTimer]
    /\ timers = {} /\ activeTimers = {} /\ cancelingTimers = {}
    /\ callingExpired = FALSE /\ batch = <<>> /\ finished = <<>> /\ now = 0
    /\ loop = "poll" /\ functors = <<>>
    /\ clock = 1 /\ setBack = 0 /\ left = 0 /\ rung = FALSE
    /\ created = 0 /\ issued = <<>> /\ hasRun = {} /\ cancelled = {}

-----------------------------------------------------------------------------
\* Mutant: no lower limit.
HowMuchTimeFromNowRaw(when) == Max({when - clock, 0})

(* resetTimerfd: at least one unit, or the timerfd would be disarmed.  Setting
   it forgets that it has rung. *)
HowMuchTimeFromNow(when) == Max({when - clock, 1})
ResetTimerfd(when) == left' = HowMuchTimeFromNow(when) /\ rung' = FALSE
KeepTimerfd == UNCHANGED <<left, rung>>

Earliest(entries) == Min({Expiration(e) : e \in entries})

(* addTimerInLoop with insert. *)
AddTimerInLoop(a, when, seq) ==
    /\ timers' = timers \cup {<<when, a>>}
    /\ activeTimers' = activeTimers \cup {<<a, seq>>}
    /\ IF timers = {} \/ when < Earliest(timers) THEN ResetTimerfd(when) ELSE KeepTimerfd
    /\ UNCHANGED cancelingTimers

\* Mutant: a timer is identified by its address alone.
CancelInLoopByAddress(a, seq) ==
    IF \E id \in activeTimers : id[1] = a
    THEN /\ timers' = timers \ {<<timer[a].when, a>>}
         /\ activeTimers' = {id \in activeTimers : id[1] # a}
         /\ timer' = [timer EXCEPT ![a] = NoTimer]
         /\ UNCHANGED cancelingTimers
    ELSE /\ cancelingTimers' = IF callingExpired THEN cancelingTimers \cup {<<a, seq>>} ELSE cancelingTimers
         /\ UNCHANGED <<timer, timers, activeTimers>>

(* cancelInLoop: a timer that is being run is not restarted. *)
CancelInLoop(a, seq) ==
    IF <<a, seq>> \in activeTimers
    THEN /\ timers' = timers \ {<<timer[a].when, a>>}
         /\ activeTimers' = activeTimers \ {<<a, seq>>}
         /\ timer' = [timer EXCEPT ![a] = NoTimer]
         /\ UNCHANGED cancelingTimers
    ELSE /\ cancelingTimers' = IF callingExpired THEN cancelingTimers \cup {<<a, seq>>} ELSE cancelingTimers
         /\ UNCHANGED <<timer, timers, activeTimers>>

(* Is its addTimerInLoop still queued? *)
Queued(seq) == \E i \in DOMAIN functors : functors[i][1] = "add" /\ functors[i][3] = seq
Cancelled(seq) ==
    /\ cancelled' = IF Queued(seq) THEN cancelled ELSE cancelled \cup {seq}
    /\ UNCHANGED hasRun

-----------------------------------------------------------------------------
(* addTimer by the thread of the loop (in any of its callbacks) or by another. *)
NewTimer(a, when, interval) ==
    /\ created < MaxTimers /\ timer[a] = NoTimer /\ created' = created + 1
    /\ timer' = [timer EXCEPT ![a] = [seq |-> created', when |-> when, interval |-> interval]]
    /\ issued' = Append(issued, [at |-> a, interval |-> interval])

(* The thread of the loop is in a callback or handler, not between two timers. *)
InHandler == loop # "calling"

AddTimer(a, delay, interval) ==
    /\ InHandler
    /\ NewTimer(a, clock + delay, interval)
    /\ AddTimerInLoop(a, clock + delay, created')
    /\ UNCHANGED <<callingExpired, batchVars, loop, functors, timeVars, history>>

AddTimerFromOther(a, delay, interval) ==
    /\ Len(functors) < MaxFunctors
    /\ NewTimer(a, clock + delay, interval)
    /\ functors' = Append(functors, <<"add", a, created'>>)
    /\ UNCHANGED <<queueVars, callingExpired, batchVars, loop, timeVars, left, rung, history>>

(* cancel with any TimerId there has been: that of a Timer that is gone, too. *)
Cancel(seq) ==
    /\ InHandler
    /\ CancelInLoop(issued[seq].at, seq) /\ Cancelled(seq)
    /\ UNCHANGED <<callingExpired, batchVars, loop, functors, timeVars, left, rung, created, issued>>

CancelFromOther(seq) ==
    /\ Len(functors) < MaxFunctors
    /\ functors' = Append(functors, <<"cancel", issued[seq].at, seq>>)
    /\ UNCHANGED <<timer, queueVars, callingExpired, batchVars, loop, timeVars, left, rung, created, issued, history>>

RunFunctor ==
    /\ loop = "poll" /\ functors # <<>>
    /\ LET f == Head(functors)
       IN  \/ /\ f[1] = "add"
              /\ AddTimerInLoop(f[2], timer[f[2]].when, f[3])
              /\ UNCHANGED <<timer, history>>
           \/ /\ f[1] = "cancel"
              /\ CancelInLoop(f[2], f[3]) /\ Cancelled(f[3])
              /\ KeepTimerfd
    /\ functors' = Tail(functors)
    /\ UNCHANGED <<callingExpired, batchVars, loop, timeVars, created, issued>>

-----------------------------------------------------------------------------
(* poll() reports the timerfd; the handlers of other channels may come first. *)
TimerfdActive ==
    /\ loop = "poll" /\ rung
    /\ loop' = "active"
    /\ UNCHANGED <<timer, queueVars, callingExpired, batchVars, functors, timeVars, left, rung, created, issued, history>>

(* handleRead up to the callbacks, with getExpired: std::set orders the entries
   by expiration, then by address. *)
HandleRead ==
    /\ loop = "active"
    /\ LET due == {e \in timers : Expiration(e) <= clock}
       IN  /\ \E order \in SetToSeqs(due) :
                 /\ \A i, j \in DOMAIN order : i < j => Expiration(order[i]) <= Expiration(order[j])
                 /\ batch' = order
           /\ timers' = timers \ due
           /\ activeTimers' = {id \in activeTimers : \A e \in due : e[2] # id[1]}
    /\ rung' = FALSE /\ callingExpired' = TRUE /\ cancelingTimers' = {}
    /\ loop' = "calling" /\ finished' = <<>> /\ now' = clock
    /\ UNCHANGED <<timer, functors, timeVars, left, created, issued, history>>

(* One callback begins: until it returns, the loop is in it. *)
RunTimer ==
    /\ loop = "calling" /\ batch # <<>>
    /\ loop' = "callback"
    /\ LET seq == timer[Head(batch)[2]].seq
       IN  hasRun' = hasRun \cup {seq}
    /\ UNCHANGED <<timer, queueVars, callingExpired, batchVars, functors, timeVars, left, rung, created, issued, cancelled>>

CallbackReturns ==
    /\ loop = "callback"
    /\ loop' = "calling"
    /\ batch' = Tail(batch) /\ finished' = Append(finished, Head(batch))
    /\ UNCHANGED <<timer, queueVars, callingExpired, now, functors, timeVars, left, rung, created, issued, history>>

(* reset: periodic timers are inserted again, the others deleted, and the
   timerfd armed for what is now the earliest, if it is a valid time. *)
Again(a) == timer[a].interval > 0 /\ <<a, timer[a].seq>> \notin cancelingTimers
Reset ==
    /\ loop = "calling" /\ batch = <<>>
    /\ LET again == {a \in {finished[i][2] : i \in DOMAIN finished} : Again(a)}
           gone == {finished[i][2] : i \in DOMAIN finished} \ again
       IN  /\ timer' = [a \in Addresses |->
                           IF a \in gone THEN NoTimer
                           ELSE IF a \in again THEN [timer[a] EXCEPT !.when = now + timer[a].interval]
                           ELSE timer[a]]
           /\ timers' = timers \cup {<<now + timer[a].interval, a>> : a \in again}
           /\ activeTimers' = activeTimers \cup {<<a, timer[a].seq>> : a \in again}
    /\ IF timers' # {} /\ Earliest(timers') > 0 THEN ResetTimerfd(Earliest(timers')) ELSE KeepTimerfd
    /\ callingExpired' = FALSE /\ finished' = <<>> /\ loop' = "poll"
    /\ UNCHANGED <<cancelingTimers, batch, now, functors, timeVars, created, issued, history>>

-----------------------------------------------------------------------------
(* Time: the clock of the timerfd is monotonic, the other may be set back.
   At its bound it stops; the timerfd still rings. *)
Tick ==
    /\ clock < MaxTime \/ left > 0
    /\ clock' = Min({clock + 1, MaxTime})
    /\ left' = Max({left - 1, 0}) /\ rung' = (rung \/ left = 1)
    /\ UNCHANGED <<timer, queueVars, callingExpired, batchVars, loop, functors, setBack, created, issued, history>>

SetBack ==
    /\ setBack < MaxSetBack /\ clock > 1
    /\ clock' = clock - 1 /\ setBack' = setBack + 1
    /\ UNCHANGED <<timer, queueVars, callingExpired, batchVars, loop, functors, left, rung, created, issued, history>>

HandleTimers == TimerfdActive \/ HandleRead \/ RunTimer \/ CallbackReturns \/ Reset

TimerNext ==
    \/ HandleTimers \/ RunFunctor \/ Tick \/ SetBack
    \/ \E a \in Addresses, d \in Delays, i \in Intervals : AddTimer(a, d, i) \/ AddTimerFromOther(a, d, i)
    \/ \E s \in 1..created : Cancel(s) \/ CancelFromOther(s)

(* Time passes, callbacks return, and loop() polls again after every round of
   functors. *)
TimerFairness == WF_timerVars(HandleTimers) /\ WF_timerVars(RunFunctor) /\ WF_timerVars(Tick)
TimerSpec == TimerInit /\ [][TimerNext]_timerVars /\ TimerFairness

-----------------------------------------------------------------------------
Active(seq) == \E id \in activeTimers : id[2] = seq
InBatch(a) == \E i \in DOMAIN batch : batch[i][2] = a
Finished(a) == \E i \in DOMAIN finished : finished[i][2] = a

(* The two sets hold the same timers, every pointer in them or in the batch
   points to its Timer, and no Timer is in both: what the assertions on the
   sizes say, and that nothing deleted is used. *)
TimersAlive ==
    /\ timers = {<<timer[id[1]].when, id[1]>> : id \in activeTimers}
    /\ \A id \in activeTimers : timer[id[1]].seq = id[2]
    /\ \A a \in Addresses : InBatch(a) \/ Finished(a) =>
           timer[a].seq > 0 /\ \A e \in timers : e[2] # a

(* A timer leaves the queue by running or by being cancelled under its own
   identity: another Timer's, at the same address before it, does it no harm. *)
TimerKept ==
    \A s \in 1..created :
        \/ Queued(s) \/ Active(s)
        \/ timer[issued[s].at].seq = s /\ (InBatch(issued[s].at) \/ Finished(issued[s].at))
        \/ s \in cancelled \/ (s \in hasRun /\ issued[s].interval = 0)

(* A timer that has been cancelled is not in the queue again: not even one that
   cancelled itself, or was cancelled, while the batch it was in was running. *)
CancelHolds == \A s \in cancelled : ~ Active(s)

(* When the loop waits and there are timers, the timerfd will ring: after a
   cancel, a clock that was set back, a timer added by a callback. *)
AlarmSet == loop = "poll" /\ timers # {} => left > 0 \/ rung

(* The queue is sound: nothing deleted is used, no timer is lost, no cancelled one
   comes back, and the alarm is set whenever there is something to wait for. *)
TimersSound == TimersAlive /\ TimerKept /\ CancelHolds /\ AlarmSet

(* Where a Timer is: queued by another thread, in the queue, or in the batch. *)
QueuedAt(a) == \E i \in DOMAIN functors : functors[i][1] = "add" /\ functors[i][2] = a
ActiveAt(a) == \E id \in activeTimers : id[1] = a
InRound(a) == InBatch(a) \/ Finished(a)

TimerSetsOK ==
    /\ timer \in [Addresses -> [seq : Nat, when : Nat, interval : Nat]]
    /\ activeTimers \subseteq Addresses \X Nat
    /\ batch \in Seq(Nat \X Addresses) /\ finished \in Seq(Nat \X Addresses)
    /\ functors \in Seq({"add", "cancel"} \X Addresses \X Nat)
    /\ loop \in {"poll", "active", "calling", "callback"}
    /\ callingExpired \in BOOLEAN /\ (callingExpired <=> loop \in {"calling", "callback"})
    /\ clock \in Nat \ {0} /\ now \in Nat /\ left \in Nat /\ rung \in BOOLEAN
    /\ created \in Nat /\ issued \in Seq([at : Addresses, interval : Nat])
    /\ Len(issued) = created

(* A Timer is the one issued under its number; a pointer to it is kept in one place. *)
IdsInv ==
    \A a \in Addresses : timer[a].seq # 0 =>
        /\ timer[a].seq \in 1..created
        /\ issued[timer[a].seq] = [at |-> a, interval |-> timer[a].interval]
        /\ timer[a].when > 0
PlacesInv ==
    /\ \A i \in DOMAIN functors :
          /\ functors[i][3] \in 1..created /\ issued[functors[i][3]].at = functors[i][2]
          /\ functors[i][1] = "add" =>
                /\ timer[functors[i][2]].seq = functors[i][3]
                /\ ~ ActiveAt(functors[i][2]) /\ ~ InRound(functors[i][2])
                /\ \A j \in DOMAIN functors :
                      functors[j][1] = "add" /\ functors[j][2] = functors[i][2] => i = j
    /\ \A id \in activeTimers : id[2] # 0

(* One timer is dealt with after the other, in one round. *)
RoundInv ==
    /\ \A i, j \in DOMAIN batch : batch[i][2] = batch[j][2] => i = j
    /\ \A a \in Addresses : InBatch(a) => ~ Finished(a)
    /\ loop \in {"poll", "active"} => batch = <<>> /\ finished = <<>>
    /\ loop = "callback" => batch # <<>> /\ timer[Head(batch)[2]].seq \in hasRun
    /\ loop \in {"calling", "callback"} => now > 0
    /\ \A a \in Addresses : Finished(a) => timer[a].seq \in hasRun

(* What was cancelled during a round is what reset looks up. *)
CancelInv ==
    /\ cancelled \subseteq 1..created
    /\ \A s \in cancelled : ~ Queued(s)
    /\ \A a \in Addresses : InRound(a) =>
          (timer[a].seq \in cancelled <=> <<a, timer[a].seq>> \in cancelingTimers)

TimerInv == TimerSetsOK /\ IdsInv /\ PlacesInv /\ RoundInv /\ CancelInv /\ TimersSound

(* A timer whose time comes runs, unless it is cancelled. *)
TimerRuns ==
    \A s \in 1..MaxTimers :
        (s <= created /\ Active(s) /\ timer[issued[s].at].when <= MaxTime)
            ~> (s \in hasRun \/ s \in cancelled)
=============================================================================
