----------------------------- MODULE EventLoop -----------------------------
(***************************************************************************)
(* The reactor of muduo: EventLoop, Channel and the epoll poller.  A loop  *)
(* waits in poll(), handles the channels that became active one callback   *)
(* after the other, then runs the functors other threads (or its own       *)
(* callbacks) have queued.  The channels that are not a loop's own eventfd *)
(* belong to the modules that extend this one; they say when a channel is  *)
(* ready and what its callbacks do.                                        *)
(***************************************************************************)
EXTENDS Naturals, SequencesExt

CONSTANTS
    Loops,        \* the event loops; each has a thread of its own
    Channels      \* the channels other than the wakeup channels

VARIABLES
    phase,           \* phase[l]: what loop() of l is doing
    active,          \* active[l]: activeChannels_ still to be handled, each with the
                     \* revents_ still to be handled; the first is the current one
    pendingFunctors, \* pendingFunctors[l]: queued and not yet taken
    functors,        \* functors[l]: the vector doPendingFunctors has taken
    next,            \* next[l]: how many of them have run
    wakeupFd,        \* wakeupFd[l]: is the counter of the eventfd positive?
    events,          \* events[c]: events_, what the channel is interested in
    index            \* index[c]: index_, what the poller knows of the channel

loopVars == <<phase, active, pendingFunctors, functors, next, wakeupFd>>
channelVars == <<events, index>>

(* Channels every loop, or the base loop, has: their index_ does not change. *)
Wakeup == "wakeup"
Acceptor == "acceptor"

(* The order in which Channel::handleEventWithGuard looks at revents_. *)
CallbackOrder == <<"HUP", "ERR", "IN", "OUT">>
Revents == {CallbackOrder[i] : i \in DOMAIN CallbackOrder}

LoopInit ==
    /\ phase = [l \in Loops |-> "poll"]
    /\ active = [l \in Loops |-> <<>>]
    /\ pendingFunctors = [l \in Loops |-> <<>>]
    /\ functors = [l \in Loops |-> <<>>]
    /\ next = [l \in Loops |-> 0]
    /\ wakeupFd = [l \in Loops |-> FALSE]
    /\ events = [c \in Channels |-> {}]
    /\ index = [c \in Channels |-> "kNew"]

LoopTypeOK ==
    /\ phase \in [Loops -> {"poll", "events", "functors"}]
    /\ active \in [Loops -> Seq((Channels \cup {Wakeup, Acceptor}) \X SUBSET Revents)]
    /\ wakeupFd \in [Loops -> BOOLEAN]
    /\ next \in [Loops -> Nat]
    /\ \A l \in Loops : next[l] <= Len(functors[l])
    /\ events \in [Channels -> SUBSET {"IN", "OUT"}]
    /\ index \in [Channels -> {"kNew", "kAdded", "kDeleted"}]

-----------------------------------------------------------------------------
(* Channel::update with EPollPoller::updateChannel: the channel is added to
   epoll, modified there or, without interest, taken out again. *)
UpdateChannel(c, ev) ==
    /\ events' = [events EXCEPT ![c] = ev]
    /\ index' = [index EXCEPT ![c] = IF @ = "kAdded" /\ ev = {} THEN "kDeleted"
                                     ELSE "kAdded"]

(* Channel::remove with EPollPoller::removeChannel. *)
RemoveChannel(c) == index' = [index EXCEPT ![c] = "kNew"]

(* Mutant: a functor queued by a functor wakes nobody. *)
QueueInLoopFromOthers(t, l, fs) ==
    /\ pendingFunctors' = [pendingFunctors EXCEPT ![l] = @ \o fs]
    /\ wakeupFd' = [wakeupFd EXCEPT ![l] = @ \/ (fs # <<>> /\ t # l)]

(* queueInLoop(fs[1]), queueInLoop(fs[2]), ... on loop l, called by thread t:
   the loop is woken unless it is the caller and not running functors, in which
   case it gets to them before it polls again. *)
QueueInLoop(t, l, fs) ==
    /\ pendingFunctors' = [pendingFunctors EXCEPT ![l] = @ \o fs]
    /\ wakeupFd' = [wakeupFd EXCEPT
                      ![l] = @ \/ (fs # <<>> /\ (t # l \/ phase[l] = "functors"))]

-----------------------------------------------------------------------------
(* poll() returns what is ready, in any order, or nothing after its timeout.  A
   timeout with nothing to do leads back here. *)
Poll(l, ready) ==
    LET all == ready \cup (IF wakeupFd[l] THEN {<<Wakeup, {"IN"}>>} ELSE {})
    IN  /\ phase[l] = "poll"
        /\ all # {} \/ pendingFunctors[l] # <<>>
        /\ \E order \in SetToSeqs(all) : active' = [active EXCEPT ![l] = order]
        /\ phase' = [phase EXCEPT ![l] = "events"]
        /\ UNCHANGED <<pendingFunctors, functors, next, wakeupFd>>

(* r is the event handleEventWithGuard looks at next, and c the channel. *)
Handling(l, c, r) ==
    /\ phase[l] = "events"
    /\ active[l] # <<>>
    /\ LET current == Head(active[l])
       IN  /\ current[1] = c
           /\ r \in current[2]
           /\ \A i, j \in DOMAIN CallbackOrder :
                CallbackOrder[i] \in current[2] /\ CallbackOrder[j] = r => j <= i

(* The callback for r is done. *)
Handled(l, r) ==
    LET current == Head(active[l])
        rest == current[2] \ {r}
    IN  active' = [active EXCEPT ![l] = IF rest = {} THEN Tail(@)
                                        ELSE <<<<current[1], rest>>>> \o Tail(@)]

(* EventLoop::handleRead: reading the eventfd resets it. *)
HandleWakeup(l) ==
    /\ Handling(l, Wakeup, "IN")
    /\ wakeupFd' = [wakeupFd EXCEPT ![l] = FALSE]
    /\ Handled(l, "IN")
    /\ UNCHANGED <<phase, pendingFunctors, functors, next>>

(* doPendingFunctors: what is queued is taken in one go, under the mutex. *)
TakeFunctors(l) ==
    /\ phase[l] = "events"
    /\ active[l] = <<>>
    /\ functors' = [functors EXCEPT ![l] = pendingFunctors[l]]
    /\ pendingFunctors' = [pendingFunctors EXCEPT ![l] = <<>>]
    /\ phase' = [phase EXCEPT ![l] = IF pendingFunctors[l] = <<>> THEN "poll" ELSE "functors"]
    /\ UNCHANGED <<active, next, wakeupFd>>

(* The functor loop l is about to run is f. *)
Running(l, f) ==
    /\ phase[l] = "functors"
    /\ next[l] < Len(functors[l])
    /\ functors[l][next[l] + 1] = f

(* The vector, and what its functors own, is destroyed when all have run. *)
FunctorsDone(l) ==
    /\ phase[l] = "functors"
    /\ next[l] = Len(functors[l])
    /\ functors' = [functors EXCEPT ![l] = <<>>]
    /\ next' = [next EXCEPT ![l] = 0]
    /\ phase' = [phase EXCEPT ![l] = "poll"]
    /\ UNCHANGED <<active, pendingFunctors, wakeupFd>>

(* The steps of a loop that no channel or functor is concerned with. *)
LoopStep(l) ==
    \/ HandleWakeup(l)
    \/ TakeFunctors(l)
    \/ FunctorsDone(l)

(* Functors loop l still has to run. *)
ToRun(l) == SubSeq(functors[l], next[l] + 1, Len(functors[l])) \o pendingFunctors[l]

-----------------------------------------------------------------------------
(* No lost wakeup: a loop that waits in poll() has nothing queued, or will be
   woken.  Without it a functor (an answer, the end of a connection) waits for
   the timeout of poll().  (EventLoop::queueInLoop) *)
NoLostWakeup ==
    \A l \in Loops : phase[l] = "poll" /\ pendingFunctors[l] # <<>> => wakeupFd[l]

=============================================================================
