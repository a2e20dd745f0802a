----------------------------- MODULE TimedLock -----------------------------
(***************************************************************************)
(* What the FileInfoLock promises the handlers: at most one thread is      *)
(* inside, a thread that tries gets in only when nobody is, and it gives   *)
(* up only while somebody is. FileInfoLock implements it, and the handlers *)
(* of FileHub use the lock this way.                                       *)
(***************************************************************************)
CONSTANT Threads
VARIABLE phase    \* of every thread: "out", "trying" or "in"

Phases == [Threads -> {"out", "trying", "in"}]

Init == phase = [t \in Threads |-> "out"]

Try(t) == /\ phase[t] = "out"
          /\ phase' = [phase EXCEPT ![t] = "trying"]

Enter(t) == /\ phase[t] = "trying"
            /\ \A s \in Threads : phase[s] # "in"
            /\ phase' = [phase EXCEPT ![t] = "in"]

GiveUp(t) == /\ phase[t] = "trying"
             /\ \E s \in Threads : phase[s] = "in"
             /\ phase' = [phase EXCEPT ![t] = "out"]

Leave(t) == /\ phase[t] = "in"
            /\ phase' = [phase EXCEPT ![t] = "out"]

\* The process dies, and the lock with it.
Restart == phase' = [t \in Threads |-> "out"]

Next == \/ \E t \in Threads : Try(t) \/ Enter(t) \/ GiveUp(t) \/ Leave(t)
        \/ Restart

Spec == Init /\ [][Next]_phase
=============================================================================
