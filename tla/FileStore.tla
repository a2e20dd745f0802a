----------------------------- MODULE FileStore -----------------------------
(***************************************************************************)
(* What the ownership handlers of FileHub promise their users, with no     *)
(* tables, counts, locks or threads: files are stored once however many    *)
(* users have them, a user can only be given a file that is stored, and a  *)
(* file is discarded only when nobody has it any more.                     *)
(***************************************************************************)
CONSTANTS Keys,       \* (user, digest, name)
          Digests,
          Digest(_),  \* the digest of a key
          Seed        \* the keys owned at the start

VARIABLES owned,      \* the keys users have in their lists
          available   \* the digests whose data can be downloaded

Init == /\ owned = Seed
        /\ available = {Digest(k) : k \in Seed}

Store(m) == /\ m \notin available
            /\ available' = available \cup {m}
            /\ UNCHANGED owned

Own(k) == /\ Digest(k) \in available
          /\ owned' = owned \cup {k}
          /\ UNCHANGED available

Disown(k) == /\ owned' = owned \ {k}
             /\ UNCHANGED available

Discard(m) == /\ \A k \in owned : Digest(k) # m
              /\ available' = available \ {m}
              /\ UNCHANGED owned

Next == \/ \E m \in Digests : Store(m) \/ Discard(m)
        \/ \E k \in Keys : Own(k) \/ Disown(k)

Spec == Init /\ [][Next]_<<owned, available>>
=============================================================================
