----------------------------- MODULE ByteQueue ------------------------------
(***************************************************************************)
(* What a Buffer promises: a sequence of bytes that is read from the front *)
(* and grows at the back, and whose end or beginning can be amended.       *)
(***************************************************************************)
EXTENDS Naturals, Sequences

CONSTANT Blocks        \* what is added at once

VARIABLE queue

Empty == queue = <<>>

Grow == \E data \in Blocks : queue' = queue \o data
Lead == \E data \in Blocks : queue' = data \o queue
Consume == \E n \in 0..Len(queue) : queue' = SubSeq(queue, n + 1, Len(queue))
TakeBack == \E n \in 0..Len(queue) : queue' = SubSeq(queue, 1, Len(queue) - n)

Change == Grow \/ Lead \/ Consume \/ TakeBack
QueueSpec == Empty /\ [][Change]_queue
=============================================================================
