---------------------------- MODULE MCHttpServer ----------------------------
(* Values of the constants of HttpServer for TLC. *)
EXTENDS HttpServer, TLC

CONSTANTS io, c1, c2

OneIoLoop == <<io>>
WorkerSymmetry == Permutations(Workers)
OneSegment == [c \in Channels |-> 1]
SegmentsOfC == c1 :> 1 @@ c2 :> 2
=============================================================================
