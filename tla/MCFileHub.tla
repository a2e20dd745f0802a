----------------------------- MODULE MCFileHub -----------------------------
(* FileHub for TLC: seeds and symmetry of the small instances. *)
EXTENDS FileHub, TLC

\* Every user has every file at the start.
EveryoneOwns == Key

\* Threads and FastDFS ids are interchangeable: no action tells them apart.
Interchangeable == Permutations(Threads) \cup Permutations(FileIds)
=============================================================================
