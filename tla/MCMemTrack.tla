----------------------------- MODULE MCMemTrack -----------------------------
(* The tracker with few threads and addresses, for TLC. *)
EXTENDS MemTrack, TLC

Symmetry == Permutations(Threads) \cup Permutations(Addrs) \cup Permutations(Infos)
=============================================================================
