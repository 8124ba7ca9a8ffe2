--------------------------- MODULE MCArenaFootprint ---------------------------
(* Instance of ArenaFootprint for TLC, with the sizes of MCArena.          *)
EXTENDS ArenaFootprint, TLC

(* new T[n] with one-byte T: both sizes of each list, a size passed on to  *)
(* malloc, the smallest and the largest size passed on to mmap.            *)
OrdinaryRequests == [n : {1, 2, 3, 4, 5, 8, 10}, elem : {1}]

Symmetry == Permutations(Threads) \cup Permutations(Chunks)
===============================================================================
