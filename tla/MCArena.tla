------------------------------- MODULE MCArena --------------------------------
(* Instances of Arena for TLC.  Sizes are scaled down: words of 2 bytes    *)
(* for 16, two fastbins, and the thresholds right above them.              *)
EXTENDS ArenaInvariant, TLC

(* The boundaries: nothing at all, the sizes around each threshold, one    *)
(* byte over the limit, and 9 objects of 4 bytes, more than a size_t holds *)
(* (9 * 4 = SIZE_RANGE + 4): the call arrives as one for 4 bytes.          *)
EdgeRequests == [n : {0, 1, 3, 4, 5, 7, 8, 10, 11}, elem : {1}] \cup [n : {9}, elem : {4}]

Symmetry == Permutations(Threads) \cup Permutations(Chunks)
===============================================================================
