---------------------------- MODULE MCSysAllocator ----------------------------
(* Instances of SysAllocator for TLC: a pool with blocks of 2 and 4 bytes. *)
EXTENDS SysAllocator, TLC

(* No larger than the alignment, for both sizes of block, and larger.      *)
PoolRequests == {[bytes |-> 1, alignment |-> 2], [bytes |-> 3, alignment |-> 2],
                 [bytes |-> 3, alignment |-> 4]}

Symmetric == Permutations(Threads) \cup Permutations(Addresses)
===============================================================================
