------------------------------ MODULE Alignment -------------------------------
(***************************************************************************)
(* Rounding up to an alignment, the arithmetic every allocator of the      *)
(* repository uses: align_up of include/SAllocator.hpp, and the same       *)
(* expression written out in OS_Alloc (src/SysApi.cpp).                    *)
(***************************************************************************)
EXTENDS Integers

(* (x + a - 1) & ~(a - 1) for a power of two a: the mask clears the bits   *)
(* of the remainder.                                                       *)
AlignUp(x, a) == (x + a - 1) - ((x + a - 1) % a)
===============================================================================
