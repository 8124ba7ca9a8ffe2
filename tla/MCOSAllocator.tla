----------------------------- MODULE MCOSAllocator ----------------------------
(* Instances of OSAllocator for TLC.  Sizes are scaled down: pointers of   *)
(* one byte, headers of two, pages of eight, huge pages of sixteen.        *)
EXTENDS OSAllocator, Bitwise

(* AlignUp does what the code writes, (x + a - 1) & ~(a - 1), for every    *)
(* size_t x, wrapping around included, and every power of two a.           *)
ASSUME AlignUpIsTheMask ==
    \A a \in {1, 2, 4, 8, 16, 32, 64, 128} : \A x \in 0 .. SIZE_RANGE - 1 :
        ((x + a - 1) % SIZE_RANGE) & (SIZE_RANGE - a) = AlignUp(x, a) % SIZE_RANGE

Calls(sizes, alignments) == [size : sizes, alignment : alignments]

(* Nothing, the largest size below a page, a page, a page and a byte;      *)
(* alignments up to that of the header, which std::max_align_t has.        *)
DefaultRequests == Calls({0, 7, 8, 9}, {1, 2})

(* Alignments up to a page; 15 bytes and a header just miss two pages.     *)
AlignedRequests == Calls({3, 9, 15}, {1, 2, 4, 8})

(* Sizes on both sides of the threshold for huge pages.                    *)
BigPageRequests == Calls({8, 16}, {1, 8})

None == {}
Release == {"Release"}
Debug == {"Debug"}
Both == {"Debug", "Release"}
===============================================================================
