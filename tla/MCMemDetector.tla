----------------------------- MODULE MCMemDetector ----------------------------
(* Instances of MemDetector for TLC, with two slots: the odd threads share *)
(* one and the even threads the other.  MAIN is 1.                         *)
EXTENDS MemDetector, TLC

SharingThreads == {1, 3}
AllThreads == {1, 2, 3}

None == {}
OneDetached == {3}

(* Blocks are alike.                                                       *)
Symmetric == Permutations(Addresses)
===============================================================================
