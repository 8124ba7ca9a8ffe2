--------------------------------- MODULE MCLog --------------------------------
(* Instance of Log for TLC.  Threads are alike, and so are files.          *)
EXTENDS Log, TLC

Symmetric == Permutations(Threads) \cup Permutations(Files)
===============================================================================
