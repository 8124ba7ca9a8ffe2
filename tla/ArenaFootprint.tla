---------------------------- MODULE ArenaFootprint ----------------------------
(***************************************************************************)
(* How much memory the fastbins of module Arena keep.  Nothing bounds a    *)
(* list and nothing empties one, and a thread that gives back more than it *)
(* takes collects the chunks of the others.  This module counts, in a      *)
(* history variable, what passes between a thread and the clients in each  *)
(* class, and compares it with the chunks its arena asked the system for.  *)
(***************************************************************************)
EXTENDS Arena

VARIABLE traffic    \* traffic[t][i], since t's arena was constructed: the net
                    \* number of chunks of class i that t took, the highest
                    \* it ever was, and how many of them came from the system

footprintVars == <<vars, traffic>>

NoTraffic == [i \in Bins |-> [net |-> 0, peak |-> 0, fresh |-> 0]]

FootprintInit == Init /\ traffic = [t \in Threads |-> NoTraffic]

Larger(m, n) == IF m >= n THEN m ELSE n

(* Thread t takes a chunk of class i, from the system or from its list.    *)
Took(t, i, fromSystem) ==
    traffic' = [traffic EXCEPT ![t][i] =
        [net   |-> @.net + 1,
         peak  |-> Larger(@.peak, @.net + 1),
         fresh |-> @.fresh + fromSystem]]

Gave(t, i) == traffic' = [traffic EXCEPT ![t][i].net = @ - 1]

(* The steps of Arena, with their traffic.                                 *)
StartOrExit(t) ==
    /\ ThreadStart(t) \/ ThreadExit(t)
    /\ traffic' = [traffic EXCEPT ![t] = NoTraffic]

TakeCached(t, r) == AllocCached(t, r) /\ Took(t, size_to_index(Bytes(r)), 0)

TakeFresh(t, r, c) ==
    /\ AllocFresh(t, r, c)
    /\ IF AllocIsFast(Bytes(r)) THEN Took(t, size_to_index(Bytes(r)), 1)
       ELSE UNCHANGED traffic

Give(t, c) == DeallocCached(t, c) /\ Gave(t, size_to_index(Bytes(held[c])))

Uncounted(t) ==
    /\ \/ \E r \in Requests : AllocRefused(t, r) \/ AllocFailed(t, r) \/ WildIndex(t, r)
       \/ \E c \in Chunks : DeallocReleased(t, c)
    /\ UNCHANGED traffic

FootprintStep(t) ==
    \/ StartOrExit(t)
    \/ \E r \in Requests : TakeCached(t, r) \/ \E c \in Chunks : TakeFresh(t, r, c)
    \/ \E c \in Chunks : Give(t, c)
    \/ Uncounted(t)

(* After a fault nothing is counted any more.                              *)
FootprintNext == fault = "none" /\ \E t \in Threads : FootprintStep(t)

FootprintSpec == FootprintInit /\ [][FootprintNext]_footprintVars

-------------------------------------------------------------------------------
(* Whatever chunks come in from other threads or leave with them, an arena *)
(* has asked the system for as many chunks of a class as its thread had,   *)
(* at its worst moment, taken beyond those it gave back, and for no more:  *)
(* a chunk on the list is never passed over, and none drops off the list.  *)
FreshIsPeak ==
    fault = "none" =>
        \A t \in Threads : \A i \in Bins : traffic[t][i].fresh = traffic[t][i].peak

(* All the rest is on the list: this is how the chunks of producers pile   *)
(* up in the arena of a consumer, whose net only falls.                    *)
ListKeepsTheRest ==
    fault = "none" =>
        \A t \in Threads : \A i \in Bins :
            Cardinality(FreeList(t, i)) = traffic[t][i].fresh - traffic[t][i].net
===============================================================================
