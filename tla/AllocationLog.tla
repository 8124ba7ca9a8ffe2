----------------------------- MODULE AllocationLog ----------------------------
(***************************************************************************)
(* What a log of allocations promises its reader, however it is written:   *)
(* the records of a block come in the order of their times, a block that   *)
(* the log has as live is not allocated again, and what is logged next of  *)
(* it is that it was given back by the function for its allocation.  A     *)
(* block the log has not as live may be given back too: it was obtained    *)
(* before recording began.  MemDetector is shown to implement this module. *)
(***************************************************************************)
EXTENDS Naturals, AllocAction

VARIABLE log        \* the records made so far: [op, tid, ptr, time]

Of(p) == {r \in log : r.ptr = p}
LastOf(p) == CHOOSE r \in Of(p) : \A q \in Of(p) : q.time <= r.time
Live(p) == Of(p) # {} /\ kAllocOpIsAllocation[LastOf(p).op]

Allocated(r) == kAllocOpIsAllocation[r.op] /\ ~Live(r.ptr)

GivenBack(r) ==
    /\ ~kAllocOpIsAllocation[r.op]
    /\ Live(r.ptr) => r.op = kAllocOpFreeFunction[LastOf(r.ptr).op]

Init == log = {}

Next ==
    \E r \in log' \ log :
        /\ \A q \in Of(r.ptr) : q.time < r.time
        /\ Allocated(r) \/ GivenBack(r)
        /\ log' = log \cup {r}

Spec == Init /\ [][Next]_log
===============================================================================
