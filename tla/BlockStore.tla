------------------------------ MODULE BlockStore ------------------------------
(***************************************************************************)
(* What a memory allocator promises its clients, with nothing said about   *)
(* how blocks are obtained, cached or given back to the system: a granted  *)
(* block has at least the room that was asked for, it stays as it is for   *)
(* as long as the client keeps it, and it is granted to nobody else.       *)
(* Module Arena is shown to implement this, and SysAllocator for its pool. *)
(***************************************************************************)
EXTENDS Naturals

CONSTANTS Blocks,   \* the addresses a block can have
          Limit,    \* the largest request that may be granted, in bytes
          Nothing   \* the grant of a block no client keeps

VARIABLE grant      \* grant[b]: what was asked for and given, or Nothing

(* What a client may be given: room for everything it asked for.           *)
Grants == {g \in [asked : Nat, room : Nat] : g.asked <= g.room /\ g.asked <= Limit}

Init == grant = [b \in Blocks |-> Nothing]

(* A request is served with b, which nobody keeps.                         *)
Grant(b) ==
    /\ grant[b] = Nothing
    /\ grant'[b] \in Grants
    /\ grant' = [grant EXCEPT ![b] = grant'[b]]

(* The client that keeps b gives it back.                                  *)
Return(b) ==
    /\ grant[b] # Nothing
    /\ grant' = [grant EXCEPT ![b] = Nothing]

Next == \E b \in Blocks : Grant(b) \/ Return(b)

Spec == Init /\ [][Next]_grant
===============================================================================
