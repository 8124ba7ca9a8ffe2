---------------------------- MODULE ArenaInvariant ----------------------------
(***************************************************************************)
(* The inductive invariant of module Arena.  The properties of that module *)
(* speak of whole lists; these conjuncts speak of single pointers, so that *)
(* one step of the code can be compared with the next: pointers lead from  *)
(* lists to idle chunks of the list's class only, and no two of them lead  *)
(* to the same chunk.                                                      *)
(***************************************************************************)
EXTENDS Arena

(* A chunk between two clients.                                            *)
Idle(c) == memory[c] # Unmapped /\ held[c] = NoRequest

(* The memory of a chunk made for a list, and of one made for a size.      *)
BinChunk(i) == [from |-> "malloc", length |-> ALIGNMENT * (i + 1) + SizeofChunk]
MadeFor(size) ==
    IF DeallocIsFast(size) THEN BinChunk(size_to_index(size))
    ELSE [from |-> IF DeallocIsHuge(size) THEN "mmap" ELSE "malloc",
          length |-> total_size(size)]

(* The size word of a chunk tells which system call made it, how long.     *)
HeaderInv ==
    \A c \in Chunks : memory[c] # Unmapped =>
        /\ memory[c] = MadeFor(header[c].size)
        /\ DeallocIsFast(header[c].size) => size_to_index(header[c].size) \in Bins

(* A held chunk was made for the class, or for the exact size, of the      *)
(* client's own request.                                                   *)
HeldInv ==
    \A c \in Chunks : held[c] # NoRequest =>
        /\ memory[c] # Unmapped
        /\ Bytes(held[c]) <= MAX_ALLOC_SIZE
        /\ IF DeallocIsFast(Bytes(held[c]))
           THEN /\ size_to_index(Bytes(held[c])) \in Bins
                /\ memory[c] = BinChunk(size_to_index(Bytes(held[c])))
                /\ DeallocIsFast(header[c].size)
           ELSE header[c].size = Bytes(held[c])

(* The head of a list is an idle chunk of the list's class.                *)
HeadInv ==
    \A t \in Threads : \A i \in Bins : fastbins[t][i] # NULL =>
        Idle(fastbins[t][i]) /\ memory[fastbins[t][i]] = BinChunk(i)

(* The chunk after an idle chunk is idle too, and as long.                 *)
LinkInv ==
    \A c \in Chunks : Idle(c) =>
        /\ DeallocIsFast(header[c].size)
        /\ header[c].next # NULL =>
              Idle(header[c].next) /\ memory[header[c].next] = memory[c]

(* At most one pointer, a head or the next of an idle chunk, leads to a    *)
(* chunk.                                                                  *)
SingleReferenceInv ==
    /\ \A t, u \in Threads : \A i, j \in Bins :
          fastbins[t][i] # NULL /\ fastbins[t][i] = fastbins[u][j] => t = u /\ i = j
    /\ \A c, d \in Chunks :
          /\ Idle(c) /\ Idle(d)
          /\ header[c].next # NULL /\ header[c].next = header[d].next
          => c = d
    /\ \A t \in Threads : \A i \in Bins : \A c \in Chunks :
          fastbins[t][i] # NULL /\ Idle(c) => header[c].next # fastbins[t][i]

(* A thread without an arena leads to no chunk.                            *)
StoppedInv == \A t \in Threads \ running : fastbins[t] = EmptyBins

(* All of it: every call of allocate and deallocate, by any thread on any  *)
(* chunk that is its own to give back, keeps the pointers in this order.   *)
IInv ==
    /\ HeaderInv /\ HeldInv
    /\ HeadInv /\ LinkInv /\ SingleReferenceInv
    /\ StoppedInv /\ NoBadRelease
===============================================================================
