--------------------------- MODULE ArenaListProofs ----------------------------
(***************************************************************************)
(* Proofs about the free lists of module Arena as sets: how each action    *)
(* changes the chunks on them.  From this follow that only the exit of a   *)
(* thread loses chunks, and what ArenaFootprint counts.                    *)
(***************************************************************************)
EXTENDS ArenaProofs, ArenaFootprint

(* A list is the same while the next of each of its chunks is.             *)
LEMMA ReachableSame ==
    ASSUME TypeOK, TypeOK', NEW h \in Chunks \cup {NULL},
           \A c \in ReachableFrom(h) : header'[c].next = header[c].next
    PROVE  ReachableFrom(h)' = ReachableFrom(h)
<1> DEFINE Old == ReachableFrom(h)
           New == ReachableFrom(h)'
<1>1. CASE h = NULL
  BY <1>1 DEF ReachableFrom
<1>2. CASE h # NULL
  <2>1. Old \subseteq Chunks /\ New \subseteq Chunks /\ h \in Old /\ h \in New
    BY <1>2 DEF ReachableFrom
  <2>2. /\ \A c \in Old : header[c].next \in Old \cup {NULL}
        /\ \A S \in SUBSET Chunks :
              h \in S /\ (\A c \in S : header[c].next \in S \cup {NULL}) => Old \subseteq S
    <3>1. \A c \in Chunks : header[c].next \in Chunks \cup {NULL}
      BY DEF TypeOK
    <3> QED
      BY <1>2, <3>1 DEF ReachableFrom, ClosedUnderNext
  <2>3. /\ \A c \in New : header'[c].next \in New \cup {NULL}
        /\ \A S \in SUBSET Chunks :
              h \in S /\ (\A c \in S : header'[c].next \in S \cup {NULL}) => New \subseteq S
    <3>1. \A c \in Chunks : header'[c].next \in Chunks \cup {NULL}
      BY DEF TypeOK
    <3> QED
      BY <1>2, <3>1 DEF ReachableFrom, ClosedUnderNext
  <2>4. \A c \in Old : header'[c].next = header[c].next
    OBVIOUS
  <2> HIDE DEF Old, New
  <2>5. New \subseteq Old
    BY <2>1, <2>2, <2>3, <2>4
  <2>6. Old \subseteq New
    BY <2>1, <2>2, <2>3, <2>4, <2>5
  <2> QED
    BY <2>5, <2>6 DEF Old, New
<1> QED
  BY <1>1, <1>2

(* The list that begins at the second chunk is the rest of the list.       *)
LEMMA ReachableTail ==
    ASSUME TypeOK, NEW h \in Chunks, \A c \in ReachableFrom(h) : header[c].next # h
    PROVE  ReachableFrom(header[h].next) = ReachableFrom(h) \ {h}
<1> DEFINE L == ReachableFrom(h)
           n == header[h].next
           R == ReachableFrom(n)
<1>1. \A c \in Chunks : header[c].next \in Chunks \cup {NULL}
  BY DEF TypeOK
<1>2. /\ L \subseteq Chunks /\ h \in L /\ ClosedUnderNext(L)
      /\ \A S \in SUBSET Chunks : h \in S /\ ClosedUnderNext(S) => L \subseteq S
  BY <1>1, NamesAssumption DEF ReachableFrom, ClosedUnderNext
<1>3. /\ R \subseteq Chunks /\ (n # NULL => n \in R) /\ (n = NULL => R = {})
      /\ ClosedUnderNext(R)
      /\ \A S \in SUBSET Chunks : n \in S /\ ClosedUnderNext(S) => R \subseteq S
  BY <1>1 DEF ReachableFrom, ClosedUnderNext
<1>4. \A c \in L : header[c].next # h
  OBVIOUS
<1>5. n \in L \cup {NULL} /\ n # h
  BY <1>2, <1>4 DEF ClosedUnderNext
<1> HIDE DEF L, R
<1>6. R \subseteq L \ {h}
  BY <1>2, <1>3, <1>4, <1>5 DEF ClosedUnderNext
<1>7. L \subseteq R \cup {h}
  <2>1. ClosedUnderNext(R \cup {h})
    BY <1>3 DEF ClosedUnderNext
  <2> QED
    BY <1>2, <1>3, <2>1
<1> QED
  BY <1>6, <1>7 DEF L, R

-------------------------------------------------------------------------------
(* A list whose head and chunks are left alone is the same.                *)
LEMMA FreeListSame ==
    ASSUME TypeOK, TypeOK', IInv, NEW t \in Threads, NEW i \in Bins,
           fastbins'[t][i] = fastbins[t][i],
           \A c \in Chunks : Idle(c) => header'[c].next = header[c].next
    PROVE  FreeList(t, i)' = FreeList(t, i)
<1>1. PICK h \in Chunks \cup {NULL} : h = fastbins[t][i]
  BY DEF TypeOK
<1>2. FreeList(t, i) = ReachableFrom(h)
  BY <1>1 DEF FreeList
<1>3. FreeList(t, i)' = ReachableFrom(h)'
  BY <1>1 DEF FreeList, ReachableFrom, ClosedUnderNext
<1>4. \A c \in ReachableFrom(h) : header'[c].next = header[c].next
  BY <1>2, ListedChunks
<1> QED
  BY <1>2, <1>3, <1>4, ReachableSame

(* Steps that leave heads and idle chunks alone keep every list.           *)
LEMMA CachedSame ==
    ASSUME TypeOK, TypeOK', IInv, UNCHANGED fastbins,
           \A c \in Chunks : Idle(c) => header'[c].next = header[c].next,
           \A c \in Chunks : Idle(c)' <=> Idle(c)
    PROVE  Leaked' = Leaked
<1>1. \A t \in Threads : \A i \in Bins : FreeList(t, i)' = FreeList(t, i)
  BY FreeListSame
<1>2. Cached' = Cached
  BY <1>1 DEF Cached
<1> QED
  BY <1>2 DEF Leaked, Idle

(* allocate: the head leaves its list, and nothing else does.              *)
LEMMA ListPopped ==
    ASSUME TypeOK, TypeOK', IInv, NEW t \in Threads, NEW r \in Requests, AllocCached(t, r),
           NEW i, i = size_to_index(Bytes(r))
    PROVE  /\ i \in Bins
           /\ \E head \in FreeList(t, i) :
                 /\ FreeList(t, i)' = FreeList(t, i) \ {head}
                 /\ held' = [held EXCEPT ![head] = r] /\ UNCHANGED memory
           /\ \A u \in Threads : \A j \in Bins :
                 (u # t \/ j # i) => FreeList(u, j)' = FreeList(u, j)
<1>1. PICK head \in Chunks : head = fastbins[t][i]
  BY DEF AllocCached, TypeOK
<1>2. PICK next \in Chunks \cup {NULL} : next = header[head].next
  BY DEF TypeOK
<1>3. /\ i \in Bins
      /\ fastbins' = [fastbins EXCEPT ![t][i] = next]
      /\ held' = [held EXCEPT ![head] = r]
      /\ UNCHANGED <<header, memory>>
  BY <1>1, <1>2 DEF AllocCached, Pop
<1>4. fastbins'[t][i] = next
  BY <1>3 DEF TypeOK
<1>5. FreeList(t, i) = ReachableFrom(head) /\ head \in FreeList(t, i)
  BY <1>1, <1>3, ListClosed, NamesAssumption DEF FreeList
<1>6. \A c \in ReachableFrom(head) : header[c].next # head
  BY <1>1, <1>3, <1>5, ListedChunks, NamesAssumption DEF IInv, SingleReferenceInv
<1>7. FreeList(t, i)' = FreeList(t, i) \ {head}
  <2>1. FreeList(t, i)' = ReachableFrom(next)
    BY <1>3, <1>4 DEF FreeList, ReachableFrom, ClosedUnderNext
  <2> QED
    BY <1>2, <1>5, <1>6, <2>1, ReachableTail
<1>8. \A u \in Threads : \A j \in Bins :
         (u # t \/ j # i) => FreeList(u, j)' = FreeList(u, j)
  <2>1. \A u \in Threads : \A j \in Bins :
           (u # t \/ j # i) => fastbins'[u][j] = fastbins[u][j]
    BY <1>3 DEF TypeOK
  <2> QED
    BY <1>3, <2>1, FreeListSame
<1> QED
  BY <1>3, <1>5, <1>7, <1>8

(* A block taken off a list is held: it leaves the cache for a client.     *)
LEMMA LeakAllocCached ==
    ASSUME TypeOK, TypeOK', IInv, NEW t \in Threads, NEW r \in Requests, AllocCached(t, r)
    PROVE  Leaked' = Leaked
<1>1. PICK i \in Bins : i = size_to_index(Bytes(r))
  BY ListPopped
<1>2. PICK head \in FreeList(t, i) :
         /\ FreeList(t, i)' = FreeList(t, i) \ {head}
         /\ held' = [held EXCEPT ![head] = r] /\ UNCHANGED memory
  BY <1>1, ListPopped
<1>3. \A u \in Threads : \A j \in Bins :
         (u # t \/ j # i) => FreeList(u, j)' = FreeList(u, j)
  BY <1>1, ListPopped
<1>4. \A c \in Chunks : Idle(c)' <=> Idle(c) /\ c # head
  BY <1>2, NamesAssumption DEF TypeOK, Idle
<1>5. Cached \ {head} \subseteq Cached' /\ Cached' \subseteq Cached /\ head \in Cached
  BY <1>2, <1>3 DEF Cached
<1>6. Leaked' = {c \in Chunks : Idle(c)'} \ Cached'
  BY DEF Leaked, Idle
<1>7. Leaked = {c \in Chunks : Idle(c)} \ Cached
  BY DEF Leaked, Idle
<1> QED
  BY <1>4, <1>5, <1>6, <1>7

(* deallocate: the chunk joins its list, which stays behind it.            *)
LEMMA ListPushed ==
    ASSUME TypeOK, TypeOK', IInv, NEW t \in Threads, NEW freed \in Chunks,
           DeallocCached(t, freed), NEW i, i = size_to_index(Bytes(held[freed]))
    PROVE  /\ i \in Bins
           /\ freed \notin FreeList(t, i)
           /\ FreeList(t, i)' = FreeList(t, i) \cup {freed}
           /\ \A u \in Threads : \A j \in Bins :
                 (u # t \/ j # i) => FreeList(u, j)' = FreeList(u, j)
<1>0. i \in Bins
  BY DEF DeallocCached
<1>1. PICK head \in Chunks \cup {NULL} : head = fastbins[t][i]
  BY <1>0 DEF TypeOK
<1>2. /\ held[freed] # NoRequest
      /\ header' = [header EXCEPT ![freed].next = head]
      /\ fastbins' = [fastbins EXCEPT ![t][i] = freed]
      /\ held' = [held EXCEPT ![freed] = NoRequest]
      /\ UNCHANGED memory
  BY <1>0, <1>1 DEF DeallocCached, Push
<1>4. /\ header'[freed].next = head
      /\ \A c \in Chunks : Idle(c) => header'[c].next = header[c].next
  BY <1>2 DEF TypeOK, Idle
<1>5. FreeList(t, i) = ReachableFrom(head)
  BY <1>1 DEF FreeList
<1>6. FreeList(t, i)' = ReachableFrom(freed)'
  <2>1. fastbins'[t][i] = freed
    BY <1>2 DEF TypeOK
  <2> QED
    BY <2>1 DEF FreeList, ReachableFrom, ClosedUnderNext
<1>7. FreeList(t, i)' = FreeList(t, i) \cup {freed}
  <2> DEFINE Old == FreeList(t, i)
             New == FreeList(t, i)'
  <2>1. /\ Old \subseteq Chunks /\ \A c \in Old : Idle(c)
        /\ \A c \in Old : header[c].next \in Old \cup {NULL}
        /\ head # NULL => head \in Old
    BY <1>0, <1>1, <1>2, ListedChunks, ListClosed DEF ClosedUnderNext
  <2>2. \A S \in SUBSET Chunks :
           head \in S /\ (\A c \in S : header[c].next \in S \cup {NULL}) => Old \subseteq S
    BY <1>5 DEF ReachableFrom, ClosedUnderNext
  <2>3. \A S \in SUBSET Chunks :
           freed \in S /\ (\A c \in S : header'[c].next \in S \cup {NULL}) => New \subseteq S
    BY <1>6 DEF ReachableFrom, ClosedUnderNext
  <2>4. /\ New \subseteq Chunks /\ freed \in New
        /\ \A c \in New : header'[c].next \in New \cup {NULL}
    <3>1. \A c \in Chunks : header'[c].next \in Chunks \cup {NULL}
      BY DEF TypeOK
    <3> QED
      BY <1>6, <3>1, NamesAssumption DEF ReachableFrom, ClosedUnderNext
  <2>5. head = NULL => Old = {}
    BY <1>5 DEF ReachableFrom
  <2> HIDE DEF Old, New
  <2>6. New \subseteq Old \cup {freed}
    <3>1. \A c \in Old \cup {freed} : header'[c].next \in (Old \cup {freed}) \cup {NULL}
      BY <1>4, <2>1
    <3>2. Old \cup {freed} \in SUBSET Chunks
      BY <2>1
    <3> QED
      BY <2>3, <3>1, <3>2
  <2>7. Old \subseteq New
    <3>1. \A c \in Old \cap New : header[c].next \in (Old \cap New) \cup {NULL}
      BY <1>4, <2>1, <2>4
    <3>2. head # NULL => head \in Old \cap New
      BY <1>4, <2>1, <2>4
    <3> QED
      BY <2>1, <2>2, <2>5, <3>1, <3>2
  <2> QED
    BY <2>4, <2>6, <2>7 DEF Old, New
<1>8. \A u \in Threads : \A j \in Bins :
         (u # t \/ j # i) => FreeList(u, j)' = FreeList(u, j)
  <2>1. \A u \in Threads : \A j \in Bins :
           (u # t \/ j # i) => fastbins'[u][j] = fastbins[u][j]
    BY <1>2 DEF TypeOK
  <2> QED
    BY <1>4, <2>1, FreeListSame
<1>9. freed \notin FreeList(t, i)
  BY <1>0, <1>2, ListedChunks DEF Idle
<1> QED
  BY <1>0, <1>7, <1>8, <1>9

(* A block put on a list is on no other, and none drops off.               *)
LEMMA LeakDeallocCached ==
    ASSUME TypeOK, TypeOK', IInv, NEW t \in Threads, NEW freed \in Chunks,
           DeallocCached(t, freed)
    PROVE  Leaked' = Leaked
<1>1. PICK i \in Bins : i = size_to_index(Bytes(held[freed]))
  BY DEF DeallocCached
<1>2. /\ held[freed] # NoRequest
      /\ held' = [held EXCEPT ![freed] = NoRequest]
      /\ UNCHANGED memory
  BY DEF DeallocCached
<1>3. \A c \in Chunks : Idle(c)' <=> Idle(c) \/ c = freed
  BY <1>2 DEF TypeOK, IInv, HeldInv, Idle
<1>4. /\ FreeList(t, i)' = FreeList(t, i) \cup {freed}
      /\ \A u \in Threads : \A j \in Bins :
            (u # t \/ j # i) => FreeList(u, j)' = FreeList(u, j)
  BY <1>1, ListPushed
<1>5. /\ freed \in Cached' /\ Cached \subseteq Cached'
      /\ Cached' \subseteq Cached \cup {freed}
  BY <1>4 DEF Cached
<1>6. ~Idle(freed)
  BY <1>2 DEF Idle
<1>7. Leaked' = {c \in Chunks : Idle(c)'} \ Cached'
  BY DEF Leaked, Idle
<1>8. Leaked = {c \in Chunks : Idle(c)} \ Cached
  BY DEF Leaked, Idle
<1> QED
  BY <1>3, <1>5, <1>6, <1>7, <1>8

(* Only the exit of a thread loses chunks, and none comes back.            *)
THEOREM OnlyExitsLeak == Spec => LeakOnlyAtExit
<1>1. ASSUME TypeOK, TypeOK', IInv, IInv', [Next]_vars, running \subseteq running'
      PROVE  Leaked' = Leaked
  <2>1. CASE UNCHANGED <<fastbins, header, memory, held>>
    BY <1>1, <2>1, CachedSame DEF Idle
  <2>2. ASSUME NEW t \in Threads, ThreadStart(t) PROVE Leaked' = Leaked
    <3>1. fastbins' = fastbins
      BY <1>1, <2>2 DEF ThreadStart, TypeOK, IInv, StoppedInv
    <3> QED
      BY <2>1, <2>2, <3>1 DEF ThreadStart
  <2>3. ASSUME NEW t \in Threads, ThreadExit(t) PROVE FALSE
    BY <1>1, <2>3 DEF ThreadExit
  <2>4. ASSUME NEW t \in Threads, NEW r \in Requests, NEW c \in Chunks, AllocFresh(t, r, c)
        PROVE  Leaked' = Leaked
    <3>1. /\ UNCHANGED fastbins /\ ~Idle(c)
          /\ \A d \in Chunks : d # c =>
                header'[d] = header[d] /\ memory'[d] = memory[d] /\ held'[d] = held[d]
      BY <1>1, <2>4 DEF AllocFresh, SystemAlloc, TypeOK, Idle
    <3>2. ~Idle(c)'
      BY <1>1, <2>4, NamesAssumption DEF AllocFresh, TypeOK, Idle
    <3> QED
      BY <1>1, <3>1, <3>2, CachedSame DEF Idle
  <2>5. ASSUME NEW t \in Threads, NEW c \in Chunks, DeallocReleased(t, c)
        PROVE  Leaked' = Leaked
    <3>1. PICK expected : SystemFree(c, expected)
      BY <2>5 DEF DeallocReleased
    <3>2. /\ UNCHANGED fastbins /\ ~Idle(c)
          /\ \A d \in Chunks : d # c =>
                header'[d] = header[d] /\ memory'[d] = memory[d] /\ held'[d] = held[d]
      BY <1>1, <2>5, <3>1 DEF DeallocReleased, SystemFree, TypeOK, Idle
    <3>3. ~Idle(c)'
      BY <1>1, <3>1 DEF SystemFree, TypeOK, IInv, NoBadRelease, Idle
    <3> QED
      BY <1>1, <3>2, <3>3, CachedSame DEF Idle
  <2> QED
    BY <1>1, <2>1, <2>2, <2>3, <2>4, <2>5, LeakAllocCached, LeakDeallocCached
    DEF Next, Step, Ended, vars, AllocRefused, AllocFailed, WildIndex
<1>2. Spec => [][running \subseteq running' => Leaked' = Leaked]_vars
  BY <1>1, Invariance, PTL DEF Spec
<1> QED
  BY <1>2, PTL DEF LeakOnlyAtExit

-------------------------------------------------------------------------------
(* The traffic of ArenaFootprint.                                          *)

(* The numbers that ArenaFootprint counts.                                 *)
TrafficOK == traffic \in [Threads -> [Bins -> [net : Int, peak : Nat, fresh : Nat]]]

(* Its inductive invariant: a list is as long as the chunks taken from the *)
(* system exceed those that the thread has taken and not given back, so    *)
(* that it is empty just when these are at their peak.                     *)
FootprintInv == TrafficOK /\ FreshIsPeak /\ ListKeepsTheRest

(* ArenaFootprint takes the steps of Arena only.                           *)
LEMMA StepsOfArena == [FootprintNext]_footprintVars => [Next]_vars
BY DEF FootprintNext, FootprintStep, StartOrExit, TakeCached, TakeFresh, Give, Uncounted,
       Next, Step, footprintVars, vars

(* Lists are finite.                                                       *)
LEMMA ListFinite ==
    ASSUME NEW t \in Threads, NEW i \in Bins
    PROVE  IsFiniteSet(FreeList(t, i)) /\ Cardinality(FreeList(t, i)) \in Nat
<1>1. FreeList(t, i) \subseteq Chunks
  BY DEF FreeList, ReachableFrom
<1> QED
  BY <1>1, NamesAssumption, FS_Subset, FS_CardinalityType

(* A step that keeps all lists and all traffic.                            *)
LEMMA FootprintSame ==
    ASSUME FootprintInv, fault = "none", UNCHANGED traffic,
           \A t \in Threads : \A i \in Bins : FreeList(t, i)' = FreeList(t, i)
    PROVE  FootprintInv'
BY DEF FootprintInv, TrafficOK, FreshIsPeak, ListKeepsTheRest

(* Outside the call of a chunk of class i by t, lists and traffic stay.    *)
LEMMA FootprintOthers ==
    ASSUME FootprintInv, fault = "none", NEW t \in Threads, NEW i \in Bins,
           NEW new \in [net : Int, peak : Nat, fresh : Nat],
           traffic' = [traffic EXCEPT ![t][i] = new],
           new.fresh = new.peak, Cardinality(FreeList(t, i)') = new.fresh - new.net,
           \A u \in Threads : \A j \in Bins :
              (u # t \/ j # i) => FreeList(u, j)' = FreeList(u, j)
    PROVE  FootprintInv'
<1>1. TrafficOK' /\ traffic'[t][i] = new
  BY DEF FootprintInv, TrafficOK
<1>2. \A u \in Threads : \A j \in Bins :
         (u # t \/ j # i) => traffic'[u][j] = traffic[u][j]
  BY DEF FootprintInv, TrafficOK
<1>3. \A u \in Threads : \A j \in Bins : traffic'[u][j].fresh = traffic'[u][j].peak
  BY <1>1, <1>2 DEF FootprintInv, FreshIsPeak
<1>4. \A u \in Threads : \A j \in Bins :
         Cardinality(FreeList(u, j)') = traffic'[u][j].fresh - traffic'[u][j].net
  BY <1>1, <1>2 DEF FootprintInv, ListKeepsTheRest
<1> QED
  BY <1>1, <1>3, <1>4 DEF FootprintInv, FreshIsPeak, ListKeepsTheRest

(* allocate takes the head of a list that is not empty: the thread had     *)
(* more chunks before.                                                     *)
LEMMA FootprintCached ==
    ASSUME TypeOK, TypeOK', IInv, FootprintInv, fault = "none",
           NEW t \in Threads, NEW r \in Requests, TakeCached(t, r)
    PROVE  FootprintInv'
<1>1. PICK i \in Bins : i = size_to_index(Bytes(r))
  BY ListPopped DEF TakeCached
<1>2. PICK head \in FreeList(t, i) : FreeList(t, i)' = FreeList(t, i) \ {head}
  BY <1>1, ListPopped DEF TakeCached
<1>3. \A u \in Threads : \A j \in Bins :
         (u # t \/ j # i) => FreeList(u, j)' = FreeList(u, j)
  BY <1>1, ListPopped DEF TakeCached
<1>4. /\ Cardinality(FreeList(t, i)) \in Nat
      /\ Cardinality(FreeList(t, i)') = Cardinality(FreeList(t, i)) - 1
      /\ Cardinality(FreeList(t, i)') \in Nat
  <2>1. IsFiniteSet(FreeList(t, i)) /\ IsFiniteSet(FreeList(t, i) \ {head})
    BY <1>1, ListFinite, FS_RemoveElement
  <2> QED BY <1>1, <1>2, <2>1, FS_RemoveElement, FS_CardinalityType
<1>5. PICK n \in Int, m \in Nat :
         traffic[t][i] = [net |-> n, peak |-> m, fresh |-> m]
  BY <1>1 DEF FootprintInv, TrafficOK, FreshIsPeak
<1>6. Cardinality(FreeList(t, i)) = m - n
  BY <1>1, <1>5 DEF FootprintInv, ListKeepsTheRest
<1>7. n + 1 \in Int /\ n + 1 <= m
  BY <1>4, <1>6
<1>8. traffic' = [traffic EXCEPT ![t][i] = [net |-> n + 1, peak |-> m, fresh |-> m]]
  <2>1. /\ traffic[t][i].net + 1 = n + 1 /\ traffic[t][i].fresh + 0 = m
        /\ Larger(traffic[t][i].peak, traffic[t][i].net + 1) = m
    BY <1>5, <1>7 DEF Larger
  <2> QED BY <1>1, <2>1 DEF TakeCached, Took
<1>9. m = m /\ Cardinality(FreeList(t, i)') = m - (n + 1)
  BY <1>4, <1>6
<1> DEFINE new == [net |-> n + 1, peak |-> m, fresh |-> m]
<1>10. /\ new \in [net : Int, peak : Nat, fresh : Nat] /\ new.fresh = new.peak
       /\ Cardinality(FreeList(t, i)') = new.fresh - new.net
       /\ traffic' = [traffic EXCEPT ![t][i] = new]
  BY <1>7, <1>8, <1>9
<1> HIDE DEF new
<1> QED
  BY <1>1, <1>3, <1>10, FootprintOthers

(* The lists stay as they are when idle chunks do.                         *)
LEMMA ListsSame ==
    ASSUME TypeOK, TypeOK', IInv, UNCHANGED fastbins,
           \A c \in Chunks : Idle(c) => header'[c] = header[c]
    PROVE  \A t \in Threads : \A i \in Bins : FreeList(t, i)' = FreeList(t, i)
BY FreeListSame

(* allocate goes to the system with an empty list: the thread has more     *)
(* chunks than ever.                                                       *)
LEMMA FootprintFresh ==
    ASSUME TypeOK, TypeOK', IInv, FootprintInv, fault = "none",
           NEW t \in Threads, NEW r \in Requests, NEW c \in Chunks, TakeFresh(t, r, c)
    PROVE  FootprintInv'
<1>1. \A u \in Threads : \A j \in Bins : FreeList(u, j)' = FreeList(u, j)
  <2>1. UNCHANGED fastbins /\ \A d \in Chunks : Idle(d) => header'[d] = header[d]
    BY DEF TakeFresh, AllocFresh, SystemAlloc, TypeOK, Idle
  <2> QED BY <2>1, ListsSame
<1>2. CASE ~AllocIsFast(Bytes(r))
  BY <1>1, <1>2, FootprintSame DEF TakeFresh
<1>3. CASE AllocIsFast(Bytes(r))
  <2>1. PICK i \in Bins : i = size_to_index(Bytes(r))
    BY <1>3 DEF TakeFresh, AllocFresh, NotCached
  <2>2. FreeList(t, i) = {}
    BY <1>3, <2>1 DEF TakeFresh, AllocFresh, NotCached, FreeList, ReachableFrom
  <2>3. Cardinality(FreeList(t, i)) = 0
    BY <2>2, FS_EmptySet
  <2>4. PICK n \in Int, m \in Nat :
           traffic[t][i] = [net |-> n, peak |-> m, fresh |-> m]
    BY <2>1 DEF FootprintInv, TrafficOK, FreshIsPeak
  <2>5. n = m
    BY <2>1, <2>3, <2>4 DEF FootprintInv, ListKeepsTheRest
  <2> DEFINE new == [net |-> m + 1, peak |-> m + 1, fresh |-> m + 1]
  <2>6. traffic' = [traffic EXCEPT ![t][i] = new]
    BY <1>3, <2>1, <2>4, <2>5 DEF TakeFresh, Took, Larger
  <2>7. Cardinality(FreeList(t, i)') = 0
    BY <1>1, <2>1, <2>3
  <2>8. /\ new \in [net : Int, peak : Nat, fresh : Nat] /\ new.fresh = new.peak
        /\ Cardinality(FreeList(t, i)') = new.fresh - new.net
    BY <2>7
  <2> HIDE DEF new
  <2> QED BY <1>1, <2>1, <2>6, <2>8, FootprintOthers
<1> QED
  BY <1>2, <1>3

(* deallocate: the list has one chunk more, the thread one less.           *)
LEMMA FootprintGive ==
    ASSUME TypeOK, TypeOK', IInv, FootprintInv, fault = "none",
           NEW t \in Threads, NEW c \in Chunks, Give(t, c)
    PROVE  FootprintInv'
<1>1. PICK i \in Bins : i = size_to_index(Bytes(held[c]))
  BY DEF Give, DeallocCached
<1>2. /\ c \notin FreeList(t, i) /\ FreeList(t, i)' = FreeList(t, i) \cup {c}
      /\ \A u \in Threads : \A j \in Bins :
            (u # t \/ j # i) => FreeList(u, j)' = FreeList(u, j)
  BY <1>1, ListPushed DEF Give
<1>3. /\ Cardinality(FreeList(t, i)) \in Nat
      /\ Cardinality(FreeList(t, i)') = Cardinality(FreeList(t, i)) + 1
  BY <1>1, <1>2, ListFinite, FS_AddElement
<1>4. PICK n \in Int, m \in Nat : traffic[t][i] = [net |-> n, peak |-> m, fresh |-> m]
  BY <1>1 DEF FootprintInv, TrafficOK, FreshIsPeak
<1>5. Cardinality(FreeList(t, i)) = m - n
  BY <1>1, <1>4 DEF FootprintInv, ListKeepsTheRest
<1> DEFINE new == [net |-> n - 1, peak |-> m, fresh |-> m]
<1>6. traffic' = [traffic EXCEPT ![t][i] = new]
  <2>1. [traffic[t][i] EXCEPT !.net = @ - 1] = new
    BY <1>4
  <2>2. traffic' = [traffic EXCEPT ![t][i] = [traffic[t][i] EXCEPT !.net = @ - 1]]
    BY <1>1, SMT DEF Give, Gave, FootprintInv, TrafficOK
  <2> QED BY <2>1, <2>2
<1>7. /\ new \in [net : Int, peak : Nat, fresh : Nat] /\ new.fresh = new.peak
      /\ Cardinality(FreeList(t, i)') = new.fresh - new.net
  BY <1>3, <1>5
<1> HIDE DEF new
<1> QED
  BY <1>1, <1>2, <1>6, <1>7, FootprintOthers

(* A thread that starts or exits has no lists and no traffic.              *)
LEMMA FootprintThread ==
    ASSUME TypeOK, TypeOK', IInv, FootprintInv, fault = "none", NEW t \in Threads, StartOrExit(t)
    PROVE  FootprintInv'
<1>1. /\ fastbins' = [fastbins EXCEPT ![t] = EmptyBins] /\ UNCHANGED <<header, memory, held>>
      /\ traffic' = [traffic EXCEPT ![t] = NoTraffic]
  BY DEF StartOrExit, ThreadStart, ThreadExit
<1>2. /\ TrafficOK' /\ traffic'[t] = NoTraffic
      /\ \A u \in Threads : u # t => traffic'[u] = traffic[u]
  BY <1>1 DEF FootprintInv, TrafficOK, NoTraffic
<1>3. \A i \in Bins : FreeList(t, i)' = {}
  BY <1>1 DEF TypeOK, EmptyBins, FreeList, ReachableFrom
<1>4. \A u \in Threads : u # t => \A i \in Bins : FreeList(u, i)' = FreeList(u, i)
  <2>1. \A u \in Threads : u # t => fastbins'[u] = fastbins[u]
    BY <1>1 DEF TypeOK
  <2> QED BY <1>1, <2>1, FreeListSame
<1>5. Cardinality({}) = 0
  BY FS_EmptySet
<1>6. \A u \in Threads : \A i \in Bins : traffic'[u][i].fresh = traffic'[u][i].peak
  BY <1>2 DEF FootprintInv, FreshIsPeak, NoTraffic
<1>7. \A u \in Threads : \A i \in Bins :
         Cardinality(FreeList(u, i)') = traffic'[u][i].fresh - traffic'[u][i].net
  <2>1. \A i \in Bins :
           Cardinality(FreeList(t, i)') = traffic'[t][i].fresh - traffic'[t][i].net
    BY <1>2, <1>3, <1>5 DEF NoTraffic
  <2>2. \A u \in Threads : u # t => \A i \in Bins :
           Cardinality(FreeList(u, i)') = traffic'[u][i].fresh - traffic'[u][i].net
    BY <1>2, <1>4 DEF FootprintInv, ListKeepsTheRest
  <2> QED BY <2>1, <2>2
<1> QED
  BY <1>2, <1>6, <1>7 DEF FootprintInv, FreshIsPeak, ListKeepsTheRest

(* The other calls leave lists and traffic as they are, or end in a fault. *)
LEMMA FootprintUncounted ==
    ASSUME TypeOK, TypeOK', IInv, FootprintInv, fault = "none", NEW t \in Threads, Uncounted(t)
    PROVE  FootprintInv'
<1>1. ASSUME NEW r \in Requests, AllocRefused(t, r) \/ AllocFailed(t, r)
      PROVE  FootprintInv'
  BY <1>1, FootprintSame, ListsSame DEF Uncounted, AllocRefused, AllocFailed, vars
<1>2. ASSUME NEW r \in Requests, WildIndex(t, r) PROVE FootprintInv'
  BY <1>2 DEF Uncounted, WildIndex, FootprintInv, TrafficOK, FreshIsPeak, ListKeepsTheRest
<1>3. ASSUME NEW c \in Chunks, DeallocReleased(t, c) PROVE FootprintInv'
  <2>1. PICK expected : SystemFree(c, expected)
    BY <1>3 DEF DeallocReleased
  <2>2. UNCHANGED fastbins /\ \A d \in Chunks : Idle(d) => header'[d] = header[d]
    BY <1>3, <2>1 DEF DeallocReleased, SystemFree, TypeOK, Idle
  <2> QED BY <2>2, FootprintSame, ListsSame DEF Uncounted
<1> QED
  BY <1>1, <1>2, <1>3 DEF Uncounted

(* The counts of ArenaFootprint are right, whatever chunks pass between    *)
(* the threads.                                                            *)
THEOREM FootprintInvariance == FootprintSpec => [](TypeOK /\ IInv /\ FootprintInv)
<1>1. FootprintInit => TypeOK /\ IInv /\ FootprintInv
  <2> SUFFICES ASSUME FootprintInit PROVE FootprintInv
    BY TypeInit, InvInit DEF FootprintInit
  <2>1. \A t \in Threads : \A i \in Bins : FreeList(t, i) = {}
    BY DEF FootprintInit, Init, EmptyBins, FreeList, ReachableFrom
  <2>2. Cardinality({}) = 0
    BY FS_EmptySet
  <2>3. TrafficOK /\ FreshIsPeak
    BY DEF FootprintInit, NoTraffic, TrafficOK, FreshIsPeak
  <2>4. ListKeepsTheRest
    BY <2>1, <2>2 DEF FootprintInit, NoTraffic, ListKeepsTheRest
  <2> QED BY <2>3, <2>4 DEF FootprintInv
<1>2. TypeOK /\ IInv /\ FootprintInv /\ [FootprintNext]_footprintVars
         => (TypeOK /\ IInv /\ FootprintInv)'
  <2> SUFFICES ASSUME TypeOK, IInv, FootprintInv, [FootprintNext]_footprintVars
               PROVE  TypeOK' /\ IInv' /\ FootprintInv'
    OBVIOUS
  <2>1. TypeOK' /\ IInv'
    BY StepsOfArena, TypeNext, InvNext
  <2>2. CASE UNCHANGED footprintVars
    <3>1. \A t \in Threads : \A i \in Bins : FreeList(t, i)' = FreeList(t, i)
      BY <2>1, <2>2, ListsSame DEF footprintVars, vars
    <3>2. UNCHANGED <<traffic, fault>>
      BY <2>2 DEF footprintVars, vars
    <3>3. ListKeepsTheRest'
      BY <3>1, <3>2 DEF FootprintInv, ListKeepsTheRest
    <3> QED
      BY <2>1, <3>2, <3>3 DEF FootprintInv, TrafficOK, FreshIsPeak
  <2>3. CASE FootprintNext
    BY <2>1, <2>3, FootprintThread, FootprintCached, FootprintFresh, FootprintGive,
       FootprintUncounted DEF FootprintNext, FootprintStep
  <2> QED BY <2>1, <2>2, <2>3
<1> QED
  BY <1>1, <1>2, PTL DEF FootprintSpec

(* ArenaFootprint is Arena with a counter.                                 *)
THEOREM FootprintIsArena == FootprintSpec => Spec
BY StepsOfArena, PTL DEF FootprintSpec, FootprintInit, Spec

(* FreshIsPeak of allocate and deallocate: an arena asks the system for a  *)
(* chunk of a class only when its thread has more of them than ever.       *)
THEOREM FreshIsAtPeak == FootprintSpec => []FreshIsPeak
BY FootprintInvariance, PTL DEF FootprintInv

(* ListKeepsTheRest of the fastbins, which nothing empties: what an arena  *)
(* took from the system and its thread has not is all on the list.         *)
THEOREM ListsKeepTheRest == FootprintSpec => []ListKeepsTheRest
BY FootprintInvariance, PTL DEF FootprintInv

===============================================================================
