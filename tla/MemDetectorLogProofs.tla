------------------------- MODULE MemDetectorLogProofs -------------------------
(***************************************************************************)
(* Proofs about the logs of module MemDetector: the values they take, the  *)
(* order of the records of a block, that they tell which blocks the        *)
(* program has, and that they grow as AllocationLog says.                  *)
(***************************************************************************)
EXTENDS MemDetectorProofs, FiniteSetTheorems

(* A mutex is locked by a call and by one allocation inside it.             *)
DepthInv == \A s \in Slots : lock[s].depth <= 2

(* Who appends has read the clock.                                          *)
TimeInv ==
    \A t \in Threads : \A i \in 1 .. Len(frames[t]) :
        frames[t][i].pc = "append" => frames[t][i].time \in 1 .. clock

(* The logs hold records.                                                   *)
LogsInv == actions \in [Slots -> Seq(Logged)]

(* The threads whose call may still read the clock ...                      *)
Unstamped ==
    {t \in Threads : frames[t] # <<>> /\ frames[t][1].pc \in {"lock", "malloc", "stamp"}}

(* ... and the bound that MayCall keeps for them.                           *)
BoundInv == clock + Cardinality(Unstamped) <= MAX_RECORDS

(* r is what the logs say last of p.                                        *)
IsLast(r, p) ==
    r \in Records /\ r.ptr = p /\ \A q \in Records : q.ptr = p => q.time <= r.time

(* Records of a block have different times, earlier ones than a record of   *)
(* it that is about to be made, and so a last one among them.               *)
OrderInv ==
    /\ \A r \in Records : r.time <= clock
    /\ \A r, q \in Records : r.ptr = q.ptr /\ r.time = q.time => r = q
    /\ \A t \in Threads : \A i \in 1 .. Len(frames[t]) : frames[t][i].pc = "append" =>
          \A r \in Records : r.ptr = frames[t][i].ptr => r.time < frames[t][i].time
    /\ \A r \in Records : \E q \in Records : IsLast(q, r.ptr)

(* The last record of p is op.                                              *)
LiveAs(p, op) == \E r \in Records : IsLast(r, p) /\ r.op = op

(* What the logs say of the block of the i-th frame f of a thread.         *)
FrameTruth(f, i) ==
    /\ ~f.guarded \/ i = 2 \/ f.pc = "free" => ~LoggedLive(f.ptr)
    /\ f.hook \in News /\ f.pc \in {"stamp", "append"} => ~LoggedLive(f.ptr)
    /\ f.hook \in News /\ f.pc = "leave" /\ f.guarded /\ i = 1 =>
          LiveAs(f.ptr, LoggedOp(f.hook))
    /\ f.hook \notin News =>
          \A r \in Records : IsLast(r, f.ptr) /\ kAllocOpIsAllocation[r.op] =>
              LoggedOp(f.hook) = kAllocOpFreeFunction[r.op]

(* What the logs say of blocks of the program, of blocks that nobody has    *)
(* and of those in the hands of calls in progress.                          *)
Truth ==
    /\ \A b \in held : IF b.known THEN LiveAs(b.ptr, LoggedOp(b.by)) ELSE ~LoggedLive(b.ptr)
    /\ \A p \in Addresses : (\A b \in held : b.ptr # p) /\ ~Carried(p) => ~LoggedLive(p)
    /\ \A t \in Threads : \A i \in 1 .. Len(frames[t]) : \A f :
          f = frames[t][i] /\ (\E p \in Addresses : Carries(f, p)) => FrameTruth(f, i)

(* The logs are true while the recorder is at work; before, they are empty. *)
TruthInv ==
    /\ phase = "static" => Records = {} /\ \A b \in held : ~b.known
    /\ phase = "running" /\ ended # Threads => Truth

-------------------------------------------------------------------------------
(* The values of the variables.                                            *)

(* The names under which the four operators are recorded.                   *)
LEMMA LoggedOps ==
    /\ LoggedOp("new") = "New" /\ LoggedOp("new[]") = "NewArray"
    /\ LoggedOp("delete") = "Delete" /\ LoggedOp("delete[]") = "DeleteArray"
<1>1. LoggedOp("new") = "New"
  BY Zenon DEF LoggedOp
<1>2. LoggedOp("new[]") = "NewArray"
  BY Zenon DEF LoggedOp
<1>3. LoggedOp("delete") = "Delete"
  BY Zenon DEF LoggedOp
<1>4. LoggedOp("delete[]") = "DeleteArray"
  BY Zenon DEF LoggedOp
<1> QED BY <1>1, <1>2, <1>3, <1>4

(* What the tables of AllocAction.hpp say of them.                          *)
LEMMA AllocOps ==
    /\ {"New", "Delete", "NewArray", "DeleteArray"} \subseteq AllocOp
    /\ kAllocOpIsAllocation["New"] /\ kAllocOpIsAllocation["NewArray"]
    /\ ~kAllocOpIsAllocation["Delete"] /\ ~kAllocOpIsAllocation["DeleteArray"]
    /\ kAllocOpFreeFunction["New"] = "Delete"
    /\ kAllocOpFreeFunction["NewArray"] = "DeleteArray"
<1>1. {"New", "Delete", "NewArray", "DeleteArray"} \subseteq AllocOp
  BY DEF AllocOp
<1>2. kAllocOpIsAllocation["New"] /\ kAllocOpIsAllocation["NewArray"]
  BY DEF kAllocOpIsAllocation, AllocOp
<1>3. ~kAllocOpIsAllocation["Delete"] /\ ~kAllocOpIsAllocation["DeleteArray"]
  BY DEF kAllocOpIsAllocation, AllocOp
<1>4. kAllocOpFreeFunction["New"] = "Delete"
  BY Zenon DEF kAllocOpFreeFunction, AllocOp
<1>5. kAllocOpFreeFunction["NewArray"] = "DeleteArray"
  BY Zenon DEF kAllocOpFreeFunction, AllocOp
<1> QED BY <1>1, <1>2, <1>3, <1>4, <1>5

(* The record of an operator is an allocation just if it is operator new.   *)
LEMMA OpIsLogged ==
    ASSUME NEW hook \in Hooks
    PROVE  /\ LoggedOp(hook) \in {op \in AllocOp : kAllocOpIsCpp[op]}
           /\ kAllocOpIsAllocation[LoggedOp(hook)] <=> hook \in News
<1>1. {"New", "Delete", "NewArray", "DeleteArray"} \subseteq {op \in AllocOp : kAllocOpIsCpp[op]}
  BY DEF kAllocOpIsCpp, AllocOp
<1> QED BY <1>1, LoggedOps, AllocOps DEF Hooks, News

(* Every block is logged as freed by the function for its allocation.      *)
LEMMA FreeIsLogged ==
    ASSUME NEW new \in News
    PROVE  LoggedOp(DeleteFor(new)) = kAllocOpFreeFunction[LoggedOp(new)]
BY LoggedOps, AllocOps DEF DeleteFor, News

(* A frame comes to append by reading the clock, or is there already.      *)
LEMMA AppendAfter ==
    ASSUME CallInv, [Next]_vars, NEW u \in Threads, NEW j \in 1 .. Len(frames'[u]),
           frames'[u][j].pc = "append"
    PROVE  \/ j \in 1 .. Len(frames[u]) /\ frames'[u][j] = frames[u][j]
           \/ Stamp(u) /\ frames'[u][j].time = clock + 1 /\ clock' = clock + 1
<1> DEFINE Old == j \in 1 .. Len(frames[u]) /\ frames'[u][j] = frames[u][j]
<1>1. GuardInv /\ HeldTyped /\ clock \in Nat
  BY HeldAreTyped DEF CallInv
<1>2. CASE frames'[u] = frames[u]
  BY <1>2
<1>3. CASE CallNew(u) \/ CallDelete(u)
  <2>1. \E f \in Frame : frames' = [frames EXCEPT ![u] = <<f>>] /\ f.pc # "append"
    BY <1>1, <1>3, CallNewInv, CallDeleteInv
  <2>2. frames'[u][1].pc # "append" /\ Len(frames'[u]) = 1
    BY <1>1, <2>1 DEF GuardInv, Shape
  <2> QED BY <2>2
<1>4. ASSUME frames[u] # <<>>, NEW g \in Frame, SetTop(u, g), g.pc # "append"
      PROVE  Old
  <2> DEFINE n == Len(frames[u])
  <2>1. /\ Len(frames'[u]) = n /\ frames'[u][n] = g
        /\ \A i \in 1 .. n : i # n => frames'[u][i] = frames[u][i]
    BY <1>1, <1>4, FramesAfter
  <2> HIDE DEF n
  <2> QED BY <1>4, <2>1 DEF n
<1>5. CASE Lock(u) \/ Malloc(u) \/ PushBack(u) \/ Free(u)
  <2>1. frames[u] # <<>>
    BY <1>5 DEF Lock, Malloc, PushBack, Free, At
  <2>2. \E g \in Frame : SetTop(u, g) /\ g.pc # "append"
    <3>1. CASE Lock(u)
      BY <1>1, <3>1, LockEffect DEF SetTop
    <3>2. CASE Malloc(u)
      BY <1>1, <3>2, MallocEffect DEF Becomes
    <3>3. CASE PushBack(u)
      BY <1>1, <3>3, PushBackEffect DEF Becomes
    <3>4. CASE Free(u)
      BY <1>1, <3>4, FreeEffect DEF Becomes
    <3> QED BY <1>5, <3>1, <3>2, <3>3, <3>4
  <2> QED BY <1>4, <2>1, <2>2
<1>6. CASE Stamp(u)
  <2> DEFINE n == Len(frames[u])
  <2>1. frames[u] # <<>> /\ clock' = clock + 1
    BY <1>6 DEF Stamp, At
  <2>2. PICK g \in Frame : SetTop(u, g) /\ g.time = clock + 1
    BY <1>1, <1>6, StampEffect DEF Becomes
  <2>3. /\ Len(frames'[u]) = n /\ frames'[u][n] = g
        /\ \A i \in 1 .. n : i # n => frames'[u][i] = frames[u][i]
    BY <1>1, <2>1, <2>2, FramesAfter
  <2> HIDE DEF n
  <2> QED BY <1>6, <2>1, <2>2, <2>3 DEF n
<1>7. CASE PushAllocates(u)
  <2> DEFINE f == NewFrame("new", nullptr)
  <2>1. f \in Frame /\ f.pc # "append"
    BY <1>1, FrameBegins DEF GuardInv, Hooks, News
  <2>2. frames'[u] = Append(frames[u], f) /\ frames[u] \in Seq(Frame) /\ Len(frames[u]) = 1
    BY <1>1, <1>7 DEF PushAllocates, GuardInv, Shape
  <2> HIDE DEF f
  <2>3. Len(frames'[u]) = 2 /\ frames'[u][1] = frames[u][1] /\ frames'[u][2] = f
    BY <2>1, <2>2, AppendProperties
  <2> QED BY <2>1, <2>2, <2>3
<1>8. CASE Return(u)
  <2>1. frames'[u] = <<>> /\ Len(frames'[u]) = 0
    BY <1>1, <1>8 DEF Return, GuardInv, Shape
  <2> QED BY <2>1
<1>9. CASE ReturnToPush(u)
  <2>1. At(u, "leave") /\ Len(frames[u]) > 1
    BY <1>9 DEF ReturnToPush
  <2>2. Len(frames[u]) = 2
    BY <1>1, <2>1, Nested
  <2>3. frames'[u] = <<frames[u][1]>>
    BY <1>1, <1>9, ReturnToPushInv DEF GuardInv, Shape
  <2>4. Len(frames'[u]) = 1 /\ frames'[u][1] = frames[u][1]
    BY <2>3
  <2> QED BY <2>2, <2>4
<1>10. CASE ThrowFromPush(u)
  <2>1. \E h \in Frame : frames' = [frames EXCEPT ![u] = <<h>>] /\ h.pc # "append"
    BY <1>1, <1>10, ThrowFromPushInv
  <2>2. frames'[u][1].pc # "append" /\ Len(frames'[u]) = 1
    BY <1>1, <2>1 DEF GuardInv, Shape
  <2> QED BY <2>2
<1>11. CASE \E t \in Threads : Terminate(t)
  <2>1. frames'[u] = <<>> /\ Len(frames'[u]) = 0
    BY <1>11 DEF Terminate
  <2> QED BY <2>1
<1>12. ASSUME NEW t \in Threads, t # u,
              CallNew(t) \/ CallDelete(t) \/ Lock(t) \/ Proceed(t) \/ ThreadEnd(t)
       PROVE  frames'[u] = frames[u] \/ Terminate(t)
  BY <1>1, <1>12 DEF CallNew, CallDelete, Lock, Proceed, Malloc, Stamp, PushAllocates, PushBack,
        Free, Return, ReturnToPush, ThrowFromPush, ThreadEnd, SetTop, GuardInv, Shape
<1>13. ASSUME Construct \/ Shutdown \/ Destroy \/ Elsewhere \/ UNCHANGED vars \/ ThreadEnd(u)
       PROVE  frames'[u] = frames[u]
  BY <1>13 DEF Construct, Shutdown, Destroy, Elsewhere, vars, ThreadEnd
<1> QED
  BY <1>2, <1>3, <1>5, <1>6, <1>7, <1>8, <1>9, <1>10, <1>11, <1>12, <1>13
     DEF Next, Proceed

(* The clock only goes on, and only when it is read.                       *)
LEMMA ClockAfter ==
    ASSUME [Next]_vars
    PROVE  clock' = clock \/ \E t \in Threads : Stamp(t) /\ clock' = clock + 1
BY DEF Next, vars, recorder, Construct, Shutdown, Destroy, CallNew, CallDelete, Lock, Proceed,
       Malloc, Stamp, PushAllocates, PushBack, Free, Return, ReturnToPush, ThrowFromPush,
       Terminate, ThreadEnd, Elsewhere

(* Every step keeps the times of the frames.                                *)
LEMMA TimeNext == ASSUME CallInv, TimeInv, [Next]_vars PROVE TimeInv'
<1>1. clock \in Nat /\ (clock' = clock \/ clock' = clock + 1)
  BY ClockAfter DEF CallInv
<1> SUFFICES ASSUME NEW u \in Threads, NEW j \in 1 .. Len(frames'[u]),
                    frames'[u][j].pc = "append"
             PROVE  frames'[u][j].time \in 1 .. clock'
  BY DEF TimeInv
<1>2. CASE j \in 1 .. Len(frames[u]) /\ frames'[u][j] = frames[u][j]
  <2>1. frames[u][j].time \in 1 .. clock
    BY <1>2 DEF TimeInv
  <2> QED BY <1>1, <1>2, <2>1
<1>3. CASE frames'[u][j].time = clock + 1 /\ clock' = clock + 1
  BY <1>1, <1>3
<1> QED BY <1>2, <1>3, AppendAfter

(* What push_back adds to the logs.                                        *)
LEMMA RecordMade ==
    ASSUME CallInv, TimeInv, LogsInv, NEW t \in Threads, PushBack(t)
    PROVE  LET r == Record(t)
           IN  /\ r \in Logged /\ r.ptr = frames[t][1].ptr /\ r.time = frames[t][1].time
               /\ r.op = LoggedOp(frames[t][1].hook) /\ frames[t][1].hook \in Hooks
               /\ LogsInv' /\ Records' = Records \cup {r}
<1> DEFINE r == Record(t)
           s == get_per_thread(t)
<1>1. GuardInv
  BY DEF CallInv
<1>2. /\ Len(frames[t]) = 1 /\ Top(t) = frames[t][1] /\ Top(t).pc = "append"
      /\ Top(t) \in Frame /\ WellFormed(Top(t))
  BY <1>1, PushBackAt
<1>3. /\ r.ptr = Top(t).ptr /\ r.time = Top(t).time /\ r.op = LoggedOp(Top(t).hook)
      /\ r = [op |-> LoggedOp(Top(t).hook), tid |-> t, ptr |-> Top(t).ptr, time |-> Top(t).time]
  BY DEF Record
<1>4. Top(t).ptr \in Addresses /\ Top(t).hook \in Hooks
  BY <1>2 DEF WellFormed, Frame
<1>5. Top(t).time \in Nat \ {0}
  <2>1. Top(t).time \in 1 .. clock
    BY <1>2 DEF TimeInv
  <2> QED BY <2>1 DEF CallInv
<1>6. r \in Logged
  <2>1. LoggedOp(Top(t).hook) \in {op \in AllocOp : kAllocOpIsCpp[op]}
    BY <1>4, OpIsLogged
  <2> QED BY <1>3, <1>4, <1>5, <2>1 DEF Logged
<1> HIDE DEF r
<1>7. actions' = [actions EXCEPT ![s] = Append(actions[s], r)] /\ s \in Slots
  BY SlotOf DEF PushBack, LogsInv, r
<1> HIDE DEF s
<1>8. actions[s] \in Seq(Logged) /\ Append(actions[s], r) \in Seq(Logged)
  BY <1>6, <1>7, AppendProperties DEF LogsInv
<1>9. LogsInv'
  BY <1>7, <1>8 DEF LogsInv, Slots, Logged
<1>10. Records' = Records \cup {r}
  <2>1. /\ actions'[s] = Append(actions[s], r)
        /\ \A q \in Slots : q # s => actions'[q] = actions[q]
    BY <1>7 DEF LogsInv
  <2>2. ToSet(actions[s])' = ToSet(actions[s]) \cup {r}
    <3> DEFINE a == actions[s]
               b == Append(a, r)
    <3>1. Len(b) = Len(a) + 1 /\ b[Len(a) + 1] = r /\ \A i \in 1 .. Len(a) : b[i] = a[i]
      BY <1>6, <1>8, AppendProperties
    <3>2. DOMAIN a = 1 .. Len(a) /\ DOMAIN b = 1 .. Len(b) /\ Len(a) \in Nat
      BY <1>8
    <3>3. actions'[s] = b
      BY <2>1
    <3> HIDE DEF b, a
    <3>4. {b[i] : i \in DOMAIN b} = {a[i] : i \in DOMAIN a} \cup {r}
      BY <3>1, <3>2
    <3> QED BY <3>3, <3>4 DEF ToSet, a, s, get_per_thread
  <2> QED BY <1>7, <2>1, <2>2 DEF Records, ToSet, Slots
<1> QED BY <1>2, <1>3, <1>4, <1>6, <1>9, <1>10 DEF r


(* Every step leaves records in the logs.                                   *)
LEMMA LogsNext == ASSUME CallInv, TimeInv, LogsInv, [Next]_vars PROVE LogsInv'
<1>1. CASE UNCHANGED actions
  BY <1>1 DEF LogsInv, Slots, Logged
<1>2. ASSUME NEW t \in Threads, PushBack(t) PROVE LogsInv'
  BY <1>2, RecordMade
<1> QED BY <1>1, <1>2, ActionsAfter

(* Every step keeps the depth of the mutexes.                               *)
LEMMA DepthNext == ASSUME CallInv, DepthInv, [Next]_vars PROVE DepthInv'
<1>1. GuardInv
  BY DEF CallInv
<1>2. CASE UNCHANGED lock
  BY <1>2 DEF DepthInv, Slots
<1>3. ASSUME NEW t \in Threads, Lock(t) PROVE DepthInv'
  <2>1. /\ Len(frames[t]) \in {1, 2}
        /\ lock' = [lock EXCEPT ![get_per_thread(t)] = [owner |-> t, depth |-> Len(frames[t])]]
    BY <1>1, <1>3, LockEffect
  <2> DEFINE d == Len(frames[t])
             s == get_per_thread(t)
  <2>2. d \in {1, 2} /\ lock' = [lock EXCEPT ![s] = [owner |-> t, depth |-> d]]
    BY <2>1
  <2> HIDE DEF d, s
  <2>3. d <= 2
    BY <2>2
  <2> QED BY <1>1, <2>2, <2>3 DEF DepthInv, GuardInv, Shape, Slots
<1>4. ASSUME NEW t \in Threads, At(t, "leave"), Unguard(t) PROVE DepthInv'
  <2>1. UNCHANGED lock \/ lock' = [lock EXCEPT ![get_per_thread(t)].depth = @ - 1]
    BY <1>4 DEF Unguard
  <2>2. \A s \in Slots : lock'[s].depth = lock[s].depth \/ lock'[s].depth = lock[s].depth - 1
    BY <1>1, <2>1 DEF GuardInv, Shape
  <2>3. \A s \in Slots : lock[s].depth \in Nat
    BY <1>1 DEF GuardInv, Shape
  <2> QED BY <2>2, <2>3 DEF DepthInv, Slots
<1>5. ASSUME NEW t \in Threads, Return(t) \/ ReturnToPush(t) \/ ThrowFromPush(t)
      PROVE  At(t, "leave") /\ Unguard(t)
  BY <1>5 DEF Return, ReturnToPush, ThrowFromPush
<1>6. \/ UNCHANGED lock \/ \E t \in Threads : Lock(t)
      \/ \E t \in Threads : Return(t) \/ ReturnToPush(t) \/ ThrowFromPush(t)
  BY DEF Next, vars, recorder, Construct, Shutdown, Destroy, CallNew, CallDelete, Proceed,
         Malloc, Stamp, PushAllocates, PushBack, Free, Terminate, ThreadEnd, Elsewhere
<1> QED BY <1>2, <1>3, <1>4, <1>5, <1>6

(* Only a call that begins is new among those that may still be recorded.  *)
LEMMA UnstampedAfter ==
    ASSUME CallInv, [Next]_vars, NEW u \in Threads, u \in Unstamped'
    PROVE  (u \in Unstamped /\ ~Stamp(u)) \/ CallNew(u) \/ CallDelete(u)
<1>1. GuardInv /\ HeldTyped /\ clock \in Nat
  BY HeldAreTyped DEF CallInv
<1>2. frames'[u] # <<>> /\ frames'[u][1].pc \in {"lock", "malloc", "stamp"}
  BY DEF Unstamped
<1>3. CASE frames'[u] = frames[u] /\ ~Stamp(u)
  BY <1>2, <1>3 DEF Unstamped
<1>4. ASSUME frames[u] # <<>>, NEW g \in Frame, SetTop(u, g), ~Stamp(u),
             g.pc \in {"lock", "malloc", "stamp"} => Top(u).pc \in {"lock", "malloc", "stamp"}
      PROVE  u \in Unstamped
  <2> DEFINE n == Len(frames[u])
  <2>1. /\ Len(frames'[u]) = n /\ frames'[u][n] = g /\ n \in {1, 2}
        /\ \A i \in 1 .. n : i # n => frames'[u][i] = frames[u][i]
    BY <1>1, <1>4, FramesAfter
  <2>2. Top(u) = frames[u][n]
    BY <1>1, <1>4, TopFrame
  <2> HIDE DEF n
  <2>3. n = 1 => Top(u) = frames[u][1] /\ frames'[u][1] = g
    BY <2>1, <2>2
  <2>4. n = 2 => frames'[u][1] = frames[u][1]
    BY <2>1
  <2> QED BY <1>2, <1>4, <2>1, <2>3, <2>4 DEF Unstamped
<1>5. CASE Lock(u) \/ Malloc(u) \/ PushBack(u) \/ Free(u)
  <2>1. frames[u] # <<>> /\ ~Stamp(u)
    BY <1>5 DEF Lock, Malloc, PushBack, Free, Stamp, At
  <2>2. \E g \in Frame : SetTop(u, g) /\
           (g.pc \in {"lock", "malloc", "stamp"} => Top(u).pc \in {"lock", "malloc", "stamp"})
    <3>1. CASE Lock(u)
      BY <1>1, <3>1, LockEffect DEF SetTop, Lock, At
    <3>2. CASE Malloc(u)
      BY <1>1, <3>2, MallocEffect DEF Becomes, Malloc, At
    <3>3. CASE PushBack(u)
      BY <1>1, <3>3, PushBackEffect DEF Becomes
    <3>4. CASE Free(u)
      BY <1>1, <3>4, FreeEffect DEF Becomes
    <3> QED BY <1>5, <3>1, <3>2, <3>3, <3>4
  <2> QED BY <1>4, <2>1, <2>2
<1>6. CASE Stamp(u)
  <2> DEFINE n == Len(frames[u])
  <2>1. frames[u] # <<>> /\ Top(u).pc = "stamp"
    BY <1>6 DEF Stamp, At
  <2>2. PICK g \in Frame : SetTop(u, g) /\ g.pc = "append"
    BY <1>1, <1>6, StampEffect DEF Becomes
  <2>3. /\ Len(frames'[u]) = n /\ frames'[u][n] = g /\ n \in {1, 2}
        /\ \A i \in 1 .. n : i # n => frames'[u][i] = frames[u][i]
    BY <1>1, <2>1, <2>2, FramesAfter
  <2> HIDE DEF n
  <2>4. n = 2 => frames'[u][1].pc = "append"
    BY <1>1, <2>3 DEF GuardInv, Stacks, n
  <2> QED BY <1>2, <2>2, <2>3, <2>4
<1>7. CASE PushAllocates(u)
  <2> DEFINE f == NewFrame("new", nullptr)
  <2>1. f \in Frame
    BY <1>1, FrameBegins DEF GuardInv, Hooks, News
  <2>2. frames'[u] = Append(frames[u], f) /\ frames[u] \in Seq(Frame) /\ Len(frames[u]) = 1
        /\ ~Stamp(u)
    BY <1>1, <1>7 DEF PushAllocates, GuardInv, Shape, Stamp, At
  <2> HIDE DEF f
  <2>3. frames'[u][1] = frames[u][1] /\ frames[u] # <<>>
    BY <2>1, <2>2, AppendProperties
  <2> QED BY <1>2, <2>2, <2>3 DEF Unstamped
<1>8. CASE Return(u)
  BY <1>1, <1>2, <1>8 DEF Return, GuardInv, Shape
<1>9. CASE ReturnToPush(u) \/ ThrowFromPush(u)
  <2>1. At(u, "leave") /\ Len(frames[u]) > 1
    BY <1>9 DEF ReturnToPush, ThrowFromPush
  <2>2. frames[u][1].pc = "append"
    BY <1>1, <2>1, Nested
  <2>3. \E h : frames' = [frames EXCEPT ![u] = <<h>>] /\ h.pc \in {"append", "leave"}
    BY <1>1, <1>9, <2>2, ReturnToPushInv, ThrowFromPushInv
  <2>4. frames'[u][1].pc \in {"append", "leave"}
    BY <1>1, <2>3 DEF GuardInv, Shape
  <2> QED BY <1>2, <2>4
<1>10. CASE \E t \in Threads : Terminate(t)
  BY <1>2, <1>10 DEF Terminate
<1>11. ASSUME NEW t \in Threads, t # u,
              CallNew(t) \/ CallDelete(t) \/ Lock(t) \/ Proceed(t) \/ ThreadEnd(t)
       PROVE  frames'[u] = frames[u] \/ Terminate(t)
  BY <1>1, <1>11 DEF CallNew, CallDelete, Lock, Proceed, Malloc, Stamp, PushAllocates, PushBack,
        Free, Return, ReturnToPush, ThrowFromPush, ThreadEnd, SetTop, GuardInv, Shape
<1>12. ASSUME Construct \/ Shutdown \/ Destroy \/ Elsewhere \/ UNCHANGED vars \/ ThreadEnd(u)
       PROVE  frames'[u] = frames[u]
  BY <1>12 DEF Construct, Shutdown, Destroy, Elsewhere, vars, ThreadEnd
<1> QED
  BY <1>3, <1>5, <1>6, <1>7, <1>8, <1>9, <1>10, <1>11, <1>12
     DEF Next, Proceed

(* There are finitely many threads.                                         *)
LEMMA UnstampedFinite == IsFiniteSet(Unstamped) /\ IsFiniteSet(Unstamped')
BY ThreadsAssumption, FS_Subset DEF Unstamped

(* The bound on the calls bounds the clock.                                *)
LEMMA BoundNext == ASSUME CallInv, BoundInv, [Next]_vars PROVE BoundInv'
<1>1. /\ GuardInv /\ clock \in Nat /\ MAX_RECORDS \in Nat /\ IsFiniteSet(Threads)
      /\ IsFiniteSet(Unstamped) /\ Cardinality(Unstamped) \in Nat
      /\ IsFiniteSet(Unstamped') /\ Cardinality(Unstamped') \in Nat
  BY ThreadsAssumption, UnstampedFinite, FS_CardinalityType DEF CallInv
<1>2. clock + Cardinality(Unstamped) <= MAX_RECORDS
  BY DEF BoundInv
<1>3. CASE \E t \in Threads : CallNew(t) \/ CallDelete(t)
  <2>1. PICK t \in Threads : CallNew(t) \/ CallDelete(t)
    BY <1>3
  <2> DEFINE open == {u \in Threads : frames[u] # <<>>}
  <2>2. /\ clock + Cardinality(open) < MAX_RECORDS /\ clock' = clock
        /\ \A u \in Threads : u # t => frames'[u] = frames[u]
    BY <1>1, <2>1 DEF CallNew, CallDelete, MayCall, recorder, GuardInv, Shape
  <2>3. Unstamped' \subseteq open \cup {t}
    BY <2>2 DEF Unstamped
  <2>4. IsFiniteSet(open) /\ Cardinality(open) \in Nat
    BY <1>1, FS_Subset, FS_CardinalityType
  <2> HIDE DEF open
  <2>5. IsFiniteSet(open \cup {t}) /\ Cardinality(open \cup {t}) <= Cardinality(open) + 1
        /\ Cardinality(open \cup {t}) \in Nat
    BY <2>4, FS_AddElement, FS_CardinalityType
  <2>6. Cardinality(Unstamped') <= Cardinality(open \cup {t})
    BY <2>3, <2>5, FS_Subset
  <2>7. clock + Cardinality(Unstamped') <= MAX_RECORDS
    BY <1>1, <2>2, <2>4, <2>5, <2>6
  <2> QED BY <2>2, <2>7 DEF BoundInv
<1>4. CASE ~ \E t \in Threads : CallNew(t) \/ CallDelete(t)
  <2>1. CASE \E t \in Threads : Stamp(t)
    <3>1. PICK t \in Threads : Stamp(t)
      BY <2>1
    <3>2. t \in Unstamped /\ clock' = clock + 1
      <4>1. frames[t] # <<>> /\ Top(t).pc = "stamp" /\ clock' = clock + 1
        BY <3>1 DEF Stamp, At
      <4> DEFINE n == Len(frames[t])
      <4>2. n \in {1, 2} /\ Top(t) = frames[t][n] /\ WellFormed(Top(t))
        BY <1>1, <4>1, TopFrame
      <4>3. n = 2 => ~frames[t][2].was_enable
        BY <1>1 DEF GuardInv, Stacks
      <4> HIDE DEF n
      <4>4. n = 1
        BY <4>1, <4>2, <4>3 DEF WellFormed
      <4> QED BY <4>1, <4>2, <4>4 DEF Unstamped
    <3>3. Unstamped' \subseteq Unstamped \ {t}
      <4>1. ASSUME NEW u \in Unstamped' PROVE u \in Unstamped /\ u # t
        <5>1. u \in Threads
          BY DEF Unstamped
        <5> QED BY <1>4, <3>1, <5>1, UnstampedAfter
      <4> QED BY <4>1
    <3>4. IsFiniteSet(Unstamped \ {t}) /\ Cardinality(Unstamped \ {t}) = Cardinality(Unstamped) - 1
      BY <1>1, <3>2, FS_RemoveElement
    <3>5. Cardinality(Unstamped') <= Cardinality(Unstamped) - 1
      BY <3>3, <3>4, FS_Subset
    <3>6. clock + 1 + Cardinality(Unstamped') <= MAX_RECORDS
      BY <1>1, <1>2, <3>5
    <3> QED BY <3>2, <3>6 DEF BoundInv
  <2>2. CASE ~ \E t \in Threads : Stamp(t)
    <3>1. clock' = clock
      BY <2>2, ClockAfter
    <3>2. Unstamped' \subseteq Unstamped
      <4>1. ASSUME NEW u \in Unstamped' PROVE u \in Unstamped
        <5>1. u \in Threads
          BY DEF Unstamped
        <5> QED BY <1>4, <5>1, UnstampedAfter
      <4> QED BY <4>1
    <3>3. Cardinality(Unstamped') <= Cardinality(Unstamped)
      BY <1>1, <3>2, FS_Subset
    <3>4. clock + Cardinality(Unstamped') <= MAX_RECORDS
      BY <1>1, <1>2, <3>3
    <3> QED BY <3>1, <3>4 DEF BoundInv
  <2> QED BY <2>1, <2>2
<1> QED BY <1>3, <1>4

(* What TypeOK needs besides CallInv.                                       *)
ValueInv == DepthInv /\ TimeInv /\ LogsInv /\ BoundInv

(* It holds at the start.                                                   *)
LEMMA ValueInit == Init => ValueInv
<1> SUFFICES ASSUME Init PROVE ValueInv
  OBVIOUS
<1>1. \A t \in Threads : frames[t] = <<>> /\ Len(frames[t]) = 0
  BY DEF Init
<1>2. Unstamped = {}
  BY <1>1 DEF Unstamped
<1>3. BoundInv
  BY <1>2, FS_EmptySet, ThreadsAssumption DEF Init, BoundInv
<1> QED BY <1>1, <1>3 DEF Init, ValueInv, DepthInv, TimeInv, LogsInv

(* The mutexes, times, logs and clock have the values they should have.     *)
THEOREM ValueInvariant == Spec => [](CallInv /\ ValueInv)
<1>1. CallInv /\ ValueInv /\ [Next]_vars => ValueInv'
  BY DepthNext, TimeNext, LogsNext, BoundNext DEF ValueInv
<1> QED BY <1>1, ValueInit, CallInvariant, PTL DEF Spec

(* TypeOK of the recorder: no mutex is locked more than twice, the logs     *)
(* hold records of operator new and operator delete at addresses and times  *)
(* that are not null, and no more of them than the bound allows.            *)
THEOREM MemDetectorTypeOK == Spec => []TypeOK
<1>1. CallInv /\ ValueInv => TypeOK
  <2> SUFFICES ASSUME CallInv, ValueInv PROVE TypeOK
    OBVIOUS
  <2>1. phase \in Phases /\ enable \in [Slots -> BOOLEAN] /\ ended \subseteq Threads
    BY DEF CallInv, GuardInv, Shape
  <2>2. lock \in [Slots -> [owner : Threads \cup {0}, depth : 0 .. 2]]
    <3>1. lock \in [Slots -> [owner : Threads \cup {0}, depth : Nat]]
      BY DEF CallInv, GuardInv, Shape
    <3>2. ASSUME NEW s \in Slots PROVE lock[s] \in [owner : Threads \cup {0}, depth : 0 .. 2]
      <4>1. lock[s] \in [owner : Threads \cup {0}, depth : Nat] /\ lock[s].depth <= 2
        BY <3>1 DEF ValueInv, DepthInv
      <4> QED BY <4>1
    <3> QED BY <3>1, <3>2
  <2>3. \A s \in Slots : \A i \in DOMAIN actions[s] : actions[s][i] \in Logged
    BY DEF ValueInv, LogsInv
  <2>4. clock \in 0 .. MAX_RECORDS
    <3>1. Cardinality(Unstamped) \in Nat
      BY UnstampedFinite, FS_CardinalityType
    <3> QED BY <3>1, ThreadsAssumption DEF CallInv, ValueInv, BoundInv
  <2>5. \A t \in Threads : Len(frames[t]) <= 2
    BY DEF CallInv, GuardInv, Stacks
  <2>6. /\ heap \subseteq Addresses /\ pool \subseteq heap
        /\ held \subseteq [ptr : heap, by : News, known : BOOLEAN]
    BY DEF CallInv, OwnInv
  <2> QED BY <2>1, <2>2, <2>3, <2>4, <2>5, <2>6 DEF TypeOK
<1> QED BY <1>1, ValueInvariant, PTL

-------------------------------------------------------------------------------
(* The order of the records of a block.                                    *)

(* The records are of operator new and operator delete.                     *)
LEMMA RecordsTyped == ASSUME LogsInv PROVE \A r \in Records : r \in Logged
BY DEF LogsInv, Records, ToSet

(* The records depend on the logs only.                                     *)
LEMMA RecordsSame == ASSUME UNCHANGED actions PROVE Records' = Records
BY DEF Records, ToSet, Slots

(* Two threads at append have different blocks.                            *)
LEMMA AppendersDiffer ==
    ASSUME CallInv, NEW t \in Threads, NEW u \in Threads,
           NEW i \in 1 .. Len(frames[t]), NEW j \in 1 .. Len(frames[u]),
           frames[t][i].pc = "append", frames[u][j].pc = "append",
           frames[t][i].ptr = frames[u][j].ptr
    PROVE  t = u /\ i = j
<1>1. /\ frames[t][i] \in Frame /\ WellFormed(frames[t][i])
  BY DEF CallInv, GuardInv, Shape, Stacks
<1>2. frames[t][i].ptr \in Addresses
  BY <1>1 DEF WellFormed, Frame
<1> DEFINE p == frames[t][i].ptr
<1>3. Carries(frames[t][i], p) /\ Carries(frames[u][j], p) /\ p \in Addresses
  BY <1>2 DEF Carries
<1> HIDE DEF p
<1> QED BY <1>3 DEF CallInv, OwnInv

(* A record is later than all earlier ones of its block, whichever slots    *)
(* they went to: a call has the block for itself until its record is made.  *)
LEMMA OrderNext ==
    ASSUME CallInv, ValueInv, OrderInv, [Next]_vars
    PROVE  OrderInv'
<1>1. /\ GuardInv /\ clock \in Nat /\ (clock' = clock \/ clock' = clock + 1)
      /\ TimeInv /\ LogsInv
  BY ClockAfter DEF CallInv, ValueInv
<1>2. \A r \in Records : r.time \in Nat
  BY <1>1, RecordsTyped DEF Logged
<1>3. CASE UNCHANGED actions
  <2>1. Records' = Records
    BY <1>3, RecordsSame
  <2>2. \A r \in Records : r.time <= clock'
    BY <1>1, <1>2 DEF OrderInv
  <2>3. ASSUME NEW u \in Threads, NEW j \in 1 .. Len(frames'[u]), frames'[u][j].pc = "append",
               NEW r \in Records, r.ptr = frames'[u][j].ptr
        PROVE  r.time < frames'[u][j].time
    <3>1. CASE j \in 1 .. Len(frames[u]) /\ frames'[u][j] = frames[u][j]
      BY <2>3, <3>1 DEF OrderInv
    <3>2. CASE frames'[u][j].time = clock + 1
      <4>1. r.time <= clock /\ r.time \in Nat
        BY <1>2 DEF OrderInv
      <4> QED BY <1>1, <3>2, <4>1
    <3> QED BY <2>3, <3>1, <3>2, AppendAfter
  <2>4. \A r \in Records : \E q \in Records : IsLast(q, r.ptr)'
    BY <2>1 DEF OrderInv, IsLast
  <2> QED BY <2>1, <2>2, <2>3, <2>4 DEF OrderInv
<1>4. ASSUME NEW t \in Threads, PushBack(t) PROVE OrderInv'
  <2> DEFINE f == frames[t][1]
  <2>1. PICK r \in Logged :
           r.ptr = f.ptr /\ r.time = f.time /\ Records' = Records \cup {r}
    BY <1>1, <1>4, RecordMade
  <2>2. Len(frames[t]) = 1 /\ f.pc = "append" /\ clock' = clock /\ 1 \in 1 .. Len(frames[t])
    <3>1. Len(frames[t]) = 1 /\ f.pc = "append"
      BY <1>1, <1>4, PushBackAt
    <3>2. clock' = clock
      BY <1>4 DEF PushBack
    <3> QED BY <3>1, <3>2
  <2>3. f.time \in 1 .. clock /\ \A q \in Records : q.ptr = f.ptr => q.time < f.time
    BY <2>2 DEF OrderInv, ValueInv, TimeInv
  <2>4. r.time <= clock /\ r.time \in Nat /\ \A q \in Records : q.ptr = r.ptr => q.time < r.time
    BY <1>1, <2>1, <2>3
  <2>5. ASSUME NEW u \in Threads, NEW j \in 1 .. Len(frames'[u]), frames'[u][j].pc = "append"
        PROVE  /\ \A q \in Records : q.ptr = frames'[u][j].ptr => q.time < frames'[u][j].time
               /\ frames'[u][j].ptr # r.ptr
    <3>1. j \in 1 .. Len(frames[u]) /\ frames'[u][j] = frames[u][j]
      BY <1>1, <2>2, <2>5, AppendAfter
    <3>2. u # t
      <4>1. PICK g \in Frame : SetTop(t, g) /\ g.pc # "append"
        BY <1>1, <1>4, PushBackEffect DEF Becomes
      <4>2. frames[t] # <<>>
        BY <1>4 DEF PushBack, At
      <4>3. Len(frames'[t]) = 1 /\ frames'[t][1] = g
        BY <1>1, <2>2, <4>1, <4>2, FramesAfter
      <4> QED BY <2>5, <4>1, <4>3
    <3>3. frames[u][j].ptr # f.ptr
      BY <2>2, <2>5, <3>1, <3>2, AppendersDiffer
    <3> QED BY <2>1, <2>5, <3>1, <3>3 DEF OrderInv
  <2> HIDE DEF f
  <2>6. \A q \in Records' : q.time <= clock'
    BY <2>1, <2>2, <2>4 DEF OrderInv
  <2>7. \A q, x \in Records' : q.ptr = x.ptr /\ q.time = x.time => q = x
    <3>1. \A q \in Records : q.ptr = r.ptr => q.time # r.time
      BY <1>2, <2>4
    <3> QED BY <2>1, <3>1 DEF OrderInv
  <2>8. \A q \in Records' : \E x \in Records' : IsLast(x, q.ptr)'
    <3>1. IsLast(r, r.ptr)'
      BY <1>2, <2>1, <2>4 DEF IsLast
    <3>2. ASSUME NEW q \in Records, q.ptr # r.ptr
          PROVE  \E x \in Records' : IsLast(x, q.ptr)'
      <4>1. PICK x \in Records : IsLast(x, q.ptr)
        BY DEF OrderInv
      <4>2. IsLast(x, q.ptr)'
        BY <2>1, <3>2, <4>1 DEF IsLast
      <4> QED BY <2>1, <4>2
    <3>3. ASSUME NEW q \in Records', q.ptr = r.ptr
          PROVE  \E x \in Records' : IsLast(x, q.ptr)'
      BY <2>1, <3>1, <3>3
    <3> QED BY <2>1, <3>2, <3>3
  <2>9. \A u \in Threads : \A j \in 1 .. Len(frames'[u]) : frames'[u][j].pc = "append" =>
           \A q \in Records' : q.ptr = frames'[u][j].ptr => q.time < frames'[u][j].time
    BY <2>1, <2>5
  <2> QED BY <2>6, <2>7, <2>8, <2>9 DEF OrderInv
<1> QED BY <1>3, <1>4, ActionsAfter

(* There are no records at the start.                                       *)
LEMMA OrderInit == Init => OrderInv
<1> SUFFICES ASSUME Init PROVE OrderInv
  OBVIOUS
<1>1. \A t \in Threads : frames[t] = <<>> /\ Len(frames[t]) = 0
  BY DEF Init
<1>2. Records = {}
  BY DEF Init, Records, ToSet
<1> QED BY <1>1, <1>2 DEF OrderInv

(* The last record of a block is one.                                      *)
LEMMA LastIsOne ==
    ASSUME LogsInv, OrderInv, NEW p, NEW r, NEW q, IsLast(r, p), IsLast(q, p)
    PROVE  r = q
<1>1. r.time \in Nat /\ q.time \in Nat
  BY RecordsTyped DEF IsLast, Logged
<1>2. r.time <= q.time /\ q.time <= r.time /\ r.ptr = q.ptr
  BY DEF IsLast
<1> QED BY <1>1, <1>2 DEF OrderInv, IsLast

(* The block is live if its last record is an allocation.                   *)
LEMMA LiveIsLast ==
    \A p : LoggedLive(p) <=> \E r \in Records : IsLast(r, p) /\ kAllocOpIsAllocation[r.op]
BY DEF LoggedLive, IsLast

(* What the logs say if no record is made.                                 *)
LEMMA LogSame ==
    ASSUME UNCHANGED actions
    PROVE  /\ \A p : LoggedLive(p)' <=> LoggedLive(p)
           /\ \A p, op : LiveAs(p, op)' <=> LiveAs(p, op)
           /\ \A f, i : FrameTruth(f, i)' <=> FrameTruth(f, i)
<1>1. Records' = Records
  BY RecordsSame
<1>2. \A p : LoggedLive(p)' <=> LoggedLive(p)
  BY <1>1 DEF LoggedLive
<1>3. \A r, p : IsLast(r, p)' <=> IsLast(r, p)
  BY <1>1 DEF IsLast
<1>4. \A p, op : LiveAs(p, op)' <=> LiveAs(p, op)
  BY <1>1, <1>3 DEF LiveAs
<1> QED BY <1>1, <1>2, <1>3, <1>4 DEF FrameTruth

-------------------------------------------------------------------------------
(* The logs tell the truth while the recorder is at work.                  *)

(* A step without a record: it is enough to look at what changes hands.    *)
LEMMA TruthKept ==
    ASSUME Truth, UNCHANGED actions,
           \A b \in held' : b \in held \/
              IF b.known THEN LiveAs(b.ptr, LoggedOp(b.by)) ELSE ~LoggedLive(b.ptr),
           \A p \in Addresses : (\A b \in held' : b.ptr # p) /\ ~Carried(p)' =>
              ~LoggedLive(p) \/ ((\A b \in held : b.ptr # p) /\ ~Carried(p)),
           \A u \in Threads : \A j \in 1 .. Len(frames'[u]) : \A f :
              f = frames'[u][j] /\ (\E p \in Addresses : Carries(f, p)) =>
                 FrameTruth(f, j) \/ (j \in 1 .. Len(frames[u]) /\ f = frames[u][j])
    PROVE  Truth'
<1>1. /\ \A p : LoggedLive(p)' <=> LoggedLive(p)
      /\ \A p, op : LiveAs(p, op)' <=> LiveAs(p, op)
      /\ \A f, i : FrameTruth(f, i)' <=> FrameTruth(f, i)
  BY LogSame
<1>2. \A b \in held' :
         IF b.known THEN LiveAs(b.ptr, LoggedOp(b.by))' ELSE ~LoggedLive(b.ptr)'
  BY <1>1 DEF Truth
<1>3. \A p \in Addresses : (\A b \in held' : b.ptr # p) /\ ~Carried(p)' => ~LoggedLive(p)'
  BY <1>1 DEF Truth
<1>4. \A u \in Threads : \A j \in 1 .. Len(frames'[u]) : \A f :
         f = frames'[u][j] /\ (\E p \in Addresses : Carries(f, p)) => FrameTruth(f, j)'
  BY <1>1 DEF Truth
<1> QED BY <1>2, <1>3, <1>4 DEF Truth

(* The frame on top of t becomes g and no block changes hands.             *)
LEMMA TruthTop ==
    ASSUME CallInv, Truth, NEW t \in Threads, frames[t] # <<>>, Top(t).pc # "leave",
           NEW g \in Frame, SetTop(t, g), g.ptr = Top(t).ptr, g.hook = Top(t).hook,
           g.hook \in News \/ g.pc # "leave", UNCHANGED <<actions, held>>,
           FrameTruth(Top(t), Len(frames[t])) /\ g.ptr \in Addresses
              => FrameTruth(g, Len(frames[t]))
    PROVE  Truth'
<1> DEFINE n == Len(frames[t])
<1>1. GuardInv
  BY DEF CallInv
<1>2. /\ Len(frames'[t]) = n /\ n \in {1, 2} /\ frames'[t][n] = g
      /\ \A i \in 1 .. n : i # n => frames'[t][i] = frames[t][i]
      /\ \A u \in Threads : u # t => frames'[u] = frames[u]
  BY <1>1, FramesAfter
<1>3. Top(t) = frames[t][n]
  BY <1>1, TopFrame
<1>4. \A p : Carried(p)' <=> Carried(p)
  BY <1>1, TopStillCarries
<1>5. g.ptr \in Addresses => FrameTruth(g, n)
  <2>1. g.ptr \in Addresses => Carries(Top(t), g.ptr)
    BY DEF Carries
  <2> HIDE DEF n
  <2> QED BY <1>2, <1>3, <2>1 DEF Truth, n
<1> HIDE DEF n
<1>6. ASSUME NEW u \in Threads, NEW j \in 1 .. Len(frames'[u]), NEW f,
             f = frames'[u][j], \E p \in Addresses : Carries(f, p)
      PROVE  FrameTruth(f, j) \/ (j \in 1 .. Len(frames[u]) /\ f = frames[u][j])
  <2>1. CASE u = t /\ j = n
    <3>1. f = g /\ g.ptr \in Addresses
      BY <1>2, <1>6, <2>1 DEF Carries
    <3> QED BY <1>5, <2>1, <3>1
  <2>2. CASE ~(u = t /\ j = n)
    BY <1>2, <1>6, <2>2 DEF n
  <2> QED BY <2>1, <2>2
<1> QED BY <1>4, <1>6, TruthKept

(* The stack of t becomes h alone.                                         *)
LEMMA OneFrameTruth ==
    ASSUME CallInv, NEW t \in Threads, NEW h, frames' = [frames EXCEPT ![t] = <<h>>],
           (\E p \in Addresses : Carries(h, p)) =>
              FrameTruth(h, 1) \/ (1 \in 1 .. Len(frames[t]) /\ h = frames[t][1])
    PROVE  \A u \in Threads : \A j \in 1 .. Len(frames'[u]) : \A f :
              f = frames'[u][j] /\ (\E p \in Addresses : Carries(f, p)) =>
                 FrameTruth(f, j) \/ (j \in 1 .. Len(frames[u]) /\ f = frames[u][j])
<1>1. /\ frames'[t] = <<h>> /\ Len(frames'[t]) = 1 /\ frames'[t][1] = h
      /\ \A i \in 1 .. 1 : i = 1
      /\ \A u \in Threads : u # t => frames'[u] = frames[u]
  BY DEF CallInv, GuardInv, Shape
<1> QED BY <1>1

(* A call takes a block whose last record is that of its allocation.        *)
LEMMA TruthCalls ==
    ASSUME CallInv, ValueInv, OrderInv, Truth, phase = "running",
           NEW t \in Threads, CallNew(t) \/ CallDelete(t)
    PROVE  Truth'
<1>1. GuardInv /\ HeldTyped /\ LogsInv
  BY HeldAreTyped DEF CallInv, ValueInv
<1>2. CASE CallNew(t)
  <2>1. PICK f \in Frame : frames' = [frames EXCEPT ![t] = <<f>>] /\ f.ptr = nullptr
    BY <1>1, <1>2, CallNewInv
  <2>2. frames[t] = <<>> /\ Len(frames[t]) = 0 /\ UNCHANGED <<held, actions>>
    BY <1>2 DEF CallNew, MayCall, recorder
  <2>3. \A p \in Addresses : ~Carries(f, p)
    BY <2>1, ThreadsAssumption DEF Carries
  <2>4. \A p \in Addresses : Carried(p) => Carried(p)'
    BY <1>1, <2>1, <2>2, OneFrameCarries DEF Carried
  <2> QED BY <2>1, <2>2, <2>3, <2>4, OneFrameTruth, TruthKept
<1>3. CASE CallDelete(t)
  <2>1. PICK b \in held, f \in Frame :
           /\ held' = held \ {b} /\ frames' = [frames EXCEPT ![t] = <<f>>]
           /\ f.ptr = b.ptr /\ f.hook = DeleteFor(b.by) /\ f.hook \notin News
           /\ f.guarded = global /\ f.pc = IF global THEN "lock" ELSE "free"
    BY <1>1, <1>3, CallDeleteInv
  <2>2. frames[t] = <<>> /\ Len(frames[t]) = 0 /\ UNCHANGED actions
    BY <1>3 DEF CallDelete, MayCall, recorder
  <2>3. f.guarded /\ f.pc = "lock"
    BY <2>1 DEF global
  <2>4. FrameTruth(f, 1)
    <3>1. ASSUME NEW r \in Records, IsLast(r, f.ptr), kAllocOpIsAllocation[r.op]
          PROVE  LoggedOp(f.hook) = kAllocOpFreeFunction[r.op]
      <4>1. LoggedLive(b.ptr)
        BY <2>1, <3>1, LiveIsLast
      <4>2. LiveAs(b.ptr, LoggedOp(b.by))
        BY <2>1, <4>1 DEF Truth
      <4>3. r.op = LoggedOp(b.by)
        BY <1>1, <2>1, <3>1, <4>2, LastIsOne DEF LiveAs
      <4> QED BY <1>1, <2>1, <4>3, FreeIsLogged DEF HeldTyped
    <3> QED BY <2>1, <2>3, <3>1 DEF FrameTruth
  <2>5. \A p \in Addresses : (\A c \in held' : c.ptr # p) /\ ~Carried(p)' =>
           (\A c \in held : c.ptr # p) /\ ~Carried(p)
    <3>1. \A p : Carries(f, p) <=> p = b.ptr
      BY <2>1, <2>3 DEF Carries
    <3>2. \A p : Carried(p) => Carried(p)'
      BY <1>1, <2>1, <2>2, OneFrameCarries DEF Carried
    <3>3. Carried(b.ptr)'
      BY <1>1, <2>1, <3>1, OneFrameCarries
    <3> QED BY <2>1, <3>2, <3>3
  <2> QED BY <2>1, <2>2, <2>4, <2>5, OneFrameTruth, TruthKept
<1> QED BY <1>2, <1>3

(* The guard found the flag set, so the call will be recorded.              *)
LEMMA TruthLock ==
    ASSUME CallInv, Truth, RunInv', phase' = "running", NEW t \in Threads, Lock(t)
    PROVE  Truth'
<1> DEFINE n == Len(frames[t])
<1>1. GuardInv
  BY DEF CallInv
<1>2. PICK g \in Frame :
         /\ SetTop(t, g) /\ WellFormed(g) /\ g.guarded /\ g.pc # "lock" /\ g.ptr = Top(t).ptr
         /\ g.hook = Top(t).hook
         /\ g.pc = IF g.hook \in News THEN "malloc" ELSE IF g.was_enable THEN "stamp" ELSE "free"
  BY <1>1, LockEffect DEF SetTop
<1>3. /\ frames[t] # <<>> /\ Top(t).pc = "lock" /\ UNCHANGED <<actions, held>>
      /\ Top(t) = frames[t][n] /\ n \in {1, 2}
  BY <1>1, TopFrame DEF Lock, At
<1>4. Len(frames'[t]) = n /\ frames'[t][n] = g
  BY <1>1, <1>2, <1>3, FramesAfter
<1>5. n = 2 => g.hook \in News
  BY <1>1, <1>2, <1>3 DEF GuardInv, Stacks, News
<1>6. g.hook \in News => g.ptr \notin Addresses
  BY <1>2, ThreadsAssumption DEF WellFormed
<1> HIDE DEF n
<1>7. n = 1 => g.was_enable
  <2>1. n = 1 => frames'[t] # <<>> /\ frames'[t][1] = g
    BY <1>4
  <2> QED BY <1>2, <2>1 DEF RunInv, Holds
<1>8. g.ptr \in Addresses => n = 1 /\ g.pc = "stamp" /\ g.hook \notin News
  BY <1>2, <1>3, <1>5, <1>6, <1>7
<1>9. FrameTruth(Top(t), n) /\ g.ptr \in Addresses => FrameTruth(g, n)
  BY <1>2, <1>8 DEF FrameTruth
<1>10. g.hook \in News \/ g.pc # "leave"
  BY <1>2
<1> QED BY <1>2, <1>3, <1>9, <1>10, TruthTop DEF n

(* Reading the clock tells nothing of a block.                              *)
LEMMA TruthStamp ==
    ASSUME CallInv, Truth, NEW t \in Threads, Stamp(t)
    PROVE  Truth'
<1> DEFINE n == Len(frames[t])
<1>1. GuardInv /\ clock + 1 \in Nat
  BY DEF CallInv
<1>2. PICK g \in Frame : Becomes(t, g) /\ g.ptr = Top(t).ptr /\ g.pc = "append"
  BY <1>1, StampEffect
<1>3. /\ frames[t] # <<>> /\ Top(t).pc = "stamp" /\ UNCHANGED <<actions, held>>
  BY DEF Stamp, At
<1> HIDE DEF n
<1>4. FrameTruth(Top(t), n) => FrameTruth(g, n)
  BY <1>2, <1>3 DEF Becomes, FrameTruth
<1> QED BY <1>2, <1>3, <1>4, TruthTop DEF Becomes, n

(* The logs have a block that malloc returns as not live: nobody had it.    *)
LEMMA TruthMalloc ==
    ASSUME CallInv, Truth, RunInv, phase = "running", NEW t \in Threads, Malloc(t)
    PROVE  Truth'
<1> DEFINE n == Len(frames[t])
<1>1. GuardInv
  BY DEF CallInv
<1>2. PICK p \in (Addresses \ heap) \cup {nullptr}, g \in Frame :
         /\ Becomes(t, g) /\ g.ptr = p
         /\ g.pc = IF g.was_enable /\ p # nullptr THEN "stamp" ELSE "leave"
  BY <1>1, MallocEffect
<1>3. /\ frames[t] # <<>> /\ Top(t).pc = "malloc" /\ UNCHANGED <<actions, held>>
      /\ Top(t) = frames[t][n] /\ n \in {1, 2} /\ WellFormed(Top(t))
  BY <1>1, TopFrame DEF Malloc, At, recorder
<1>4. /\ Len(frames'[t]) = n /\ frames'[t][n] = g
      /\ \A i \in 1 .. n : i # n => frames'[t][i] = frames[t][i]
      /\ \A u \in Threads : u # t => frames'[u] = frames[u]
  BY <1>1, <1>2, <1>3, FramesAfter DEF Becomes
<1>5. \A q \in Addresses : ~Carries(frames[t][n], q)
  BY <1>3, ThreadsAssumption DEF WellFormed, Carries
<1>6. p \in Addresses => ~LoggedLive(p)
  <2>1. p \in Addresses => p \notin heap
    BY <1>2, ThreadsAssumption
  <2>2. p \in Addresses => (\A b \in held : b.ptr # p) /\ ~Carried(p)
    BY <2>1 DEF CallInv, OwnInv, Carried
  <2> QED BY <2>2 DEF Truth
<1> HIDE DEF n
<1>7. n = 1 /\ g.guarded => g.was_enable
  BY <1>2, <1>3 DEF RunInv, Holds, Becomes
<1>8. p \in Addresses => FrameTruth(g, n)
  <2>1. g.hook \in News
    BY <1>2, <1>3 DEF WellFormed, Becomes
  <2>2. p \in Addresses => p # nullptr
    BY ThreadsAssumption
  <2> QED BY <1>2, <1>6, <1>7, <2>1, <2>2 DEF FrameTruth
<1>9. \A q \in Addresses : Carried(q) => Carried(q)'
  <2>1. \A u \in Threads : \A i \in 1 .. Len(frames[u]) : \A q \in Addresses :
           Carries(frames[u][i], q) =>
              i \in 1 .. Len(frames'[u]) /\ frames'[u][i] = frames[u][i]
    BY <1>4, <1>5 DEF n
  <2> QED BY <2>1 DEF Carried, Carries
<1>10. ASSUME NEW u \in Threads, NEW j \in 1 .. Len(frames'[u]), NEW f,
              f = frames'[u][j], \E q \in Addresses : Carries(f, q)
       PROVE  FrameTruth(f, j) \/ (j \in 1 .. Len(frames[u]) /\ f = frames[u][j])
  <2>1. CASE u = t /\ j = n
    BY <1>2, <1>4, <1>8, <1>10, <2>1 DEF Carries
  <2>2. CASE ~(u = t /\ j = n)
    BY <1>4, <1>10, <2>2 DEF n
  <2> QED BY <2>1, <2>2
<1> QED BY <1>3, <1>9, <1>10, TruthKept

(* The logs have a block as not live before it is freed.                    *)
LEMMA TruthFree ==
    ASSUME CallInv, Truth, NEW t \in Threads, Free(t)
    PROVE  Truth'
<1> DEFINE n == Len(frames[t])
           q == Top(t).ptr
<1>1. GuardInv
  BY DEF CallInv
<1>2. PICK g \in Frame : SetTop(t, g) /\ g.ptr = q /\ g.hook \notin News /\ g.pc = "leave"
  BY <1>1, FreeEffect DEF Becomes
<1>3. /\ frames[t] # <<>> /\ Top(t).pc = "free" /\ UNCHANGED <<held, actions>>
      /\ Top(t) = frames[t][n] /\ n \in {1, 2}
  BY <1>1, TopFrame DEF Free, At, recorder
<1>4. /\ Len(frames'[t]) = n /\ frames'[t][n] = g
      /\ \A i \in 1 .. n : i # n => frames'[t][i] = frames[t][i]
      /\ \A u \in Threads : u # t => frames'[u] = frames[u]
  BY <1>1, <1>2, <1>3, FramesAfter
<1> HIDE DEF n
<1>5. q \in Addresses => ~LoggedLive(q)
  <2>1. Carries(frames[t][n], q)
    BY <1>3 DEF Carries
  <2>2. q \in Addresses => FrameTruth(Top(t), n)
    BY <1>3, <2>1 DEF Truth, n
  <2> QED BY <1>3, <2>2 DEF FrameTruth
<1>6. \A p : Carried(p) => Carried(p)' \/ p = q
  <2>1. \A u \in Threads : \A i \in 1 .. Len(frames[u]) : \A p :
           Carries(frames[u][i], p) /\ p # q =>
              i \in 1 .. Len(frames'[u]) /\ frames'[u][i] = frames[u][i]
    BY <1>3, <1>4 DEF n, Carries
  <2> QED BY <2>1 DEF Carried, Carries
<1>7. ASSUME NEW u \in Threads, NEW j \in 1 .. Len(frames'[u]), NEW f,
             f = frames'[u][j], \E p \in Addresses : Carries(f, p)
      PROVE  j \in 1 .. Len(frames[u]) /\ f = frames[u][j]
  <2>1. ~(u = t /\ j = n)
    BY <1>2, <1>4, <1>7 DEF Carries
  <2> QED BY <1>4, <1>7, <2>1 DEF n
<1> HIDE DEF q
<1>8. \A p \in Addresses : (\A b \in held' : b.ptr # p) /\ ~Carried(p)' =>
         ~LoggedLive(p) \/ ((\A b \in held : b.ptr # p) /\ ~Carried(p))
  BY <1>3, <1>5, <1>6
<1> QED BY <1>3, <1>7, <1>8, TruthKept


(* A call of operator new returns a block as known just if it was recorded. *)
LEMMA TruthReturn ==
    ASSUME CallInv, Truth, NEW t \in Threads, Return(t)
    PROVE  Truth'
<1> DEFINE f == frames[t][1]
<1>1. GuardInv
  BY DEF CallInv
<1>2. /\ Len(frames[t]) = 1 /\ Top(t) = f /\ f.pc = "leave" /\ UNCHANGED actions
      /\ f \in Frame
  BY <1>1, TopFrame DEF Return, At
<1>3. /\ frames'[t] = <<>> /\ Len(frames'[t]) = 0
      /\ \A u \in Threads : u # t => frames'[u] = frames[u]
  BY <1>1 DEF Return, GuardInv, Shape
<1>4. \A p : Carried(p) => Carried(p)' \/ Carries(f, p)
  <2>1. \A u \in Threads : \A i \in 1 .. Len(frames[u]) : \A p :
           Carries(frames[u][i], p) =>
              Carries(f, p) \/ (i \in 1 .. Len(frames'[u]) /\ frames'[u][i] = frames[u][i])
    <3>1. \A i \in 1 .. 1 : i = 1
      OBVIOUS
    <3> QED BY <1>2, <1>3, <3>1
  <2> HIDE DEF f
  <2> QED BY <2>1 DEF Carried, Carries
<1>5. \A p : Carries(f, p) => f.hook \in News /\ p = f.ptr
  BY <1>2 DEF Carries
<1>6. \A u \in Threads : \A j \in 1 .. Len(frames'[u]) :
         j \in 1 .. Len(frames[u]) /\ frames'[u][j] = frames[u][j]
  BY <1>3
<1>7. CASE f.hook \in News /\ f.ptr # nullptr
  <2> DEFINE b == [ptr |-> f.ptr, by |-> f.hook, known |-> f.guarded]
  <2>1. held' = held \cup {b} /\ b.ptr = f.ptr /\ b.by = f.hook /\ b.known = f.guarded
    BY <1>2, <1>7 DEF Return
  <2>2. FrameTruth(f, 1)
    <3>1. f.ptr \in Addresses /\ Carries(f, f.ptr)
      BY <1>2, <1>7 DEF Frame, Carries
    <3>2. 1 \in 1 .. Len(frames[t])
      BY <1>2
    <3> QED BY <3>1, <3>2 DEF Truth
  <2>3. IF b.known THEN LiveAs(b.ptr, LoggedOp(b.by)) ELSE ~LoggedLive(b.ptr)
    BY <1>2, <1>7, <2>1, <2>2 DEF FrameTruth
  <2> HIDE DEF b, f
  <2>4. \A p \in Addresses : (\A c \in held' : c.ptr # p) /\ ~Carried(p)' =>
           (\A c \in held : c.ptr # p) /\ ~Carried(p)
    BY <1>4, <1>5, <2>1
  <2>5. \A c \in held' : c \in held \/
           IF c.known THEN LiveAs(c.ptr, LoggedOp(c.by)) ELSE ~LoggedLive(c.ptr)
    BY <2>1, <2>3
  <2> QED BY <1>2, <1>6, <2>4, <2>5, TruthKept
<1>8. CASE ~(f.hook \in News /\ f.ptr # nullptr)
  <2>1. UNCHANGED held
    BY <1>2, <1>8 DEF Return
  <2>2. \A p \in Addresses : Carried(p) => Carried(p)'
    BY <1>4, <1>5, <1>8, ThreadsAssumption
  <2> QED BY <1>2, <1>6, <2>1, <2>2, TruthKept
<1> QED BY <1>7, <1>8

(* An allocation inside push_back is not recorded, and its block neither.  *)
LEMMA TruthPushAllocates ==
    ASSUME CallInv, Truth, NEW t \in Threads, PushAllocates(t)
    PROVE  Truth'
<1> DEFINE f == NewFrame("new", nullptr)
<1>1. GuardInv
  BY DEF CallInv
<1>2. f \in Frame /\ f.ptr = nullptr
  BY <1>1, FrameBegins DEF GuardInv, Hooks, News
<1>3. /\ frames'[t] = Append(frames[t], f) /\ UNCHANGED <<held, actions>>
      /\ Len(frames[t]) = 1 /\ frames[t] \in Seq(Frame)
      /\ \A u \in Threads : u # t => frames'[u] = frames[u]
  BY <1>1 DEF PushAllocates, GuardInv, Shape, recorder
<1> HIDE DEF f
<1>4. Len(frames'[t]) = 2 /\ frames'[t][1] = frames[t][1] /\ frames'[t][2] = f
  BY <1>2, <1>3, AppendProperties
<1>5. \A p \in Addresses : ~Carries(f, p)
  BY <1>2, ThreadsAssumption DEF Carries
<1>6. \A u \in Threads : \A i \in 1 .. Len(frames[u]) :
         i \in 1 .. Len(frames'[u]) /\ frames'[u][i] = frames[u][i]
  BY <1>3, <1>4
<1>7. \A u \in Threads : \A i \in 1 .. Len(frames'[u]) :
         (i \in 1 .. Len(frames[u]) /\ frames'[u][i] = frames[u][i]) \/ frames'[u][i] = f
  BY <1>3, <1>4
<1>8. \A p : Carried(p) => Carried(p)'
  BY <1>6 DEF Carried, Carries
<1> QED BY <1>3, <1>5, <1>7, <1>8, TruthKept

(* The blocks of the pools are not in the logs.                             *)
LEMMA TruthReturnToPush ==
    ASSUME CallInv, Truth, NEW t \in Threads, ReturnToPush(t)
    PROVE  Truth'
<1> DEFINE f == frames[t][1]
           q == frames[t][2].ptr
<1>1. GuardInv
  BY DEF CallInv
<1>2. At(t, "leave") /\ Len(frames[t]) > 1 /\ UNCHANGED <<held, actions>>
  BY DEF ReturnToPush
<1>3. /\ Len(frames[t]) = 2 /\ frames[t][2].hook = "new" /\ frames[t][2] \in Frame
  BY <1>1, <1>2, Nested
<1>4. frames' = [frames EXCEPT ![t] = <<f>>]
  BY <1>1, ReturnToPushInv
<1>5. \A p : Carries(frames[t][2], p) <=> p = q
  BY <1>3 DEF Carries, News
<1>6. q \in Addresses => ~LoggedLive(q)
  <2>1. q \in Addresses => FrameTruth(frames[t][2], 2)
    BY <1>3, <1>5 DEF Truth
  <2> QED BY <2>1 DEF FrameTruth
<1>7. \A p : Carried(p) => Carried(p)' \/ p = q
  <2>1. \A p : Carried(p)' <=>
           \/ Carries(f, p)
           \/ \E u \in Threads : u # t /\ \E i \in 1 .. Len(frames[u]) : Carries(frames[u][i], p)
    BY <1>1, <1>4, OneFrameCarries
  <2>2. \A p : Carried(p) =>
           \/ Carries(f, p) \/ p = q
           \/ \E u \in Threads : u # t /\ \E i \in 1 .. Len(frames[u]) : Carries(frames[u][i], p)
    BY <1>3, <1>5 DEF Carried
  <2> QED BY <2>1, <2>2
<1>8. 1 \in 1 .. Len(frames[t]) /\ f = frames[t][1]
  BY <1>3
<1>9. \A p \in Addresses : (\A b \in held' : b.ptr # p) /\ ~Carried(p)' =>
         ~LoggedLive(p) \/ ((\A b \in held : b.ptr # p) /\ ~Carried(p))
  BY <1>2, <1>6, <1>7
<1> HIDE DEF f, q
<1>10. \A u \in Threads : \A j \in 1 .. Len(frames'[u]) : \A g :
          g = frames'[u][j] /\ (\E p \in Addresses : Carries(g, p)) =>
             FrameTruth(g, j) \/ (j \in 1 .. Len(frames[u]) /\ g = frames[u][j])
  BY <1>4, <1>8, OneFrameTruth
<1> QED BY <1>2, <1>9, <1>10, TruthKept

(* A block that an exception drops has not been recorded.                  *)
LEMMA TruthThrow ==
    ASSUME CallInv, Truth, NEW t \in Threads, ThrowFromPush(t)
    PROVE  Truth'
<1> DEFINE q == frames[t][1].ptr
<1>1. GuardInv
  BY DEF CallInv
<1>2. /\ At(t, "leave") /\ Len(frames[t]) > 1 /\ UNCHANGED <<held, actions>>
      /\ Top(t).ptr = nullptr
  BY DEF ThrowFromPush
<1>3. /\ Len(frames[t]) = 2 /\ Top(t) = frames[t][2] /\ frames[t][1].pc = "append"
  BY <1>1, <1>2, Nested
<1>4. PICK h \in Frame :
         /\ frames' = [frames EXCEPT ![t] = <<h>>] /\ h.ptr = nullptr
         /\ h.hook = frames[t][1].hook /\ h.hook \in News
  BY <1>1, ThrowFromPushInv
<1>5. \A p \in Addresses : ~Carries(h, p) /\ ~Carries(frames[t][2], p)
  BY <1>2, <1>3, <1>4, ThreadsAssumption DEF Carries
<1>6. \A p : Carries(frames[t][1], p) <=> p = q
  BY <1>3 DEF Carries
<1>7. q \in Addresses => ~LoggedLive(q)
  <2>1. q \in Addresses => FrameTruth(frames[t][1], 1)
    BY <1>3, <1>6 DEF Truth
  <2> QED BY <1>3, <1>4, <2>1 DEF FrameTruth
<1>8. \A p \in Addresses : Carried(p) => Carried(p)' \/ p = q
  <2>1. \A p : Carried(p)' <=>
           \/ Carries(h, p)
           \/ \E u \in Threads : u # t /\ \E i \in 1 .. Len(frames[u]) : Carries(frames[u][i], p)
    BY <1>1, <1>4, OneFrameCarries
  <2>2. \A p \in Addresses : Carried(p) =>
           \/ p = q
           \/ \E u \in Threads : u # t /\ \E i \in 1 .. Len(frames[u]) : Carries(frames[u][i], p)
    BY <1>3, <1>5, <1>6 DEF Carried
  <2> QED BY <2>1, <2>2
<1>9. \A p \in Addresses : (\A b \in held' : b.ptr # p) /\ ~Carried(p)' =>
         ~LoggedLive(p) \/ ((\A b \in held : b.ptr # p) /\ ~Carried(p))
  BY <1>2, <1>7, <1>8
<1> HIDE DEF q
<1>10. \A u \in Threads : \A j \in 1 .. Len(frames'[u]) : \A g :
          g = frames'[u][j] /\ (\E p \in Addresses : Carries(g, p)) =>
             FrameTruth(g, j) \/ (j \in 1 .. Len(frames[u]) /\ g = frames[u][j])
  BY <1>4, <1>5, OneFrameTruth
<1> QED BY <1>2, <1>9, <1>10, TruthKept

(* The record makes the log agree with the call that makes it, and says    *)
(* nothing of any other block.                                             *)
LEMMA TruthPushBack ==
    ASSUME CallInv, ValueInv, OrderInv, Truth, NEW t \in Threads, PushBack(t)
    PROVE  Truth'
<1> DEFINE f == frames[t][1]
<1>1. GuardInv /\ TimeInv /\ LogsInv
  BY DEF CallInv, ValueInv
<1>2. /\ Len(frames[t]) = 1 /\ Top(t) = f /\ f.pc = "append" /\ frames[t] # <<>>
      /\ f \in Frame /\ WellFormed(f) /\ 1 \in 1 .. Len(frames[t])
  BY <1>1, PushBackAt
<1>3. PICK r \in Logged :
         /\ r.ptr = f.ptr /\ r.time = f.time /\ r.op = LoggedOp(f.hook) /\ f.hook \in Hooks
         /\ Records' = Records \cup {r}
  BY <1>1, RecordMade
<1>4. PICK g \in Frame :
         /\ SetTop(t, g) /\ g.ptr = f.ptr /\ g.hook = f.hook /\ g.guarded = f.guarded
         /\ g.pc = IF g.hook \in News THEN "leave" ELSE "free"
  BY <1>1, <1>2, PushBackEffect DEF Becomes
<1>5. /\ Len(frames'[t]) = 1 /\ frames'[t][1] = g
      /\ \A u \in Threads : u # t => frames'[u] = frames[u]
  BY <1>1, <1>2, <1>4, FramesAfter
<1>6. f.ptr \in Addresses /\ Carries(f, f.ptr) /\ f.guarded
  BY <1>2 DEF WellFormed, Frame, Carries
<1>7. /\ \A q \in Records : q.ptr = r.ptr => q.time < r.time /\ q.time \in Nat
      /\ r.time \in Nat
  <2>1. \A q \in Records : q.ptr = f.ptr => q.time < f.time
    BY <1>2 DEF OrderInv
  <2> QED BY <1>1, <1>3, <2>1, RecordsTyped DEF Logged
<1>8. UNCHANGED held
  BY DEF PushBack
<1>9. \A x : IsLast(x, r.ptr)' <=> x = r
  BY <1>3, <1>7 DEF IsLast
<1>10. \A x, p : p # r.ptr => (IsLast(x, p)' <=> IsLast(x, p))
  BY <1>3 DEF IsLast
<1>11. \A p : LoggedLive(p)' <=> \E x \in Records' : IsLast(x, p)' /\ kAllocOpIsAllocation[x.op]
  BY DEF LoggedLive, IsLast
<1>12. \A p : p # r.ptr => (LoggedLive(p)' <=> LoggedLive(p))
  <2>1. \A x, p : IsLast(x, p)' => x.ptr = p
    BY DEF IsLast
  <2>2. \A x \in Records' : x \in Records \/ x = r
    BY <1>3
  <2> QED BY <1>3, <1>10, <1>11, <2>1, <2>2, LiveIsLast
<1>13. \A p, op : p # r.ptr => (LiveAs(p, op) => LiveAs(p, op)')
  BY <1>3, <1>10 DEF LiveAs
<1>14. LiveAs(r.ptr, r.op)' /\ (LoggedLive(r.ptr)' <=> f.hook \in News)
  <2>1. r \in Records' /\ (kAllocOpIsAllocation[r.op] <=> f.hook \in News)
    BY <1>3, OpIsLogged
  <2> QED BY <1>9, <1>11, <2>1 DEF LiveAs
<1>15. ASSUME NEW h, NEW i, FrameTruth(h, i), h.ptr # r.ptr
       PROVE  FrameTruth(h, i)'
  <2>1. \A x \in Records' : IsLast(x, h.ptr)' => x \in Records
    BY <1>3, <1>10, <1>15 DEF IsLast
  <2> QED BY <1>10, <1>12, <1>13, <1>15, <2>1 DEF FrameTruth
<1>16. \A p \in Addresses : (\A b \in held' : b.ptr # p) /\ ~Carried(p)' => ~LoggedLive(p)'
  <2>1. \A p : Carried(p)' <=> Carried(p)
    BY <1>1, <1>2, <1>4, TopStillCarries
  <2>2. Carried(r.ptr)
    BY <1>2, <1>3, <1>6 DEF Carried
  <2> HIDE DEF f
  <2> QED BY <1>8, <1>12, <2>1, <2>2 DEF Truth
<1>17. \A b \in held' :
          IF b.known THEN LiveAs(b.ptr, LoggedOp(b.by))' ELSE ~LoggedLive(b.ptr)'
  <2>1. \A b \in held : b.ptr # r.ptr
    BY <1>2, <1>3, <1>6 DEF CallInv, OwnInv
  <2> HIDE DEF f
  <2> QED BY <1>8, <1>12, <1>13, <2>1 DEF Truth
<1>18. FrameTruth(g, 1)'
  <2>1. ASSUME g.hook \notin News, NEW x \in Records', IsLast(x, g.ptr)',
               kAllocOpIsAllocation[x.op]
        PROVE  FALSE
    <3>1. x = r
      BY <1>3, <1>4, <1>9, <2>1
    <3> QED BY <1>3, <1>4, <2>1, <3>1, OpIsLogged
  <2>2. g.guarded /\ (g.pc = "free" => g.hook \notin News) /\ g.ptr = r.ptr
    BY <1>3, <1>4, <1>6
  <2>3. g.pc = "free" => ~LoggedLive(g.ptr)'
    BY <1>4, <1>14, <2>2
  <2>4. g.hook \in News => LiveAs(g.ptr, LoggedOp(g.hook))'
    BY <1>3, <1>4, <1>14
  <2>5. g.pc \notin {"stamp", "append"}
    BY <1>4
  <2> QED BY <2>1, <2>2, <2>3, <2>4, <2>5 DEF FrameTruth
<1>19. ASSUME NEW u \in Threads, NEW j \in 1 .. Len(frames'[u]), NEW h,
              h = frames'[u][j], NEW p \in Addresses, Carries(h, p)
       PROVE  FrameTruth(h, j)'
  <2>1. CASE u = t
    <3>1. j = 1 /\ h = g
      BY <1>5, <1>19, <2>1
    <3> QED BY <1>18, <3>1
  <2>2. CASE u # t
    <3>1. j \in 1 .. Len(frames[u]) /\ h = frames[u][j]
      BY <1>5, <1>19, <2>2
    <3>2. FrameTruth(h, j)
      BY <1>19, <3>1 DEF Truth
    <3>3. h.ptr # r.ptr
      <4>1. p = h.ptr
        BY <1>19 DEF Carries
      <4>2. ~Carries(f, p)
        BY <1>2, <1>19, <2>2, <3>1 DEF CallInv, OwnInv
      <4> QED BY <1>3, <1>6, <4>1, <4>2
    <3> QED BY <1>15, <3>2, <3>3
  <2> QED BY <2>1, <2>2
<1> QED BY <1>16, <1>17, <1>19 DEF Truth


(* The recorder begins with empty logs and knows of no block.              *)
LEMMA TruthConstruct ==
    ASSUME CallInv, TruthInv, Construct
    PROVE  TruthInv'
<1>1. /\ phase = "static" /\ phase' = "running" /\ UNCHANGED <<frames, held, actions>>
  BY DEF Construct
<1>2. Records = {} /\ \A b \in held : ~b.known
  BY <1>1 DEF TruthInv
<1>3. \A p : ~LoggedLive(p)
  BY <1>2 DEF LoggedLive
<1>4. ASSUME NEW t \in Threads, NEW i \in 1 .. Len(frames[t]), NEW f, f = frames[t][i]
      PROVE  FrameTruth(f, i)
  <2>1. ~f.guarded
    BY <1>1, <1>4 DEF CallInv, GuardInv, Stacks, global
  <2> QED BY <1>2, <1>3, <2>1 DEF FrameTruth
<1>5. Truth
  BY <1>2, <1>3, <1>4 DEF Truth
<1>6. Truth'
  <2>1. \A p : Carried(p)' <=> Carried(p)
    BY <1>1 DEF Carried
  <2>2. \A t \in Threads : \A i \in 1 .. Len(frames'[t]) : \A f :
           f = frames'[t][i] => FrameTruth(f, i)
    BY <1>1, <1>4
  <2> QED BY <1>1, <1>5, <2>1, <2>2, TruthKept
<1> QED BY <1>1, <1>6 DEF TruthInv

(* Nothing is recorded, and no call is guarded, before there is a slot.    *)
LEMMA StaticNext ==
    ASSUME CallInv, TruthInv, [Next]_vars, phase' = "static"
    PROVE  Records' = {} /\ \A b \in held' : ~b.known
<1>1. GuardInv /\ HeldTyped
  BY HeldAreTyped DEF CallInv
<1>2. phase = "static" /\ ~Construct /\ ~Shutdown /\ ~Destroy
  BY DEF Next, vars, recorder, Construct, Shutdown, Destroy, CallNew, CallDelete, Lock, Proceed,
     Malloc, Stamp, PushAllocates, PushBack, Free, Return, ReturnToPush, ThrowFromPush,
     Terminate, ThreadEnd, Elsewhere
<1>3. Records = {} /\ \A b \in held : ~b.known
  BY <1>2 DEF TruthInv
<1>4. \A t \in Threads : \A i \in 1 .. Len(frames[t]) : ~frames[t][i].guarded
  BY <1>1, <1>2 DEF GuardInv, Stacks, global
<1>5. Records' = {}
  <2>1. ASSUME NEW t \in Threads, PushBack(t) PROVE FALSE
    <3>1. Holds(frames[t][1]) /\ 1 \in 1 .. Len(frames[t])
      BY <1>1, <2>1, PushBackAt
    <3> QED BY <1>4, <3>1 DEF Holds
  <2> QED BY <1>3, <2>1, ActionsAfter, RecordsSame
<1>6. ASSUME NEW t \in Threads, Return(t), NEW b \in held' PROVE ~b.known
  <2>1. Len(frames[t]) = 1 /\ Top(t) = frames[t][1]
    BY <1>1, <1>6, TopFrame DEF Return, At
  <2>2. ~Top(t).guarded
    BY <1>4, <2>1
  <2> QED BY <1>3, <1>6, <2>2 DEF Return
<1>7. held' \subseteq held \/ \E t \in Threads : Return(t)
  BY <1>2 DEF Next, vars, recorder, CallNew, CallDelete, Lock, Proceed, Malloc, Stamp,
     PushAllocates, PushBack, Free, ReturnToPush, ThrowFromPush, Terminate, ThreadEnd, Elsewhere
<1> QED BY <1>3, <1>5, <1>6, <1>7

(* Every step keeps the logs true.                                          *)
LEMMA TruthNext ==
    ASSUME CallInv, ValueInv, OrderInv, RunInv, RunInv', TruthInv, [Next]_vars
    PROVE  TruthInv'
<1>1. CASE Construct
  BY <1>1, TruthConstruct
<1>2. CASE phase' = "static"
  BY <1>2, StaticNext DEF TruthInv
<1>3. ASSUME ~Construct, phase' = "running", ended' # Threads
      PROVE  Truth'
  <2>1. phase = "running" /\ ~Shutdown /\ ~Destroy
    BY <1>3 DEF Next, vars, recorder, Shutdown, Destroy, CallNew, CallDelete, Lock, Proceed,
       Malloc, Stamp, PushAllocates, PushBack, Free, Return, ReturnToPush, ThrowFromPush,
       Terminate, ThreadEnd, Elsewhere
  <2>2. ended # Threads /\ \A t \in Threads : ~Terminate(t)
    <3>1. ended \subseteq ended' \/ ended' = Threads
      BY DEF Next, vars, recorder, Construct, Shutdown, Destroy, CallNew, CallDelete, Lock,
         Proceed, Malloc, Stamp, PushAllocates, PushBack, Free, Return, ReturnToPush,
         ThrowFromPush, Terminate, ThreadEnd, Elsewhere
    <3>2. ended' \subseteq Threads
      BY GuardNext, HeldAreTyped DEF CallInv, GuardInv, Shape
    <3> QED BY <1>3, <3>1, <3>2 DEF Terminate
  <2>3. Truth
    BY <2>1, <2>2 DEF TruthInv
  <2>4. CASE UNCHANGED vars \/ \E t \in Threads : ThreadEnd(t)
    <3>1. UNCHANGED <<frames, held, actions>>
      BY <2>4 DEF vars, ThreadEnd, recorder
    <3>2. \A p : Carried(p)' <=> Carried(p)
      BY <3>1 DEF Carried
    <3> QED BY <2>3, <3>1, <3>2, TruthKept
  <2>5. ASSUME NEW t \in Threads, CallNew(t) \/ CallDelete(t) \/ Lock(t) PROVE Truth'
    BY <1>3, <2>1, <2>3, <2>5, TruthCalls, TruthLock
  <2>6. ASSUME NEW t \in Threads, Malloc(t) \/ Stamp(t) \/ PushBack(t) \/ Free(t) PROVE Truth'
    BY <2>1, <2>3, <2>6, TruthMalloc, TruthStamp, TruthPushBack, TruthFree
  <2>7. ASSUME NEW t \in Threads, PushAllocates(t) \/ ReturnToPush(t) \/ ThrowFromPush(t)
        PROVE  Truth'
    BY <2>3, <2>7, TruthPushAllocates, TruthReturnToPush, TruthThrow
  <2>8. ASSUME NEW t \in Threads, Return(t) PROVE Truth'
    BY <2>3, <2>8, TruthReturn
  <2> QED
    BY <1>3, <2>1, <2>2, <2>4, <2>5, <2>6, <2>7, <2>8 DEF Next, Proceed, Elsewhere
<1> QED BY <1>1, <1>2, <1>3 DEF TruthInv

(* The inductive invariant of the logs.                                     *)
LogInv == CallInv /\ ValueInv /\ OrderInv /\ RunInv /\ TruthInv

(* The logs are true in the middle of calls too, in every reachable state.  *)
THEOREM LogInvariant == Spec => []LogInv
<1>1. Init => TruthInv
  BY DEF Init, TruthInv, Records, ToSet
<1>2. CallInv /\ ValueInv /\ OrderInv /\ RunInv /\ RunInv' /\ TruthInv /\ [Next]_vars
         => OrderInv' /\ TruthInv'
  BY OrderNext, TruthNext
<1> QED
  BY <1>1, <1>2, OrderInit, ValueInvariant, RunInvariant, PTL DEF Spec, LogInv

(* LogTruthful, with detached threads or without: a block on which no call  *)
(* is in progress is live in the merged logs just if the program got it     *)
(* from a recorded call and has not deleted it.                             *)
THEOREM LogsTellTheTruth == Spec => []LogTruthful
<1>1. LogInv => LogTruthful
  <2> SUFFICES ASSUME LogInv, phase = "running", ended # Threads,
                      NEW p \in Addresses, ~InUse(p)
               PROVE  LoggedLive(p) <=> \E b \in held : b.ptr = p /\ b.known
    BY DEF LogTruthful
  <2>1. Truth /\ OrderInv /\ LogsInv
    BY DEF LogInv, TruthInv, ValueInv
  <2>2. ~Carried(p)
    <3>1. \A t \in Threads : DOMAIN frames[t] = 1 .. Len(frames[t])
      BY DEF LogInv, CallInv, GuardInv, Shape
    <3> QED BY <3>1 DEF InUse, Carried, Carries
  <2>3. ASSUME NEW b \in held, b.ptr = p
        PROVE  LoggedLive(p) <=> b.known
    <3>1. b.by \in News
      BY DEF LogInv, CallInv, OwnInv
    <3>2. CASE b.known
      <4>1. PICK r \in Records : IsLast(r, p) /\ r.op = LoggedOp(b.by)
        BY <2>1, <2>3, <3>2 DEF Truth, LiveAs
      <4> QED BY <3>1, <3>2, <4>1, OpIsLogged, LiveIsLast DEF Hooks
    <3>3. CASE ~b.known
      BY <2>1, <2>3, <3>3 DEF Truth
    <3> QED BY <3>2, <3>3
  <2>4. \A b, c \in held : b.ptr = c.ptr => b = c
    BY DEF LogInv, CallInv, OwnInv
  <2>5. (\A b \in held : b.ptr # p) => ~LoggedLive(p)
    BY <2>1, <2>2 DEF Truth
  <2> QED BY <2>3, <2>4, <2>5
<1> QED BY <1>1, LogInvariant, PTL

-------------------------------------------------------------------------------
(* The logs grow as AllocationLog says.                                    *)

(* The log and its abstract specification read one table of AllocOp.       *)
LEMMA SameTables ==
    /\ Recorded!kAllocOpIsAllocation = kAllocOpIsAllocation
    /\ Recorded!kAllocOpFreeFunction = kAllocOpFreeFunction
  BY DEF Recorded!kAllocOpIsAllocation, kAllocOpIsAllocation,
         Recorded!kAllocOpFreeFunction, kAllocOpFreeFunction, Recorded!AllocOp, AllocOp

(* What AllocationLog takes for live is what LoggedLive does.               *)
LEMMA LastOfIsLast ==
    ASSUME LogsInv, OrderInv, NEW p
    PROVE  /\ Recorded!Live(p) <=> LoggedLive(p)
           /\ \A r : IsLast(r, p) => Recorded!LastOf(p) = r
<1>1. Recorded!Of(p) = {r \in Records : r.ptr = p}
  BY DEF Recorded!Of
<1>2. ASSUME NEW r, IsLast(r, p) PROVE Recorded!LastOf(p) = r
  <2> DEFINE x == Recorded!LastOf(p)
  <2>1. x \in Recorded!Of(p) /\ \A q \in Recorded!Of(p) : q.time <= x.time
    <3>1. r \in Recorded!Of(p) /\ \A q \in Recorded!Of(p) : q.time <= r.time
      BY <1>1, <1>2 DEF IsLast
    <3> QED BY <3>1 DEF Recorded!LastOf
  <2>2. IsLast(x, p)
    BY <1>1, <2>1 DEF IsLast
  <2> QED BY <1>2, <2>2, LastIsOne
<1>3. Recorded!Of(p) # {} <=> \E r \in Records : IsLast(r, p)
  BY <1>1 DEF OrderInv, IsLast
<1>4. Recorded!Live(p) <=> LoggedLive(p)
  <2>1. Recorded!Live(p) <=> /\ Recorded!Of(p) # {}
                             /\ kAllocOpIsAllocation[Recorded!LastOf(p).op]
    BY SameTables DEF Recorded!Live
  <2> QED BY <1>2, <1>3, <2>1, LiveIsLast
<1> QED BY <1>2, <1>4

(* push_back while the recorder is at work makes a record that              *)
(* AllocationLog allows.                                                    *)
LEMMA RecordsGrow ==
    ASSUME LogInv, NEW t \in Threads, PushBack(t), phase = "running"
    PROVE  Recorded!Next
<1> DEFINE f == frames[t][1]
<1>1. GuardInv /\ TimeInv /\ LogsInv /\ OrderInv /\ CallInv
  BY DEF LogInv, CallInv, ValueInv
<1>2. /\ Len(frames[t]) = 1 /\ f.pc = "append" /\ f \in Frame /\ WellFormed(f)
      /\ t \notin ended /\ 1 \in 1 .. Len(frames[t])
  BY <1>1, PushBackAt
<1>3. PICK r \in Logged :
         /\ r.ptr = f.ptr /\ r.time = f.time /\ r.op = LoggedOp(f.hook) /\ f.hook \in Hooks
         /\ Records' = Records \cup {r}
  BY <1>1, RecordMade
<1>4. \A q \in Records : q.ptr = r.ptr => q.time < r.time
  BY <1>1, <1>2, <1>3 DEF OrderInv
<1>5. r \in Records' \ Records
  <2>1. r.time \in Nat
    BY DEF Logged
  <2> QED BY <1>3, <1>4, <2>1
<1>6. FrameTruth(f, 1)
  <2>1. f.ptr \in Addresses /\ Carries(f, f.ptr)
    BY <1>2 DEF WellFormed, Frame, Carries
  <2>2. Truth
    BY <1>2 DEF LogInv, TruthInv
  <2> QED BY <1>2, <2>1, <2>2 DEF Truth
<1> HIDE DEF f
<1>7. \A q \in Recorded!Of(r.ptr) : q.time < r.time
  BY <1>4 DEF Recorded!Of
<1>8. Recorded!Allocated(r) \/ Recorded!GivenBack(r)
  <2>1. CASE f.hook \in News
    <3>1. ~LoggedLive(r.ptr) /\ kAllocOpIsAllocation[r.op]
      BY <1>2, <1>3, <1>6, <2>1, OpIsLogged DEF FrameTruth
    <3> QED BY <1>1, <3>1, LastOfIsLast, SameTables DEF Recorded!Allocated
  <2>2. CASE f.hook \notin News
    <3>1. ~kAllocOpIsAllocation[r.op]
      BY <1>3, <2>2, OpIsLogged
    <3>2. ASSUME LoggedLive(r.ptr)
          PROVE  r.op = kAllocOpFreeFunction[Recorded!LastOf(r.ptr).op]
      <4>1. PICK q \in Records : IsLast(q, r.ptr) /\ kAllocOpIsAllocation[q.op]
        BY <3>2, LiveIsLast
      <4>2. Recorded!LastOf(r.ptr) = q
        BY <1>1, <4>1, LastOfIsLast
      <4> QED BY <1>3, <1>6, <2>2, <4>1, <4>2 DEF FrameTruth
    <3> QED BY <1>1, <3>1, <3>2, LastOfIsLast, SameTables DEF Recorded!GivenBack
  <2> QED BY <2>1, <2>2
<1> QED BY <1>3, <1>5, <1>7, <1>8 DEF Recorded!Next

(* ImplementsAllocationLog: the merged logs grow as AllocationLog says,     *)
(* each record of a block later than the ones before, a live block never    *)
(* allocated again and given back by the form of delete for its form of     *)
(* new, if main waits for every thread.                                     *)
THEOREM LogsImplementAllocationLog == ASSUME NoDetached PROVE Spec => ImplementsAllocationLog
<1>1. Init => Recorded!Init
  BY DEF Init, Recorded!Init, Records, ToSet
<1>2. LogInv /\ RecordInv /\ [Next]_vars => [Recorded!Next]_Records
  <2> SUFFICES ASSUME LogInv, RecordInv, NEW t \in Threads, PushBack(t)
               PROVE  Recorded!Next
    BY ActionsAfter, RecordsSame
  <2>1. frames[t] # <<>> /\ Holds(frames[t][1]) /\ frames[t][1].was_enable
    BY PushBackAt DEF LogInv, CallInv
  <2>2. phase = "running"
    BY <2>1 DEF RecordInv, SavedInv
  <2> QED BY <2>2, RecordsGrow
<1> QED
  BY <1>1, <1>2, LogInvariant, RecordInvariant, PTL
     DEF Spec, ImplementsAllocationLog, Recorded!Spec

===============================================================================
