--------------------------- MODULE MemDetectorProofs --------------------------
(***************************************************************************)
(* Proofs about module MemDetector, for any number of threads, slots and   *)
(* addresses: the guards of operator new and operator delete nest as they  *)
(* should (GuardInv), and each block of malloc has one owner (OwnInv).     *)
(* From these two follow the properties of the flags of the slots and of   *)
(* lost blocks.  The logs are the subject of MemDetectorLogProofs.         *)
(***************************************************************************)
EXTENDS MemDetector, SequenceTheorems, TLAPS

(* The replaced operators, and what a call of one of them remembers.        *)
Hooks == News \cup {"delete", "delete[]"}
Frame == [hook : Hooks, ptr : Addresses \cup {nullptr}, guarded : BOOLEAN,
          was_enable : BOOLEAN, time : Nat,
          pc : {"lock", "malloc", "stamp", "append", "free", "leave"}]

(* Where a frame may be, given what it is.                                 *)
WellFormed(f) ==
    /\ f.was_enable => f.guarded
    /\ f.pc = "lock" => f.guarded /\ ~f.was_enable
    /\ f.pc \in {"stamp", "append"} => f.was_enable /\ f.ptr # nullptr
    /\ f.hook \in News => f.pc # "free"
    /\ f.hook \in News /\ f.pc \in {"lock", "malloc"} => f.ptr = nullptr
    /\ f.hook \notin News => f.pc # "malloc" /\ f.ptr # nullptr

(* The frame has locked the mutex of its slot and not given it back yet.   *)
Holds(f) == f.guarded /\ f.pc # "lock"

(* The values of the variables that the guards use.                         *)
Shape ==
    /\ phase \in Phases
    /\ enable \in [Slots -> BOOLEAN]
    /\ lock \in [Slots -> [owner : Threads \cup {0}, depth : Nat]]
    /\ frames \in [Threads -> Seq(Frame)]
    /\ ended \subseteq Threads

(* A second frame is an allocation inside push_back of the first, whose    *)
(* guard has cleared the flag.                                             *)
Stacks ==
    \A t \in Threads :
        /\ Len(frames[t]) <= 2
        /\ t \in ended => frames[t] = <<>>
        /\ \A i \in 1 .. Len(frames[t]) :
              WellFormed(frames[t][i]) /\ (frames[t][i].guarded => global)
        /\ Len(frames[t]) = 2 =>
              /\ frames[t][1].pc = "append"
              /\ frames[t][2].guarded /\ ~frames[t][2].was_enable
              /\ frames[t][2].hook = "new"

(* How often t has locked the mutex of its slot.                           *)
Locks(t) ==
    IF frames[t] = <<>> THEN 0
    ELSE IF Holds(Top(t)) THEN Len(frames[t]) ELSE Len(frames[t]) - 1

(* The mutex knows its owner and how often it is locked.                   *)
LockInv ==
    /\ \A t \in Threads : Locks(t) > 0 =>
          lock[get_per_thread(t)] = [owner |-> t, depth |-> Locks(t)]
    /\ ended # Threads =>
          \A s \in Slots : lock[s].depth > 0 =>
              \E t \in Threads :
                  get_per_thread(t) = s /\ lock[s] = [owner |-> t, depth |-> Locks(t)]

(* While a guard has the flag of its slot saved as set, it is cleared.     *)
FlagInv ==
    \A t \in Threads : \A i \in 1 .. Len(frames[t]) :
        frames[t][i].was_enable => ~enable[get_per_thread(t)]

(* The stack discipline of EnableGuard, by which nobody reads or clears a   *)
(* flag that another guard of the slot has saved.                           *)
GuardInv == Shape /\ Stacks /\ LockInv /\ FlagInv

(* main waits for every thread, as a program does that joins its threads.   *)
NoDetached == DETACHED = {}

(* The guard of a thread's first frame has the flag saved as it is between *)
(* calls.                                                                  *)
SavedInv ==
    \A t \in Threads : frames[t] # <<>> /\ Holds(frames[t][1]) =>
        frames[t][1].was_enable = (phase = "running")

(* The call of frame f still has block p in its hands.                      *)
Carries(f, p) == f.ptr = p /\ (f.hook \in News \/ f.pc # "leave")

(* Every block of malloc has one owner: the program, the pool of the logs,  *)
(* or a single call in progress.                                            *)
OwnInv ==
    /\ heap \subseteq Addresses /\ pool \subseteq heap
    /\ held \subseteq [ptr : heap \ pool, by : News, known : BOOLEAN]
    /\ \A b, c \in held : b.ptr = c.ptr => b = c
    /\ \A t \in Threads : \A i \in 1 .. Len(frames[t]) : \A p \in Addresses :
          Carries(frames[t][i], p) =>
              /\ p \in heap \ pool /\ \A b \in held : b.ptr # p
              /\ \A u \in Threads : \A j \in 1 .. Len(frames[u]) :
                    Carries(frames[u][j], p) => u = t /\ j = i

-------------------------------------------------------------------------------
(* The steps of a call, one by one.                                        *)

(* Where Advance takes frame f.                                             *)
StepsTo(f, pc) ==
    LET recorded == f.was_enable /\ f.ptr # nullptr
    IN  /\ f.pc = "enter" /\ f.guarded => pc = "lock"
        /\ f.pc = "lock" \/ (f.pc = "enter" /\ ~f.guarded) =>
              pc = IF f.hook \in News THEN "malloc" ELSE IF recorded THEN "stamp" ELSE "free"
        /\ f.pc = "malloc" => pc = IF recorded THEN "stamp" ELSE "leave"
        /\ f.pc = "stamp" =>
              pc = IF recorded THEN "append" ELSE IF f.hook \in News THEN "leave" ELSE "free"
        /\ f.pc = "append" => pc = IF f.hook \in News THEN "leave" ELSE "free"
        /\ f.pc = "free" => pc = "leave"

(* The steps of operator new come in the order of Program.                  *)
LEMMA NewAdvances ==
    ASSUME NEW f, f.hook \in News, f.pc \in {"enter", "lock", "malloc", "stamp", "append"}
    PROVE  \E pc : Advance(f) = [f EXCEPT !.pc = pc] /\ StepsTo(f, pc)
<1> DEFINE program == Program(f.hook)
           now == CHOOSE i \in DOMAIN program : program[i] = f.pc
           later == {i \in DOMAIN program : i > now /\ program[i] \notin Skipped(f)}
           next == CHOOSE i \in later : \A j \in later : i <= j
<1>1. Advance(f) = [f EXCEPT !.pc = program[next]]
  BY Zenon DEF Advance
<1>2. program = <<"enter", "lock", "malloc", "stamp", "append", "leave">>
  BY DEF Program
<1>3. /\ DOMAIN program = 1 .. 6
      /\ program[1] = "enter" /\ program[2] = "lock" /\ program[3] = "malloc"
      /\ program[4] = "stamp" /\ program[5] = "append" /\ program[6] = "leave"
  BY <1>2
<1> HIDE DEF program
<1>4. now \in 1 .. 5 /\ program[now] = f.pc
  BY <1>3
<1> HIDE DEF now
<1>5. later \subseteq 1 .. 6 /\ 6 \in later
  BY <1>3, <1>4 DEF Skipped
<1>6. next \in later /\ \A j \in later : next <= j
  <2> HIDE DEF later
  <2>1. \E i \in later : \A j \in later : i <= j
    BY <1>5
  <2> QED BY <2>1
<1> HIDE DEF next
<1>7. StepsTo(f, program[next])
  BY <1>3, <1>4, <1>5, <1>6 DEF Skipped, StepsTo
<1> QED BY <1>1, <1>7

(* So do those of operator delete.                                          *)
LEMMA DeleteAdvances ==
    ASSUME NEW f, f.hook \notin News, f.pc \in {"enter", "lock", "stamp", "append", "free"}
    PROVE  \E pc : Advance(f) = [f EXCEPT !.pc = pc] /\ StepsTo(f, pc)
<1> DEFINE program == Program(f.hook)
           now == CHOOSE i \in DOMAIN program : program[i] = f.pc
           later == {i \in DOMAIN program : i > now /\ program[i] \notin Skipped(f)}
           next == CHOOSE i \in later : \A j \in later : i <= j
<1>1. Advance(f) = [f EXCEPT !.pc = program[next]]
  BY Zenon DEF Advance
<1>2. program = <<"enter", "lock", "stamp", "append", "free", "leave">>
  BY DEF Program
<1>3. /\ DOMAIN program = 1 .. 6
      /\ program[1] = "enter" /\ program[2] = "lock" /\ program[3] = "stamp"
      /\ program[4] = "append" /\ program[5] = "free" /\ program[6] = "leave"
  BY <1>2
<1> HIDE DEF program
<1>4. now \in 1 .. 5 /\ program[now] = f.pc
  BY <1>3
<1> HIDE DEF now
<1>5. later \subseteq 1 .. 6 /\ 6 \in later
  BY <1>3, <1>4 DEF Skipped
<1>6. next \in later /\ \A j \in later : next <= j
  <2> HIDE DEF later
  <2>1. \E i \in later : \A j \in later : i <= j
    BY <1>5
  <2> QED BY <2>1
<1> HIDE DEF next
<1>7. StepsTo(f, program[next])
  BY <1>3, <1>4, <1>5, <1>6 DEF Skipped, StepsTo
<1> QED BY <1>1, <1>7

(* Advance leaves a well-formed frame well-formed, and only moves it on.   *)
LEMMA Advances ==
    ASSUME NEW f \in Frame, f.pc # "leave",
           f.hook \in News => f.pc # "free", f.hook \notin News => f.pc # "malloc"
    PROVE  \E pc \in {"malloc", "stamp", "append", "free", "leave"} :
              Advance(f) = [f EXCEPT !.pc = pc] /\ StepsTo(f, pc)
<1>1. \E pc : Advance(f) = [f EXCEPT !.pc = pc] /\ StepsTo(f, pc)
  BY NewAdvances, DeleteAdvances DEF Frame
<1>2. \A pc : StepsTo(f, pc) => pc \in {"malloc", "stamp", "append", "free", "leave"}
  BY DEF StepsTo, Frame
<1> QED BY <1>1, <1>2

(* A new frame is well-formed, and first locks if there is a recorder.      *)
LEMMA FrameBegins ==
    ASSUME Shape, NEW hook \in Hooks, NEW ptr \in Addresses \cup {nullptr},
           (hook \in News) <=> (ptr = nullptr)
    PROVE  LET f == NewFrame(hook, ptr)
           IN  /\ f \in Frame /\ WellFormed(f)
               /\ f.hook = hook /\ f.ptr = ptr /\ f.guarded = global /\ ~f.was_enable
               /\ f.guarded <=> f.pc = "lock"
               /\ f.pc \in {"lock", "malloc", "free"}
<1> DEFINE e == [hook |-> hook, ptr |-> ptr, guarded |-> global, was_enable |-> FALSE,
                 time |-> 0, pc |-> "enter"]
<1>1. PICK pc : Advance(e) = [e EXCEPT !.pc = pc] /\ StepsTo(e, pc)
  BY NewAdvances, DeleteAdvances
<1>2. pc = IF global THEN "lock" ELSE IF hook \in News THEN "malloc" ELSE "free"
  BY <1>1 DEF StepsTo
<1>3. NewFrame(hook, ptr) = [hook |-> hook, ptr |-> ptr, guarded |-> global,
                             was_enable |-> FALSE, time |-> 0, pc |-> pc]
  BY <1>1 DEF NewFrame
<1>4. global \in BOOLEAN
  BY DEF global
<1> HIDE DEF e
<1> QED BY <1>2, <1>3, <1>4 DEF Frame, WellFormed, News

-------------------------------------------------------------------------------
(* What is true of the frame on top of a stack.                            *)
LEMMA TopFrame ==
    ASSUME GuardInv, NEW t \in Threads, frames[t] # <<>>
    PROVE  /\ Len(frames[t]) \in {1, 2}
           /\ Top(t) = frames[t][Len(frames[t])]
           /\ Top(t) \in Frame /\ WellFormed(Top(t)) /\ (Top(t).guarded => global)
           /\ t \notin ended
<1>1. frames[t] \in Seq(Frame) /\ Len(frames[t]) <= 2
  BY DEF GuardInv, Shape, Stacks
<1>2. Len(frames[t]) \in {1, 2}
  <2> DEFINE n == Len(frames[t])
  <2>1. n \in Nat \ {0} /\ n <= 2
    BY <1>1, EmptySeq
  <2> HIDE DEF n
  <2>2. n \in {1, 2}
    BY <2>1
  <2> QED BY <2>2 DEF n
<1> QED BY <1>1, <1>2 DEF GuardInv, Shape, Stacks, Top, Last

(* The slot of a thread.                                                   *)
LEMMA SlotOf == ASSUME NEW t \in Threads PROVE get_per_thread(t) \in Slots
<1>1. t * 17 \in Nat /\ kPerThreadsCount \in Nat \ {0}
  BY ThreadsAssumption
<1> DEFINE x == t * 17
<1> HIDE DEF x
<1>2. x \in Nat => x % kPerThreadsCount \in 0 .. kPerThreadsCount - 1
  BY <1>1
<1> QED BY <1>1, <1>2 DEF get_per_thread, Slots, x

(* The frame on top moves on, between lock and unlock or without them.     *)
LEMMA TopMoves ==
    ASSUME GuardInv, NEW t \in Threads, frames[t] # <<>>,
           NEW g \in Frame, WellFormed(g), SetTop(t, g),
           g.guarded = Top(t).guarded, g.was_enable = Top(t).was_enable,
           g.hook = Top(t).hook, Top(t).pc # "lock", g.pc # "lock",
           UNCHANGED <<phase, enable, lock, ended>>
    PROVE  GuardInv'
<1> DEFINE n == Len(frames[t])
<1>1. n \in {1, 2} /\ frames[t] \in Seq(Frame) /\ Top(t) = frames[t][n] /\ t \notin ended
  BY TopFrame DEF GuardInv, Shape
<1>2. frames'[t] = [frames[t] EXCEPT ![n] = g] /\ \A u \in Threads : u # t => frames'[u] = frames[u]
  BY DEF SetTop, GuardInv, Shape
<1>3. /\ frames'[t] \in Seq(Frame) /\ Len(frames'[t]) = n /\ frames'[t][n] = g
      /\ \A i \in 1 .. n : i # n => frames'[t][i] = frames[t][i]
  BY <1>1, <1>2
<1>4. Shape'
  <2>1. frames' \in [Threads -> Seq(Frame)]
    BY <1>3 DEF SetTop, GuardInv, Shape
  <2> QED BY <2>1 DEF GuardInv, Shape
<1> HIDE DEF n
<1>5. Stacks'
  BY <1>1, <1>2, <1>3 DEF GuardInv, Stacks, global, n
<1>6. Top(t)' = g /\ \A u \in Threads : Locks(u)' = Locks(u)
  BY <1>1, <1>2, <1>3 DEF Locks, Top, Last, Holds, n
<1>7. LockInv'
  BY <1>6 DEF GuardInv, LockInv, Shape, Slots
<1>8. FlagInv'
  BY <1>1, <1>2, <1>3 DEF GuardInv, FlagInv, n
<1> QED BY <1>4, <1>5, <1>7, <1>8 DEF GuardInv

(* A call begins: its guard, if any, is still to lock.                     *)
LEMMA CallBegins ==
    ASSUME GuardInv, NEW t \in Threads, frames[t] = <<>>, t \notin ended,
           NEW f \in Frame, WellFormed(f), f.guarded = global, ~f.was_enable,
           f.guarded <=> f.pc = "lock",
           frames' = [frames EXCEPT ![t] = <<f>>],
           UNCHANGED <<phase, enable, lock, ended>>
    PROVE  GuardInv'
<1>1. /\ frames'[t] = <<f>> /\ Len(frames'[t]) = 1 /\ frames'[t][1] = f
      /\ \A u \in Threads : u # t => frames'[u] = frames[u]
  BY DEF GuardInv, Shape
<1>2. Shape'
  BY DEF GuardInv, Shape
<1>3. Stacks'
  <2> SUFFICES ASSUME NEW u \in Threads
               PROVE  /\ Len(frames'[u]) <= 2
                      /\ u \in ended => frames'[u] = <<>>
                      /\ \A i \in 1 .. Len(frames'[u]) :
                            WellFormed(frames'[u][i]) /\ (frames'[u][i].guarded => global)
                      /\ Len(frames'[u]) = 2 =>
                            /\ frames'[u][1].pc = "append"
                            /\ frames'[u][2].guarded /\ ~frames'[u][2].was_enable
                            /\ frames'[u][2].hook = "new"
    BY DEF Stacks, WellFormed, global
  <2>1. CASE u = t
    BY <1>1, <2>1
  <2>2. CASE u # t
    BY <1>1, <2>2 DEF GuardInv, Stacks
  <2> QED BY <2>1, <2>2
<1>4. \A u \in Threads : Locks(u)' = Locks(u)
  BY <1>1 DEF Locks, Top, Last, Holds
<1>5. LockInv'
  BY <1>4 DEF GuardInv, LockInv, Shape, Slots
<1>6. FlagInv'
  BY <1>1 DEF GuardInv, FlagInv
<1> QED BY <1>2, <1>3, <1>5, <1>6 DEF GuardInv

(* An allocation begins inside push_back.                                   *)
LEMMA PushBegins ==
    ASSUME GuardInv, NEW t \in Threads, PushAllocates(t)
    PROVE  GuardInv'
<1> DEFINE f == NewFrame("new", nullptr)
<1>1. /\ f \in Frame /\ WellFormed(f) /\ f.hook = "new"
      /\ f.guarded = global /\ ~f.was_enable /\ (f.guarded <=> f.pc = "lock")
  BY FrameBegins DEF GuardInv, Hooks, News
<1>2. /\ frames[t] \in Seq(Frame) /\ Len(frames[t]) = 1 /\ frames[t] # <<>>
      /\ frames[t][1].pc = "append" /\ t \notin ended
      /\ WellFormed(frames[t][1]) /\ (frames[t][1].guarded => global)
  BY TopFrame DEF PushAllocates, At, GuardInv, Shape
<1>3. global /\ Holds(frames[t][1]) /\ f.guarded /\ ~Holds(f)
  BY <1>1, <1>2 DEF WellFormed, Holds
<1> HIDE DEF f
<1>4. /\ frames' = [frames EXCEPT ![t] = Append(frames[t], f)]
      /\ UNCHANGED <<phase, enable, lock, ended>>
  BY DEF PushAllocates, recorder, f
<1>5. /\ frames'[t] \in Seq(Frame) /\ Len(frames'[t]) = 2
      /\ frames'[t][1] = frames[t][1] /\ frames'[t][2] = f
      /\ \A u \in Threads : u # t => frames'[u] = frames[u]
  <2>1. /\ frames'[t] = Append(frames[t], f)
        /\ \A u \in Threads : u # t => frames'[u] = frames[u]
    BY <1>4 DEF GuardInv, Shape
  <2>2. f \in Frame
    BY <1>1 DEF f
  <2> QED BY <1>2, <2>1, <2>2, AppendProperties
<1>6. Shape'
  BY <1>4, <1>5 DEF GuardInv, Shape
<1>7. Stacks'
  BY <1>1, <1>2, <1>3, <1>4, <1>5 DEF GuardInv, Stacks, global
<1>8. \A u \in Threads : Locks(u)' = Locks(u)
  <2>1. Locks(t) = 1
    BY <1>2, <1>3 DEF Locks, Top, Last
  <2>2. Locks(t)' = 1
    BY <1>3, <1>5 DEF Locks, Top, Last, Holds
  <2>3. \A u \in Threads : u # t => Locks(u)' = Locks(u)
    BY <1>5 DEF Locks, Top, Last, Holds
  <2> QED BY <2>1, <2>2, <2>3
<1>9. LockInv'
  BY <1>4, <1>8 DEF GuardInv, LockInv, Shape, Slots
<1>10. FlagInv'
  BY <1>1, <1>2, <1>4, <1>5 DEF GuardInv, FlagInv
<1> QED BY <1>6, <1>7, <1>9, <1>10 DEF GuardInv

(* What Lock does, in terms of GuardInv.                                   *)
LEMMA LockEffect ==
    ASSUME GuardInv, NEW t \in Threads, Lock(t)
    PROVE  LET s == get_per_thread(t)
               n == Len(frames[t])
           IN  /\ lock[s].depth = n - 1 /\ n \in {1, 2} /\ Locks(t) = n - 1
               /\ lock' = [lock EXCEPT ![s] = [owner |-> t, depth |-> n]]
               /\ enable' = [enable EXCEPT ![s] = FALSE]
               /\ \A u \in Threads : u # t /\ get_per_thread(u) = s => Locks(u) = 0
               /\ \E g \in Frame :
                     /\ frames' = [frames EXCEPT ![t][n] = g]
                     /\ WellFormed(g) /\ g.guarded /\ g.pc # "lock"
                     /\ g.was_enable = enable[s] /\ g.ptr = Top(t).ptr /\ g.hook = Top(t).hook
                     /\ g.pc = IF g.hook \in News THEN "malloc"
                               ELSE IF g.was_enable THEN "stamp" ELSE "free"
<1> DEFINE s == get_per_thread(t)
           n == Len(frames[t])
           f == [Top(t) EXCEPT !.was_enable = enable[s]]
<1>1. /\ n \in {1, 2} /\ Top(t) \in Frame /\ WellFormed(Top(t)) /\ Top(t).pc = "lock"
      /\ frames[t] # <<>> /\ t \notin ended /\ s \in Slots
  BY TopFrame, SlotOf DEF Lock, At
<1>2. Top(t).guarded /\ Locks(t) = n - 1
  BY <1>1 DEF WellFormed, Locks, Holds
<1>3. \A u \in Threads : Locks(u) \in 0 .. 2
  <2>1. ASSUME NEW u \in Threads, frames[u] # <<>> PROVE Len(frames[u]) \in {1, 2}
    BY <2>1, TopFrame
  <2> QED BY <2>1 DEF Locks
<1>4. lock[s].depth = n - 1
  <2>1. CASE n = 2
    <3>1. lock[s] = [owner |-> t, depth |-> Locks(t)]
      BY <1>1, <1>2, <2>1 DEF GuardInv, LockInv
    <3> QED BY <1>2, <3>1
  <2>2. CASE n = 1 /\ lock[s].depth # 0
    <3>1. lock[s].owner = t
      BY <2>2 DEF Lock
    <3>2. lock[s].depth > 0
      BY <1>1, <2>2 DEF GuardInv, Shape
    <3>3. ended # Threads
      BY <1>1
    <3>4. PICK u \in Threads : lock[s] = [owner |-> u, depth |-> Locks(u)]
      BY <1>1, <3>2, <3>3 DEF GuardInv, LockInv
    <3> QED BY <1>2, <2>2, <3>1, <3>4
  <2> HIDE DEF n
  <2> QED BY <1>1, <2>1, <2>2
<1>5. \A u \in Threads : u # t /\ get_per_thread(u) = s => Locks(u) = 0
  <2> SUFFICES ASSUME NEW u \in Threads, u # t, get_per_thread(u) = s, Locks(u) # 0
               PROVE  FALSE
    OBVIOUS
  <2>1. Locks(u) > 0
    BY <1>3
  <2>2. lock[get_per_thread(u)] = [owner |-> u, depth |-> Locks(u)]
    BY <2>1 DEF GuardInv, LockInv
  <2>3. lock[s].depth = 0 \/ lock[s].owner = t
    BY DEF Lock
  <2> QED BY <2>2, <2>3
<1>6. f \in Frame /\ enable[s] \in BOOLEAN
  BY <1>1 DEF Frame, GuardInv, Shape
<1>7. /\ f.pc = "lock" /\ f.hook = Top(t).hook /\ f.ptr = Top(t).ptr /\ f.guarded
      /\ f.was_enable = enable[s]
  BY <1>1, <1>2 DEF Frame
<1>8. WellFormed(Top(t)) /\ Top(t).pc = "lock"
  BY <1>1
<1> HIDE DEF f
<1>9. PICK pc \in {"malloc", "stamp", "append", "free", "leave"} :
         Advance(f) = [f EXCEPT !.pc = pc] /\ StepsTo(f, pc)
  BY <1>6, <1>7, Advances
<1>10. pc = IF f.hook \in News THEN "malloc"
            ELSE IF f.was_enable /\ f.ptr # nullptr THEN "stamp" ELSE "free"
  BY <1>7, <1>9 DEF StepsTo
<1> DEFINE g == Advance(f)
<1>11. /\ g \in Frame /\ g.hook = f.hook /\ g.ptr = f.ptr /\ g.guarded = f.guarded
       /\ g.was_enable = f.was_enable /\ g.pc = pc
  BY <1>6, <1>9 DEF Frame
<1>12. WellFormed(g)
  BY <1>7, <1>8, <1>10, <1>11 DEF WellFormed
<1>13. /\ lock' = [lock EXCEPT ![s] = [owner |-> t, depth |-> n]]
       /\ enable' = [enable EXCEPT ![s] = FALSE]
       /\ frames' = [frames EXCEPT ![t][n] = g]
  BY <1>1, <1>4 DEF Lock, SetTop, f
<1>14. /\ g.pc # "lock"
       /\ g.pc = IF g.hook \in News THEN "malloc" ELSE IF g.was_enable THEN "stamp" ELSE "free"
  BY <1>7, <1>8, <1>10, <1>11 DEF WellFormed
<1> HIDE DEF g, n, s
<1>15. \E h \in Frame :
          /\ frames' = [frames EXCEPT ![t][n] = h]
          /\ WellFormed(h) /\ h.guarded /\ h.pc # "lock"
          /\ h.was_enable = enable[s] /\ h.ptr = Top(t).ptr /\ h.hook = Top(t).hook
          /\ h.pc = IF h.hook \in News THEN "malloc"
                    ELSE IF h.was_enable THEN "stamp" ELSE "free"
  BY <1>7, <1>11, <1>12, <1>13, <1>14
<1> QED BY <1>1, <1>2, <1>4, <1>5, <1>13, <1>15 DEF n, s

(* A guard locks, saves the flag and clears it: who may lock is alone at    *)
(* the slot, or is its owner, which nests.                                  *)
LEMMA LockInvNext ==
    ASSUME GuardInv, NEW t \in Threads, Lock(t)
    PROVE  GuardInv'
<1> DEFINE s == get_per_thread(t)
           n == Len(frames[t])
<1>1. /\ n \in {1, 2} /\ Top(t) = frames[t][n] /\ Top(t).hook = frames[t][n].hook
      /\ frames[t] \in Seq(Frame) /\ frames[t] # <<>> /\ t \notin ended /\ s \in Slots
  BY TopFrame, SlotOf DEF Lock, At, GuardInv, Shape
<1>2. /\ lock' = [lock EXCEPT ![s] = [owner |-> t, depth |-> n]]
      /\ enable' = [enable EXCEPT ![s] = FALSE]
      /\ \A u \in Threads : u # t /\ get_per_thread(u) = s => Locks(u) = 0
      /\ Locks(t) = n - 1 /\ lock[s].depth = n - 1
  BY LockEffect
<1>3. PICK g \in Frame :
         /\ frames' = [frames EXCEPT ![t][n] = g]
         /\ WellFormed(g) /\ g.guarded /\ g.pc # "lock"
         /\ g.was_enable = enable[s] /\ g.ptr = Top(t).ptr /\ g.hook = Top(t).hook
  BY LockEffect
<1>4. UNCHANGED <<phase, ended>>
  BY DEF Lock
<1>5. /\ frames'[t] \in Seq(Frame) /\ Len(frames'[t]) = n /\ frames'[t][n] = g
      /\ \A i \in 1 .. n : i # n => frames'[t][i] = frames[t][i]
      /\ \A u \in Threads : u # t => frames'[u] = frames[u]
      /\ frames' \in [Threads -> Seq(Frame)]
  BY <1>1, <1>3 DEF GuardInv, Shape
<1> HIDE DEF n, s
<1>6. Shape'
  <2>1. [owner |-> t, depth |-> n] \in [owner : Threads \cup {0}, depth : Nat]
    BY <1>1
  <2> QED BY <1>2, <1>4, <1>5, <2>1 DEF GuardInv, Shape
<1>7. global
  BY <1>1, LockEffect, TopFrame DEF Lock, At, WellFormed
<1>8. n = 2 => frames[t][1].was_enable /\ enable[s] = FALSE
  BY <1>1 DEF GuardInv, Stacks, WellFormed, FlagInv, n, s, Shape
<1>9. Stacks'
  <2> SUFFICES ASSUME NEW u \in Threads
               PROVE  /\ Len(frames'[u]) <= 2
                      /\ u \in ended => frames'[u] = <<>>
                      /\ \A i \in 1 .. Len(frames'[u]) :
                            WellFormed(frames'[u][i]) /\ (frames'[u][i].guarded => global)
                      /\ Len(frames'[u]) = 2 =>
                            /\ frames'[u][1].pc = "append"
                            /\ frames'[u][2].guarded /\ ~frames'[u][2].was_enable
                            /\ frames'[u][2].hook = "new"
    BY <1>4 DEF Stacks, WellFormed, global
  <2>1. CASE u # t
    BY <1>5, <2>1 DEF GuardInv, Stacks
  <2>2. CASE u = t
    BY <1>1, <1>3, <1>5, <1>7, <1>8, <2>2 DEF GuardInv, Stacks, n
  <2> QED BY <2>1, <2>2
<1>10. LockInv'
  <2>1. /\ Locks(t)' = n
        /\ \A u \in Threads : u # t => Locks(u)' = Locks(u)
    <3>1. Top(t)' = g
      BY <1>5 DEF Top, Last
    <3>2. frames'[t] # <<>>
      BY <1>1, <1>5
    <3> QED BY <1>3, <1>5, <3>1, <3>2 DEF Locks, Top, Last, Holds
  <2>2. lock'[s] = [owner |-> t, depth |-> n] /\ \A r \in Slots : r # s => lock'[r] = lock[r]
    BY <1>1, <1>2 DEF GuardInv, Shape
  <2>3. ASSUME NEW u \in Threads, Locks(u)' > 0
        PROVE  lock'[get_per_thread(u)] = [owner |-> u, depth |-> Locks(u)']
    <3>1. CASE u = t
      BY <2>1, <2>2, <3>1 DEF s
    <3>2. CASE u # t
      <4>1. get_per_thread(u) # s /\ get_per_thread(u) \in Slots
        BY <1>2, <2>1, <2>3, <3>2, SlotOf
      <4> QED BY <2>1, <2>2, <2>3, <3>2, <4>1 DEF GuardInv, LockInv
    <3> QED BY <3>1, <3>2
  <2>4. ASSUME ended # Threads, NEW r \in Slots, lock'[r].depth > 0
        PROVE  \E u \in Threads :
                  get_per_thread(u) = r /\ lock'[r] = [owner |-> u, depth |-> Locks(u)']
    <3>1. CASE r = s
      BY <2>1, <2>2, <3>1 DEF s
    <3>2. CASE r # s
      <4>1. PICK u \in Threads :
               get_per_thread(u) = r /\ lock[r] = [owner |-> u, depth |-> Locks(u)]
        BY <2>2, <2>4, <3>2 DEF GuardInv, LockInv
      <4> QED BY <2>1, <2>2, <3>2, <4>1 DEF s
    <3> QED BY <3>1, <3>2
  <2> QED BY <1>4, <2>3, <2>4 DEF LockInv, Slots
<1>11. FlagInv'
  BY <1>1, <1>2, <1>3, <1>5, <1>8 DEF GuardInv, FlagInv, Shape, n, s
<1> QED BY <1>6, <1>9, <1>10, <1>11 DEF GuardInv

(* Who holds a mutex is its owner.                                         *)
LEMMA HolderIsOwner ==
    ASSUME GuardInv, NEW t \in Threads, NEW i \in 1 .. Len(frames[t]), Holds(frames[t][i])
    PROVE  Locks(t) > 0 /\ lock[get_per_thread(t)] = [owner |-> t, depth |-> Locks(t)]
<1>1. frames[t] # <<>>
  BY EmptySeq
<1>2. Len(frames[t]) \in {1, 2} /\ Top(t) = frames[t][Len(frames[t])]
  BY <1>1, TopFrame
<1>3. Locks(t) > 0
  <2> DEFINE n == Len(frames[t])
  <2>1. n = 1 => Holds(Top(t))
    BY <1>2
  <2> HIDE DEF n
  <2>2. n = 1 \/ n = 2
    BY <1>2 DEF n
  <2>3. Locks(t) = IF Holds(Top(t)) THEN n ELSE n - 1
    BY <1>1 DEF Locks, n
  <2> QED BY <2>1, <2>2, <2>3
<1> QED BY <1>3 DEF GuardInv, LockInv

(* Who has saved a flag as set holds the mutex.                             *)
LEMMA SavedHolds ==
    ASSUME GuardInv, NEW t \in Threads, NEW i \in 1 .. Len(frames[t]), frames[t][i].was_enable
    PROVE  Holds(frames[t][i])
BY DEF GuardInv, Stacks, WellFormed, Holds

(* Of all threads at a slot, only the owner of its mutex has locked it.    *)
LEMMA OneOwner ==
    ASSUME GuardInv, NEW t \in Threads, NEW u \in Threads, Locks(t) > 0, Locks(u) > 0,
           get_per_thread(t) = get_per_thread(u)
    PROVE  t = u
<1>1. /\ lock[get_per_thread(t)] = [owner |-> t, depth |-> Locks(t)]
      /\ lock[get_per_thread(u)] = [owner |-> u, depth |-> Locks(u)]
  BY DEF GuardInv, LockInv
<1>2. lock[get_per_thread(t)].owner = t /\ lock[get_per_thread(t)].owner = u
  <2> HIDE DEF get_per_thread, Locks
  <2>1. lock[get_per_thread(t)].owner = t
    BY <1>1
  <2>2. lock[get_per_thread(u)].owner = u
    BY <1>1
  <2> QED BY <2>1, <2>2
<1> QED BY <1>2

(* A guard is left: its thread has locked the mutex once less.             *)
LEMMA Unlocks ==
    ASSUME GuardInv, NEW t \in Threads, At(t, "leave"), Unguard(t),
           \A u \in Threads : u # t => frames'[u] = frames[u],
           Locks(t)' = IF Top(t).guarded THEN Locks(t) - 1 ELSE Locks(t),
           UNCHANGED ended
    PROVE  LockInv'
<1> DEFINE s == get_per_thread(t)
<1>1. /\ s \in Slots /\ frames[t] # <<>> /\ t \notin ended
      /\ Len(frames[t]) \in {1, 2} /\ WellFormed(Top(t))
  BY SlotOf, TopFrame DEF At
<1>2. \A u \in Threads : u # t => Locks(u)' = Locks(u)
  BY DEF Locks, Top, Last, Holds
<1>3. CASE ~Top(t).guarded
  <2>1. UNCHANGED lock /\ \A u \in Threads : Locks(u)' = Locks(u)
    BY <1>2, <1>3 DEF Unguard
  <2> QED BY <2>1 DEF GuardInv, LockInv, Slots
<1>4. CASE Top(t).guarded
  <2> DEFINE n == Len(frames[t])
  <2>1. Locks(t) = n /\ Locks(t)' = n - 1
    BY <1>1, <1>4 DEF Locks, Holds, At
  <2>2. lock[s] = [owner |-> t, depth |-> n]
    BY <1>1, <2>1 DEF GuardInv, LockInv
  <2>3. /\ lock'[s] = [owner |-> t, depth |-> n - 1]
        /\ \A r \in Slots : r # s => lock'[r] = lock[r]
    BY <1>1, <1>4, <2>2 DEF Unguard, GuardInv, Shape
  <2>4. ASSUME NEW u \in Threads, Locks(u)' > 0
        PROVE  lock'[get_per_thread(u)] = [owner |-> u, depth |-> Locks(u)']
    <3>1. CASE u = t
      BY <2>1, <2>3, <3>1
    <3>2. CASE u # t
      <4>1. Locks(u) > 0 /\ Locks(t) > 0
        BY <1>1, <1>2, <2>1, <2>4, <3>2
      <4>2. get_per_thread(u) # s /\ get_per_thread(u) \in Slots
        BY <3>2, <4>1, OneOwner, SlotOf
      <4> QED BY <1>2, <2>3, <3>2, <4>1, <4>2 DEF GuardInv, LockInv
    <3> QED BY <3>1, <3>2
  <2>5. ASSUME ended # Threads, NEW r \in Slots, lock'[r].depth > 0
        PROVE  \E u \in Threads :
                  get_per_thread(u) = r /\ lock'[r] = [owner |-> u, depth |-> Locks(u)']
    <3>1. CASE r = s
      BY <2>1, <2>3, <3>1
    <3>2. CASE r # s
      <4>1. PICK u \in Threads :
               get_per_thread(u) = r /\ lock[r] = [owner |-> u, depth |-> Locks(u)]
        BY <2>3, <2>5, <3>2 DEF GuardInv, LockInv
      <4> QED BY <1>2, <2>3, <3>2, <4>1
    <3> QED BY <3>1, <3>2
  <2> QED BY <2>4, <2>5 DEF LockInv, Slots
<1> QED BY <1>3, <1>4

(* The flags after a guard is left.                                        *)
LEMMA Unflags ==
    ASSUME GuardInv, NEW t \in Threads, At(t, "leave"), Unguard(t),
           \A u \in Threads : u # t => frames'[u] = frames[u],
           \A i \in 1 .. Len(frames'[t]) :
              frames'[t][i].was_enable => ~Top(t).was_enable /\ Len(frames[t]) = 2
                                          /\ i = 1 /\ frames[t][1].was_enable
    PROVE  FlagInv'
<1> DEFINE s == get_per_thread(t)
<1>1. /\ s \in Slots /\ frames[t] # <<>> /\ Top(t) \in Frame /\ WellFormed(Top(t))
      /\ Top(t) = frames[t][Len(frames[t])] /\ Len(frames[t]) \in {1, 2}
  BY SlotOf, TopFrame DEF At
<1>2. CASE ~Top(t).guarded
  <2>1. UNCHANGED enable
    BY <1>2 DEF Unguard
  <2> QED BY <2>1 DEF GuardInv, FlagInv
<1>3. CASE Top(t).guarded
  <2>1. enable' = [enable EXCEPT ![s] = Top(t).was_enable]
    BY <1>3 DEF Unguard
  <2>2. ASSUME NEW u \in Threads, u # t, NEW i \in 1 .. Len(frames[u]),
               frames[u][i].was_enable
        PROVE  get_per_thread(u) # s
    <3>1. Locks(u) > 0
      BY <2>2, SavedHolds, HolderIsOwner
    <3>2. Locks(t) > 0
      BY <1>1, <1>3 DEF Locks, Holds, At
    <3> QED BY <2>2, <3>1, <3>2, OneOwner
  <2> QED BY <1>1, <2>1, <2>2 DEF GuardInv, FlagInv, Shape, Frame
<1> QED BY <1>2, <1>3

(* The destructor of the guard leaves flags and mutexes with values of      *)
(* theirs.                                                                  *)
LEMMA UnguardShape ==
    ASSUME GuardInv, NEW t \in Threads, At(t, "leave"), Unguard(t)
    PROVE  /\ enable' \in [Slots -> BOOLEAN]
           /\ lock' \in [Slots -> [owner : Threads \cup {0}, depth : Nat]]
<1> DEFINE s == get_per_thread(t)
<1>1. s \in Slots /\ frames[t] # <<>> /\ Top(t) \in Frame /\ Len(frames[t]) \in {1, 2}
  BY SlotOf, TopFrame DEF At
<1>2. CASE ~Top(t).guarded
  BY <1>2 DEF Unguard, GuardInv, Shape
<1>3. CASE Top(t).guarded
  <2>1. Locks(t) = Len(frames[t]) /\ Locks(t) > 0
    BY <1>1, <1>3 DEF Locks, Holds, At
  <2>2. lock[s] = [owner |-> t, depth |-> Len(frames[t])]
    BY <2>1 DEF GuardInv, LockInv
  <2>3. lock' = [lock EXCEPT ![s].depth = Len(frames[t]) - 1] /\ Len(frames[t]) - 1 \in Nat
    BY <1>1, <1>3, <2>2 DEF Unguard, GuardInv, Shape
  <2> HIDE DEF s
  <2>4. lock' \in [Slots -> [owner : Threads \cup {0}, depth : Nat]]
    BY <1>1, <2>3 DEF GuardInv, Shape
  <2>5. enable' \in [Slots -> BOOLEAN]
    BY <1>1, <1>3 DEF Unguard, GuardInv, Shape, Frame, s
  <2> QED BY <2>4, <2>5
<1> QED BY <1>2, <1>3

(* A call returns to the program.                                          *)
LEMMA ReturnInv ==
    ASSUME GuardInv, NEW t \in Threads, Return(t)
    PROVE  GuardInv'
<1>1. /\ At(t, "leave") /\ Unguard(t) /\ Len(frames[t]) = 1 /\ frames[t] # <<>>
      /\ UNCHANGED <<phase, ended>>
  BY DEF Return, At
<1>2. /\ frames'[t] = <<>> /\ \A u \in Threads : u # t => frames'[u] = frames[u]
      /\ frames' \in [Threads -> Seq(Frame)] /\ Len(frames'[t]) = 0
  BY DEF Return, GuardInv, Shape
<1>3. Shape'
  BY <1>1, <1>2, UnguardShape DEF GuardInv, Shape
<1>4. Stacks'
  BY <1>1, <1>2 DEF GuardInv, Stacks, global
<1>5. Locks(t)' = IF Top(t).guarded THEN Locks(t) - 1 ELSE Locks(t)
  BY <1>1, <1>2 DEF Locks, Holds, At
<1>6. LockInv'
  BY <1>1, <1>2, <1>5, Unlocks
<1>7. FlagInv'
  BY <1>1, <1>2, Unflags
<1> QED BY <1>3, <1>4, <1>6, <1>7 DEF GuardInv

(* An allocation inside push_back returns, and the first frame goes on.    *)
LEMMA InnerReturnInv ==
    ASSUME GuardInv, NEW t \in Threads, At(t, "leave"), Unguard(t), Len(frames[t]) > 1,
           NEW h \in Frame, WellFormed(h), h.was_enable = frames[t][1].was_enable,
           h.guarded = frames[t][1].guarded, h.pc # "lock",
           frames' = [frames EXCEPT ![t] = <<h>>], UNCHANGED <<phase, ended>>
    PROVE  GuardInv'
<1>1. /\ Len(frames[t]) = 2 /\ frames[t] # <<>> /\ t \notin ended
      /\ Top(t) = frames[t][2] /\ Top(t).pc = "leave"
      /\ Top(t).guarded /\ ~Top(t).was_enable
      /\ frames[t][1].guarded => global
      /\ frames[t][1].guarded
  <2>1. frames[t] # <<>>
    BY DEF At
  <2>2. /\ Len(frames[t]) \in {1, 2} /\ Top(t) = frames[t][Len(frames[t])] /\ t \notin ended
    BY <2>1, TopFrame
  <2>3. Len(frames[t]) = 2
    BY <2>2
  <2> QED BY <2>1, <2>2, <2>3 DEF At, GuardInv, Stacks, WellFormed
<1>2. /\ frames'[t] = <<h>> /\ Len(frames'[t]) = 1 /\ frames'[t][1] = h
      /\ \A u \in Threads : u # t => frames'[u] = frames[u]
      /\ frames' \in [Threads -> Seq(Frame)]
  BY DEF GuardInv, Shape
<1>3. Shape'
  BY <1>2, UnguardShape DEF GuardInv, Shape
<1>4. Stacks'
  <2> SUFFICES ASSUME NEW u \in Threads
               PROVE  /\ Len(frames'[u]) <= 2
                      /\ u \in ended => frames'[u] = <<>>
                      /\ \A i \in 1 .. Len(frames'[u]) :
                            WellFormed(frames'[u][i]) /\ (frames'[u][i].guarded => global)
                      /\ Len(frames'[u]) = 2 =>
                            /\ frames'[u][1].pc = "append"
                            /\ frames'[u][2].guarded /\ ~frames'[u][2].was_enable
                            /\ frames'[u][2].hook = "new"
    BY DEF Stacks, WellFormed, global
  <2>1. CASE u = t
    BY <1>1, <1>2, <2>1
  <2>2. CASE u # t
    BY <1>2, <2>2 DEF GuardInv, Stacks
  <2> QED BY <2>1, <2>2
<1>5. Locks(t) = 2 /\ Locks(t)' = 1
  <2>1. Locks(t) = 2
    BY <1>1 DEF Locks, Holds
  <2>2. Top(t)' = h /\ Holds(h)
    BY <1>1, <1>2 DEF Top, Last, Holds
  <2>3. Holds(Top(t))'
    BY <2>2 DEF Holds
  <2> QED BY <1>2, <2>1, <2>3 DEF Locks
<1>6. LockInv'
  BY <1>1, <1>2, <1>5, Unlocks
<1>7. FlagInv'
  BY <1>1, <1>2, Unflags
<1> QED BY <1>3, <1>4, <1>6, <1>7 DEF GuardInv

-------------------------------------------------------------------------------
(* What each step of a call does to the frame on top.                      *)

(* Between lock and unlock Advance changes nothing of a frame but its step. *)
LEMMA FrameMoves ==
    ASSUME NEW f \in Frame, f.pc \notin {"lock", "leave"}, f.was_enable => f.guarded,
           f.hook \in News => f.pc # "free",
           f.hook \notin News => f.pc # "malloc" /\ f.ptr # nullptr,
           f.pc \in {"stamp", "append"} => f.was_enable /\ f.ptr # nullptr
    PROVE  LET g == Advance(f)
           IN  /\ g \in Frame /\ WellFormed(g) /\ g.pc # "lock" /\ StepsTo(f, g.pc)
               /\ g.hook = f.hook /\ g.ptr = f.ptr /\ g.guarded = f.guarded
               /\ g.was_enable = f.was_enable /\ g.time = f.time
<1>1. PICK pc \in {"malloc", "stamp", "append", "free", "leave"} :
         Advance(f) = [f EXCEPT !.pc = pc] /\ StepsTo(f, pc)
  BY Advances
<1>2. WellFormed([f EXCEPT !.pc = pc])
  BY <1>1 DEF StepsTo, WellFormed, Frame
<1> QED BY <1>1, <1>2 DEF Frame

(* The frame of t that is on top becomes g.                                *)
Becomes(t, g) ==
    /\ g \in Frame /\ WellFormed(g) /\ g.pc # "lock" /\ SetTop(t, g)
    /\ g.hook = Top(t).hook /\ g.guarded = Top(t).guarded
    /\ g.was_enable = Top(t).was_enable

(* malloc returns a new block or null; a record is made of a block only,    *)
(* and only if the guard found the flag set.                                *)
LEMMA MallocEffect ==
    ASSUME GuardInv, NEW t \in Threads, Malloc(t)
    PROVE  \E p \in (Addresses \ heap) \cup {nullptr}, g \in Frame :
              /\ heap' = heap \cup ({p} \ {nullptr})
              /\ Becomes(t, g) /\ g.ptr = p
              /\ g.pc = IF g.was_enable /\ p # nullptr THEN "stamp" ELSE "leave"
<1>1. Top(t) \in Frame /\ WellFormed(Top(t)) /\ Top(t).pc = "malloc"
  BY TopFrame DEF Malloc, At
<1>2. PICK p \in (Addresses \ heap) \cup {nullptr} :
         /\ heap' = heap \cup ({p} \ {nullptr})
         /\ SetTop(t, Advance([Top(t) EXCEPT !.ptr = p]))
  BY DEF Malloc
<1> DEFINE f == [Top(t) EXCEPT !.ptr = p]
<1>3. /\ f \in Frame /\ f.pc = "malloc" /\ f.ptr = p /\ f.hook = Top(t).hook
      /\ f.guarded = Top(t).guarded /\ f.was_enable = Top(t).was_enable
  BY <1>1 DEF Frame
<1>4. f.hook \in News /\ (f.was_enable => f.guarded)
  BY <1>1, <1>3 DEF WellFormed
<1>5. SetTop(t, Advance(f))
  BY <1>2
<1> HIDE DEF f
<1>6. /\ Advance(f) \in Frame /\ WellFormed(Advance(f)) /\ Advance(f).pc # "lock"
      /\ Advance(f).hook = f.hook /\ Advance(f).ptr = f.ptr
      /\ Advance(f).guarded = f.guarded /\ Advance(f).was_enable = f.was_enable
      /\ StepsTo(f, Advance(f).pc)
  BY <1>3, <1>4, FrameMoves
<1>7. Becomes(t, Advance(f))
  BY <1>3, <1>5, <1>6 DEF Becomes
<1> QED BY <1>2, <1>3, <1>6, <1>7 DEF StepsTo

(* The clock is read just before the record is appended.                    *)
LEMMA StampEffect ==
    ASSUME GuardInv, NEW t \in Threads, NEW now \in Nat, clock + 1 = now, Stamp(t)
    PROVE  \E g \in Frame :
              /\ Becomes(t, g) /\ g.ptr = Top(t).ptr /\ g.time = now /\ g.pc = "append"
<1>1. Top(t) \in Frame /\ WellFormed(Top(t)) /\ Top(t).pc = "stamp"
  BY TopFrame DEF Stamp, At
<1> DEFINE f == [Top(t) EXCEPT !.time = now]
<1>2. /\ f \in Frame /\ f.pc = "stamp" /\ f.ptr = Top(t).ptr /\ f.hook = Top(t).hook
      /\ f.guarded = Top(t).guarded /\ f.was_enable = Top(t).was_enable /\ f.time = now
  BY <1>1 DEF Frame
<1>3. f.was_enable /\ f.guarded /\ f.ptr # nullptr
  BY <1>1, <1>2 DEF WellFormed
<1>4. SetTop(t, Advance(f))
  BY DEF Stamp
<1> HIDE DEF f
<1>5. /\ Advance(f) \in Frame /\ WellFormed(Advance(f)) /\ Advance(f).pc # "lock"
      /\ Advance(f).hook = f.hook /\ Advance(f).ptr = f.ptr
      /\ Advance(f).guarded = f.guarded /\ Advance(f).was_enable = f.was_enable
      /\ Advance(f).time = f.time /\ StepsTo(f, Advance(f).pc)
  BY <1>2, <1>3, FrameMoves
<1>6. Becomes(t, Advance(f))
  BY <1>2, <1>4, <1>5 DEF Becomes
<1> QED BY <1>2, <1>3, <1>5, <1>6 DEF StepsTo

(* After its record, operator new returns and operator delete frees.        *)
LEMMA PushBackEffect ==
    ASSUME GuardInv, NEW t \in Threads, PushBack(t)
    PROVE  \E g \in Frame :
              /\ Becomes(t, g) /\ g.ptr = Top(t).ptr /\ g.time = Top(t).time
              /\ g.pc = IF g.hook \in News THEN "leave" ELSE "free"
<1>1. Top(t) \in Frame /\ WellFormed(Top(t)) /\ Top(t).pc = "append"
  BY TopFrame DEF PushBack, At
<1>2. /\ Advance(Top(t)) \in Frame /\ WellFormed(Advance(Top(t))) /\ Advance(Top(t)).pc # "lock"
      /\ Advance(Top(t)).hook = Top(t).hook /\ Advance(Top(t)).ptr = Top(t).ptr
      /\ Advance(Top(t)).guarded = Top(t).guarded
      /\ Advance(Top(t)).was_enable = Top(t).was_enable
      /\ Advance(Top(t)).time = Top(t).time /\ StepsTo(Top(t), Advance(Top(t)).pc)
  BY <1>1, FrameMoves DEF WellFormed
<1>3. Becomes(t, Advance(Top(t)))
  BY <1>2 DEF Becomes, PushBack
<1> QED BY <1>1, <1>2, <1>3 DEF StepsTo

(* Only operator delete frees.                                              *)
LEMMA FreeEffect ==
    ASSUME GuardInv, NEW t \in Threads, Free(t)
    PROVE  \E g \in Frame :
              /\ Becomes(t, g) /\ g.ptr = Top(t).ptr /\ g.hook \notin News /\ g.pc = "leave"
<1>1. Top(t) \in Frame /\ WellFormed(Top(t)) /\ Top(t).pc = "free"
  BY TopFrame DEF Free, At
<1>2. /\ Advance(Top(t)) \in Frame /\ WellFormed(Advance(Top(t))) /\ Advance(Top(t)).pc # "lock"
      /\ Advance(Top(t)).hook = Top(t).hook /\ Advance(Top(t)).ptr = Top(t).ptr
      /\ Advance(Top(t)).guarded = Top(t).guarded
      /\ Advance(Top(t)).was_enable = Top(t).was_enable
      /\ StepsTo(Top(t), Advance(Top(t)).pc)
  BY <1>1, FrameMoves DEF WellFormed
<1>3. Becomes(t, Advance(Top(t)))
  BY <1>2 DEF Becomes, Free
<1> QED BY <1>1, <1>2, <1>3 DEF StepsTo, WellFormed

(* These steps change the frame on top and no guard.                        *)
LEMMA TopBecomes ==
    ASSUME GuardInv, clock \in Nat, NEW t \in Threads,
           Malloc(t) \/ Stamp(t) \/ PushBack(t) \/ Free(t)
    PROVE  /\ frames[t] # <<>> /\ Top(t).pc # "lock" /\ Top(t).pc # "leave"
           /\ \E g \in Frame : Becomes(t, g)
<1>1. frames[t] # <<>> /\ Top(t).pc # "lock" /\ Top(t).pc # "leave"
  BY DEF Malloc, Stamp, PushBack, Free, At
<1>2. CASE Malloc(t)
  BY <1>1, <1>2, MallocEffect
<1>3. CASE Stamp(t)
  BY <1>1, <1>3, StampEffect
<1>4. CASE PushBack(t)
  BY <1>1, <1>4, PushBackEffect
<1>5. CASE Free(t)
  BY <1>1, <1>5, FreeEffect
<1> QED BY <1>2, <1>3, <1>4, <1>5

(* Where the frames of all threads are after a step of the one on top.     *)
LEMMA FramesAfter ==
    ASSUME GuardInv, NEW t \in Threads, frames[t] # <<>>, NEW g \in Frame, SetTop(t, g)
    PROVE  /\ frames'[t] \in Seq(Frame) /\ Len(frames'[t]) = Len(frames[t])
           /\ Len(frames[t]) \in {1, 2}
           /\ frames'[t][Len(frames[t])] = g /\ Top(t)' = g
           /\ \A i \in 1 .. Len(frames[t]) : i # Len(frames[t]) => frames'[t][i] = frames[t][i]
           /\ \A u \in Threads : u # t => frames'[u] = frames[u]
<1>1. Len(frames[t]) \in {1, 2} /\ frames[t] \in Seq(Frame)
  BY TopFrame DEF GuardInv, Shape
<1>2. frames'[t] = [frames[t] EXCEPT ![Len(frames[t])] = g]
      /\ \A u \in Threads : u # t => frames'[u] = frames[u]
  BY DEF SetTop, GuardInv, Shape
<1> QED BY <1>1, <1>2 DEF Top, Last

-------------------------------------------------------------------------------
(* The guards are in order at the start.                                    *)
LEMMA GuardInit == Init => GuardInv
<1> SUFFICES ASSUME Init PROVE GuardInv
  OBVIOUS
<1>1. \A t \in Threads : frames[t] = <<>> /\ Len(frames[t]) = 0 /\ Locks(t) = 0
  BY DEF Init, Locks
<1>2. Shape
  BY DEF Init, Shape, Phases
<1> QED BY <1>1, <1>2 DEF Init, GuardInv, Stacks, LockInv, FlagInv

(* Where the blocks of the program come from.                              *)
HeldTyped == \A b \in held : b.ptr \in Addresses /\ b.by \in News

(* A call of the program begins.                                           *)
LEMMA CallNewInv ==
    ASSUME GuardInv, NEW t \in Threads, CallNew(t)
    PROVE  /\ GuardInv'
           /\ \E f \in Frame :
                 /\ frames' = [frames EXCEPT ![t] = <<f>>]
                 /\ f.ptr = nullptr /\ f.hook \in News /\ ~f.was_enable
                 /\ f.guarded = global /\ f.pc = IF global THEN "lock" ELSE "malloc"
<1>1. PICK new \in News : frames' = [frames EXCEPT ![t] = <<NewFrame(new, nullptr)>>]
  BY DEF CallNew
<1> DEFINE f == NewFrame(new, nullptr)
<1>2. /\ f \in Frame /\ WellFormed(f) /\ f.guarded = global /\ ~f.was_enable
      /\ f.guarded <=> f.pc = "lock"
      /\ f.ptr = nullptr /\ f.hook \in News
      /\ f.pc \in {"lock", "malloc", "free"}
  BY FrameBegins DEF GuardInv, Hooks
<1>3. frames' = [frames EXCEPT ![t] = <<f>>]
  BY <1>1
<1> HIDE DEF f
<1>4. GuardInv'
  BY <1>2, <1>3, CallBegins DEF CallNew, MayCall, recorder
<1>5. f.pc = IF global THEN "lock" ELSE "malloc"
  BY <1>2 DEF WellFormed, global
<1> QED BY <1>2, <1>3, <1>4, <1>5

(* A call of operator delete takes its block from the program.              *)
LEMMA CallDeleteInv ==
    ASSUME GuardInv, HeldTyped, NEW t \in Threads, CallDelete(t)
    PROVE  /\ GuardInv'
           /\ \E b \in held, f \in Frame :
                 /\ held' = held \ {b}
                 /\ frames' = [frames EXCEPT ![t] = <<f>>]
                 /\ f.ptr = b.ptr /\ f.hook = DeleteFor(b.by) /\ f.hook \notin News
                 /\ ~f.was_enable /\ f.guarded = global
                 /\ f.pc = IF global THEN "lock" ELSE "free"
<1>1. PICK b \in held :
         /\ held' = held \ {b}
         /\ frames' = [frames EXCEPT ![t] = <<NewFrame(DeleteFor(b.by), b.ptr)>>]
  BY DEF CallDelete
<1> DEFINE f == NewFrame(DeleteFor(b.by), b.ptr)
<1>2. /\ DeleteFor(b.by) \in Hooks /\ DeleteFor(b.by) \notin News
      /\ b.ptr \in Addresses \cup {nullptr} /\ b.ptr # nullptr
  BY ThreadsAssumption DEF HeldTyped, DeleteFor, Hooks, News
<1>3. /\ f \in Frame /\ WellFormed(f) /\ f.guarded = global /\ ~f.was_enable
      /\ f.guarded <=> f.pc = "lock"
      /\ f.ptr = b.ptr /\ f.hook = DeleteFor(b.by)
      /\ f.pc \in {"lock", "malloc", "free"}
  BY <1>2, FrameBegins DEF GuardInv
<1>4. frames' = [frames EXCEPT ![t] = <<f>>]
  BY <1>1
<1> HIDE DEF f
<1>5. GuardInv'
  BY <1>3, <1>4, CallBegins DEF CallDelete, MayCall, recorder
<1>6. f.pc = IF global THEN "lock" ELSE "free"
  BY <1>2, <1>3 DEF WellFormed, global
<1> QED BY <1>1, <1>2, <1>3, <1>4, <1>5, <1>6

(* The guards stay in order while the frame on top goes on.                 *)
LEMMA BecomesInv ==
    ASSUME GuardInv, NEW t \in Threads, frames[t] # <<>>, Top(t).pc # "lock",
           NEW g \in Frame, Becomes(t, g), UNCHANGED <<phase, enable, lock, ended>>
    PROVE  GuardInv'
BY TopMoves DEF Becomes

(* They do in each step between lock and unlock.                            *)
LEMMA ProceedsInv ==
    ASSUME GuardInv, clock \in Nat, NEW t \in Threads,
           Malloc(t) \/ Stamp(t) \/ PushBack(t) \/ Free(t)
    PROVE  GuardInv'
<1>1. frames[t] # <<>> /\ Top(t).pc # "lock" /\ UNCHANGED <<phase, enable, lock, ended>>
  BY DEF Malloc, Stamp, PushBack, Free, At, recorder
<1>2. \E g \in Frame : Becomes(t, g)
  BY TopBecomes
<1> QED BY <1>1, <1>2, BecomesInv

(* Where push_back is at work, and an allocation in it.                    *)
LEMMA Nested ==
    ASSUME GuardInv, NEW t \in Threads, At(t, "leave"), Len(frames[t]) > 1
    PROVE  /\ Len(frames[t]) = 2 /\ t \notin ended /\ Top(t) = frames[t][2]
           /\ frames[t][1] \in Frame /\ frames[t][2] \in Frame
           /\ WellFormed(frames[t][1]) /\ frames[t][1].pc = "append"
           /\ WellFormed(frames[t][2]) /\ frames[t][2].hook = "new"
           /\ frames[t][2].pc = "leave"
           /\ Front(frames[t]) = <<frames[t][1]>>
<1>1. /\ Len(frames[t]) = 2 /\ t \notin ended /\ Top(t) = frames[t][2]
      /\ frames[t] \in Seq(Frame) /\ frames[t] # <<>>
  <2>1. /\ Len(frames[t]) \in {1, 2} /\ Top(t) = frames[t][Len(frames[t])]
        /\ t \notin ended /\ frames[t] # <<>>
    BY TopFrame DEF At
  <2>2. Len(frames[t]) = 2
    BY <2>1
  <2> QED BY <2>1, <2>2 DEF GuardInv, Shape
<1>2. Front(frames[t]) = <<frames[t][1]>>
  <2>1. Front(frames[t]) = SubSeq(frames[t], 1, 1)
    BY <1>1 DEF Front
  <2>2. frames[t][1] \in Frame
    BY <1>1
  <2>3. /\ SubSeq(frames[t], 1, 1) \in Seq(Frame) /\ Len(SubSeq(frames[t], 1, 1)) = 1
        /\ SubSeq(frames[t], 1, 1)[1] = frames[t][1]
    BY <2>2, SubSeqProperties
  <2>4. /\ <<frames[t][1]>> \in Seq(Frame) /\ Len(<<frames[t][1]>>) = 1
        /\ <<frames[t][1]>>[1] = frames[t][1]
    BY <2>2
  <2> DEFINE x == SubSeq(frames[t], 1, 1)
             y == <<frames[t][1]>>
  <2>5. x \in Seq(Frame) /\ y \in Seq(Frame) /\ Len(x) = Len(y) /\ Len(x) = 1
        /\ x[1] = y[1]
    BY <2>3, <2>4
  <2> HIDE DEF x, y
  <2>6. \A i \in 1 .. Len(x) : x[i] = y[i]
    BY <2>5
  <2>7. x = y
    BY <2>5, <2>6, SeqEqual
  <2> QED BY <2>1, <2>7 DEF x, y
<1> QED BY <1>1, <1>2 DEF GuardInv, Stacks, At

(* The allocation inside push_back returns its block to the pool.           *)
LEMMA ReturnToPushInv ==
    ASSUME GuardInv, NEW t \in Threads, ReturnToPush(t)
    PROVE  /\ GuardInv'
           /\ frames' = [frames EXCEPT ![t] = <<frames[t][1]>>]
           /\ pool' = pool \cup {frames[t][2].ptr}
<1>1. At(t, "leave") /\ Len(frames[t]) > 1 /\ Unguard(t)
  BY DEF ReturnToPush
<1> DEFINE h == frames[t][1]
<1>2. h \in Frame /\ WellFormed(h) /\ h.pc # "lock"
  BY <1>1, Nested
<1>3. frames' = [frames EXCEPT ![t] = <<h>>] /\ pool' = pool \cup {frames[t][2].ptr}
  BY <1>1, Nested DEF ReturnToPush
<1> HIDE DEF h
<1>4. h.was_enable = frames[t][1].was_enable /\ h.guarded = frames[t][1].guarded
  BY DEF h
<1>5. GuardInv'
  BY <1>1, <1>2, <1>3, <1>4, InnerReturnInv DEF ReturnToPush
<1> QED BY <1>3, <1>5 DEF h

(* The exception leaves the guard of the inner call, and the outer call     *)
(* goes to its own.                                                         *)
LEMMA ThrowFromPushInv ==
    ASSUME GuardInv, NEW t \in Threads, ThrowFromPush(t)
    PROVE  /\ GuardInv'
           /\ \E h \in Frame :
                 /\ frames' = [frames EXCEPT ![t] = <<h>>]
                 /\ h.ptr = nullptr /\ h.pc = "leave" /\ h.hook = frames[t][1].hook
                 /\ h.hook \in News /\ h.guarded = frames[t][1].guarded
                 /\ h.was_enable = frames[t][1].was_enable
<1>1. At(t, "leave") /\ Len(frames[t]) > 1 /\ Unguard(t)
  BY DEF ThrowFromPush
<1>2. /\ frames[t][1] \in Frame /\ WellFormed(frames[t][1])
      /\ Front(frames[t]) = <<frames[t][1]>>
  BY <1>1, Nested
<1> DEFINE h == [frames[t][1] EXCEPT !.ptr = nullptr, !.pc = "leave"]
<1>3. /\ h \in Frame /\ h.pc = "leave" /\ h.ptr = nullptr
      /\ h.hook = frames[t][1].hook /\ h.guarded = frames[t][1].guarded
      /\ h.was_enable = frames[t][1].was_enable
  BY <1>2 DEF Frame
<1>4. frames[t][1].hook \in News
  BY <1>2 DEF ThrowFromPush
<1>5. frames' = [frames EXCEPT ![t] = <<h>>]
  <2>1. frames' = [frames EXCEPT ![t] = <<Unwound(frames[t][1])>>]
    BY DEF ThrowFromPush, GuardInv, Shape
  <2> QED BY <2>1 DEF Unwound
<1> HIDE DEF h
<1>6. WellFormed(h)
  BY <1>2, <1>3, <1>4 DEF WellFormed
<1>7. GuardInv'
  BY <1>1, <1>3, <1>5, <1>6, InnerReturnInv DEF ThrowFromPush
<1> QED BY <1>3, <1>4, <1>5, <1>7

(* std::terminate ends every call.                                          *)
LEMMA TerminateInv ==
    ASSUME GuardInv, NEW t \in Threads, Terminate(t)
    PROVE  GuardInv'
<1>1. /\ \A u \in Threads : frames'[u] = <<>> /\ Len(frames'[u]) = 0
      /\ ended' = Threads /\ UNCHANGED <<phase, enable, lock>>
      /\ frames' \in [Threads -> Seq(Frame)]
  BY DEF Terminate, recorder
<1>2. \A u \in Threads : Locks(u)' = 0
  BY <1>1 DEF Locks
<1>3. Shape'
  BY <1>1 DEF GuardInv, Shape
<1>4. Stacks'
  BY <1>1 DEF Stacks
<1>5. LockInv'
  BY <1>1, <1>2 DEF LockInv
<1>6. FlagInv'
  BY <1>1 DEF FlagInv
<1> QED BY <1>3, <1>4, <1>5, <1>6 DEF GuardInv

(* A thread ends outside of calls.                                          *)
LEMMA ThreadEndInv ==
    ASSUME GuardInv, NEW t \in Threads, ThreadEnd(t)
    PROVE  GuardInv'
<1>1. /\ frames[t] = <<>> /\ ended' = ended \cup {t} /\ t \notin ended
      /\ UNCHANGED <<phase, enable, lock, frames>>
  BY DEF ThreadEnd, recorder
<1>2. \A u \in Threads : Locks(u)' = Locks(u)
  BY <1>1 DEF Locks, Top, Last, Holds
<1>3. LockInv'
  BY <1>1, <1>2 DEF GuardInv, Shape, LockInv, Slots
<1>4. Shape' /\ Stacks' /\ FlagInv'
  BY <1>1 DEF GuardInv, Shape, Stacks, FlagInv, global
<1> QED BY <1>3, <1>4 DEF GuardInv

(* The recorder is constructed and destroyed: no guard has a flag saved    *)
(* before there is one.                                                    *)
LEMMA ConstructInv ==
    ASSUME GuardInv, Construct
    PROVE  GuardInv'
<1>1. /\ phase = "static" /\ phase' = "running" /\ enable' = [s \in Slots |-> TRUE]
      /\ UNCHANGED <<lock, frames, ended>>
  BY DEF Construct
<1>2. \A t \in Threads : Locks(t)' = Locks(t)
  BY <1>1 DEF Locks, Top, Last, Holds
<1>3. LockInv'
  BY <1>1, <1>2 DEF GuardInv, LockInv, Slots
<1>4. \A t \in Threads : \A i \in 1 .. Len(frames[t]) :
         ~frames[t][i].guarded /\ ~frames[t][i].was_enable
  BY <1>1 DEF GuardInv, Stacks, WellFormed, global
<1>5. Shape'
  BY <1>1 DEF GuardInv, Shape, Phases
<1>6. Stacks'
  BY <1>1, <1>4 DEF GuardInv, Stacks
<1>7. FlagInv'
  BY <1>1, <1>4 DEF FlagInv
<1> QED BY <1>3, <1>5, <1>6, <1>7 DEF GuardInv

(* Its end leaves the guards as they are; flags are only cleared.           *)
LEMMA EndOfRecorderInv ==
    ASSUME GuardInv, Shutdown \/ Destroy
    PROVE  GuardInv'
<1>1. /\ phase \in {"running", "copying"} /\ phase' \in {"copying", "destroyed"}
      /\ enable' = enable \/ enable' = [s \in Slots |-> FALSE]
      /\ UNCHANGED <<lock, frames, ended>>
  BY DEF Shutdown, Destroy
<1>2. \A t \in Threads : Locks(t)' = Locks(t)
  BY <1>1 DEF Locks, Top, Last, Holds
<1>3. LockInv'
  BY <1>1, <1>2 DEF GuardInv, LockInv, Slots
<1>4. Shape'
  BY <1>1 DEF GuardInv, Shape, Phases
<1>5. Stacks'
  BY <1>1 DEF GuardInv, Stacks, global
<1>6. FlagInv'
  <2>1. \A t \in Threads : get_per_thread(t) \in Slots
    BY SlotOf
  <2> QED BY <1>1, <2>1 DEF GuardInv, FlagInv
<1> QED BY <1>3, <1>4, <1>5, <1>6 DEF GuardInv

(* Every step keeps the guards in order.                                    *)
LEMMA GuardNext ==
    ASSUME GuardInv, HeldTyped, clock \in Nat, [Next]_vars
    PROVE  GuardInv'
<1>1. CASE Construct
  BY <1>1, ConstructInv
<1>2. CASE Shutdown \/ Destroy
  BY <1>2, EndOfRecorderInv
<1>3. CASE UNCHANGED vars
  <2>1. UNCHANGED <<phase, enable, lock, frames, ended>>
    BY <1>3 DEF vars
  <2>2. \A t \in Threads : Locks(t)' = Locks(t)
    BY <2>1 DEF Locks, Top, Last, Holds
  <2> QED BY <2>1, <2>2 DEF GuardInv, Shape, Stacks, LockInv, FlagInv, global
<1>4. ASSUME NEW t \in Threads, CallNew(t) PROVE GuardInv'
  BY <1>4, CallNewInv
<1>5. ASSUME NEW t \in Threads, CallDelete(t) PROVE GuardInv'
  BY <1>5, CallDeleteInv
<1>6. ASSUME NEW t \in Threads, Lock(t) PROVE GuardInv'
  BY <1>6, LockInvNext
<1>7. ASSUME NEW t \in Threads, Malloc(t) \/ Stamp(t) \/ PushBack(t) \/ Free(t)
      PROVE  GuardInv'
  BY <1>7, ProceedsInv
<1>8. ASSUME NEW t \in Threads, PushAllocates(t) PROVE GuardInv'
  BY <1>8, PushBegins
<1>9. ASSUME NEW t \in Threads, Return(t) PROVE GuardInv'
  BY <1>9, ReturnInv
<1>10. ASSUME NEW t \in Threads, ReturnToPush(t) \/ ThrowFromPush(t) PROVE GuardInv'
  BY <1>10, ReturnToPushInv, ThrowFromPushInv
<1>11. ASSUME NEW t \in Threads, Terminate(t) \/ ThreadEnd(t) PROVE GuardInv'
  BY <1>11, TerminateInv, ThreadEndInv
<1> QED
  BY <1>1, <1>2, <1>3, <1>4, <1>5, <1>6, <1>7, <1>8, <1>9, <1>10, <1>11
     DEF Next, Proceed, Elsewhere

-------------------------------------------------------------------------------
(* Who has which block.                                                    *)

(* There are no blocks at the start.                                        *)
LEMMA OwnInit == Init => OwnInv
BY DEF Init, OwnInv

(* What the program has is blocks of operator new.                          *)
LEMMA HeldAreTyped == OwnInv => HeldTyped
BY DEF OwnInv, HeldTyped

(* No block changes hands unless a frame takes one.                        *)
LEMMA NoneTaken ==
    ASSUME OwnInv, UNCHANGED <<heap, held, pool>>,
           \A u \in Threads : \A j \in 1 .. Len(frames'[u]) : \A p \in Addresses :
              Carries(frames'[u][j], p) =>
                 j \in 1 .. Len(frames[u]) /\ Carries(frames[u][j], p)
    PROVE  OwnInv'
BY DEF OwnInv

(* The frame on top goes on with its block.                                *)
LEMMA TopKeepsBlock ==
    ASSUME GuardInv, OwnInv, UNCHANGED <<heap, held, pool>>,
           NEW t \in Threads, frames[t] # <<>>, NEW g \in Frame, SetTop(t, g),
           g.ptr = Top(t).ptr, g.hook = Top(t).hook, Top(t).pc # "leave"
    PROVE  OwnInv'
<1> DEFINE n == Len(frames[t])
<1>1. /\ Len(frames'[t]) = n /\ n \in {1, 2} /\ frames'[t][n] = g
      /\ \A i \in 1 .. n : i # n => frames'[t][i] = frames[t][i]
      /\ \A u \in Threads : u # t => frames'[u] = frames[u]
  BY FramesAfter
<1>2. Top(t) = frames[t][n]
  BY TopFrame
<1>3. \A p \in Addresses : Carries(g, p) => Carries(frames[t][n], p)
  BY <1>2 DEF Carries
<1> HIDE DEF n
<1>4. \A u \in Threads : \A j \in 1 .. Len(frames'[u]) : \A p \in Addresses :
         Carries(frames'[u][j], p) =>
            j \in 1 .. Len(frames[u]) /\ Carries(frames[u][j], p)
  BY <1>1, <1>3 DEF n
<1> QED BY <1>4, NoneTaken

(* The stack of t has one frame, or none, whose block is not new to it.    *)
LEMMA OneFrameKeepsBlock ==
    ASSUME OwnInv, UNCHANGED <<heap, held, pool>>, frames \in [Threads -> Seq(Frame)],
           NEW t \in Threads, NEW h, frames' = [frames EXCEPT ![t] = <<h>>],
           \A p \in Addresses : Carries(h, p) => 1 <= Len(frames[t]) /\ Carries(frames[t][1], p)
    PROVE  OwnInv'
<1>1. /\ frames'[t] = <<h>> /\ Len(frames'[t]) = 1 /\ frames'[t][1] = h
      /\ \A u \in Threads : u # t => frames'[u] = frames[u]
  OBVIOUS
<1>2. \A u \in Threads : \A j \in 1 .. Len(frames'[u]) : \A p \in Addresses :
         Carries(frames'[u][j], p) =>
            j \in 1 .. Len(frames[u]) /\ Carries(frames[u][j], p)
  BY <1>1
<1> QED BY <1>2, NoneTaken

(* malloc gives the call a block that nobody has.                           *)
LEMMA MallocOwn ==
    ASSUME GuardInv, OwnInv, NEW t \in Threads, Malloc(t)
    PROVE  OwnInv'
<1> DEFINE n == Len(frames[t])
<1>1. PICK p \in (Addresses \ heap) \cup {nullptr}, g \in Frame :
         heap' = heap \cup ({p} \ {nullptr}) /\ SetTop(t, g) /\ g.ptr = p /\ g.hook = Top(t).hook
  BY MallocEffect DEF Becomes
<1>2. /\ frames[t] # <<>> /\ Top(t).pc = "malloc" /\ UNCHANGED <<held, pool>>
      /\ Top(t) = frames[t][n]
  BY TopFrame DEF Malloc, At
<1>3. /\ Len(frames'[t]) = n /\ n \in {1, 2} /\ frames'[t][n] = g
      /\ \A i \in 1 .. n : i # n => frames'[t][i] = frames[t][i]
      /\ \A u \in Threads : u # t => frames'[u] = frames[u]
  BY <1>1, <1>2, FramesAfter
<1> HIDE DEF n
<1>4. \A u \in Threads : \A j \in 1 .. Len(frames'[u]) : \A q \in Addresses :
         Carries(frames'[u][j], q) =>
            \/ u = t /\ j = n /\ q = p
            \/ j \in 1 .. Len(frames[u]) /\ Carries(frames[u][j], q)
  BY <1>1, <1>3 DEF Carries, n
<1>5. heap' \subseteq Addresses /\ heap \subseteq heap' /\ pool' \subseteq heap'
  BY <1>1, <1>2 DEF OwnInv
<1>6. \A q \in Addresses : q \in heap \ pool => q \in heap' \ pool' /\ q # p
  BY <1>1, <1>2, ThreadsAssumption
<1>7. p \in Addresses => p \in heap' \ pool' /\ \A b \in held' : b.ptr # p
  BY <1>1, <1>2, ThreadsAssumption DEF OwnInv
<1>8. held' \subseteq [ptr : heap' \ pool', by : News, known : BOOLEAN]
  <2>1. heap \ pool \subseteq heap' \ pool'
    BY <1>6 DEF OwnInv
  <2> QED BY <1>2, <2>1 DEF OwnInv
<1>9. ASSUME NEW u \in Threads, NEW j \in 1 .. Len(frames'[u]), NEW q \in Addresses,
             Carries(frames'[u][j], q)
      PROVE  /\ q \in heap' \ pool' /\ \A b \in held' : b.ptr # q
             /\ \A v \in Threads : \A k \in 1 .. Len(frames'[v]) :
                   Carries(frames'[v][k], q) => v = u /\ k = j
  <2>1. q \in heap' \ pool' /\ \A b \in held' : b.ptr # q
    BY <1>2, <1>4, <1>6, <1>7, <1>9 DEF OwnInv
  <2>2. q = p => ~ \E v \in Threads : \E k \in 1 .. Len(frames[v]) : Carries(frames[v][k], q)
    BY <1>6 DEF OwnInv
  <2> QED BY <1>4, <1>9, <2>1, <2>2 DEF OwnInv
<1> QED BY <1>2, <1>5, <1>8, <1>9 DEF OwnInv

(* free takes the block from the call that had it.                          *)
LEMMA FreeOwn ==
    ASSUME GuardInv, OwnInv, NEW t \in Threads, Free(t)
    PROVE  OwnInv'
<1> DEFINE n == Len(frames[t])
           p == Top(t).ptr
<1>1. PICK g \in Frame : SetTop(t, g) /\ g.ptr = p /\ g.hook \notin News /\ g.pc = "leave"
  BY FreeEffect DEF Becomes
<1>2. /\ frames[t] # <<>> /\ Top(t).pc = "free" /\ UNCHANGED <<held, pool>>
      /\ heap' = heap \ {p}
      /\ Top(t) = frames[t][n] /\ n \in {1, 2} /\ Top(t) \in Frame /\ WellFormed(Top(t))
  BY TopFrame DEF Free, At
<1>3. p \in Addresses /\ Carries(frames[t][n], p)
  BY <1>2 DEF WellFormed, Carries, Frame
<1>4. /\ Len(frames'[t]) = n /\ frames'[t][n] = g
      /\ \A i \in 1 .. n : i # n => frames'[t][i] = frames[t][i]
      /\ \A u \in Threads : u # t => frames'[u] = frames[u]
  BY <1>1, <1>2, FramesAfter
<1> HIDE DEF n, p
<1>5. \A u \in Threads : \A j \in 1 .. Len(frames'[u]) : \A q \in Addresses :
         Carries(frames'[u][j], q) =>
            j \in 1 .. Len(frames[u]) /\ Carries(frames[u][j], q) /\ q # p
  <2>1. ASSUME NEW u \in Threads, NEW j \in 1 .. Len(frames'[u]), NEW q \in Addresses,
               Carries(frames'[u][j], q)
        PROVE  ~(u = t /\ j = n) /\ j \in 1 .. Len(frames[u]) /\ Carries(frames[u][j], q)
    BY <1>1, <1>4, <2>1 DEF Carries, n
  <2> QED BY <1>2, <1>3, <2>1 DEF OwnInv, n
<1>6. p \in heap \ pool /\ \A b \in held : b.ptr # p
  BY <1>2, <1>3 DEF OwnInv, n
<1> QED BY <1>2, <1>5, <1>6 DEF OwnInv

(* A block passes from the program to the call that deletes it.             *)
LEMMA CallDeleteOwn ==
    ASSUME GuardInv, OwnInv, NEW t \in Threads, CallDelete(t)
    PROVE  OwnInv'
<1>1. PICK b \in held, f \in Frame :
         held' = held \ {b} /\ frames' = [frames EXCEPT ![t] = <<f>>] /\ f.ptr = b.ptr
  BY CallDeleteInv, HeldAreTyped
<1>2. /\ frames'[t] = <<f>> /\ Len(frames'[t]) = 1 /\ frames'[t][1] = f
      /\ \A u \in Threads : u # t => frames'[u] = frames[u]
  BY <1>1 DEF GuardInv, Shape
<1>3. UNCHANGED <<heap, pool>>
  BY DEF CallDelete
<1>4. \A u \in Threads : \A j \in 1 .. Len(frames'[u]) : \A p \in Addresses :
         Carries(frames'[u][j], p) =>
            \/ u = t /\ j = 1 /\ p = b.ptr
            \/ j \in 1 .. Len(frames[u]) /\ Carries(frames[u][j], p) /\ p # b.ptr
  BY <1>1, <1>2 DEF Carries, OwnInv
<1>5. b.ptr \in heap \ pool /\ \A c \in held' : c.ptr # b.ptr /\ c \in held
  BY <1>1 DEF OwnInv
<1>6. /\ heap' \subseteq Addresses /\ pool' \subseteq heap'
      /\ held' \subseteq [ptr : heap' \ pool', by : News, known : BOOLEAN]
      /\ \A c, d \in held' : c.ptr = d.ptr => c = d
  BY <1>3, <1>5 DEF OwnInv
<1>7. ASSUME NEW u \in Threads, NEW j \in 1 .. Len(frames'[u]), NEW p \in Addresses,
             Carries(frames'[u][j], p)
      PROVE  /\ p \in heap' \ pool' /\ \A c \in held' : c.ptr # p
             /\ \A v \in Threads : \A k \in 1 .. Len(frames'[v]) :
                   Carries(frames'[v][k], p) => v = u /\ k = j
  <2>1. CASE p = b.ptr
    BY <1>3, <1>4, <1>5, <1>7, <2>1
  <2>2. CASE p # b.ptr
    BY <1>3, <1>4, <1>5, <1>7, <2>2 DEF OwnInv
  <2> QED BY <2>1, <2>2
<1> QED BY <1>6, <1>7 DEF OwnInv

(* A block passes from the call of operator new to the program.             *)
LEMMA ReturnOwn ==
    ASSUME GuardInv, OwnInv, NEW t \in Threads, Return(t)
    PROVE  OwnInv'
<1>1. /\ Len(frames[t]) = 1 /\ Top(t) = frames[t][1] /\ Top(t).pc = "leave"
      /\ Top(t) \in Frame /\ WellFormed(Top(t))
  BY TopFrame DEF Return, At
<1>2. /\ frames'[t] = <<>> /\ Len(frames'[t]) = 0
      /\ \A u \in Threads : u # t => frames'[u] = frames[u]
      /\ UNCHANGED <<heap, pool>>
  BY DEF Return, GuardInv, Shape
<1>3. \A u \in Threads : \A j \in 1 .. Len(frames'[u]) : \A p \in Addresses :
         Carries(frames'[u][j], p) =>
            u # t /\ j \in 1 .. Len(frames[u]) /\ Carries(frames[u][j], p)
  BY <1>2
<1>4. CASE Top(t).hook \in News /\ Top(t).ptr # nullptr
  <2> DEFINE b == [ptr |-> Top(t).ptr, by |-> Top(t).hook, known |-> Top(t).guarded]
  <2>1. held' = held \cup {b}
    BY <1>4 DEF Return
  <2>2. b.ptr \in Addresses /\ Carries(frames[t][1], b.ptr)
    BY <1>1, <1>4 DEF Carries, Frame
  <2>3. b.ptr \in heap \ pool /\ \A c \in held : c.ptr # b.ptr
    BY <1>1, <2>2 DEF OwnInv
  <2>4. b \in [ptr : heap \ pool, by : News, known : BOOLEAN]
    BY <1>1, <1>4, <2>3 DEF Frame
  <2>5. \A u \in Threads : \A j \in 1 .. Len(frames'[u]) : ~Carries(frames'[u][j], b.ptr)
    BY <1>1, <1>3, <2>2 DEF OwnInv
  <2> HIDE DEF b
  <2> QED BY <1>2, <1>3, <2>1, <2>3, <2>4, <2>5 DEF OwnInv
<1>5. CASE ~(Top(t).hook \in News /\ Top(t).ptr # nullptr)
  <2>1. UNCHANGED held
    BY <1>5 DEF Return
  <2> QED BY <1>2, <1>3, <2>1, NoneTaken
<1> QED BY <1>4, <1>5

(* A block passes from the inner call to the pool.                          *)
LEMMA ReturnToPushOwn ==
    ASSUME GuardInv, OwnInv, NEW t \in Threads, ReturnToPush(t)
    PROVE  OwnInv'
<1> DEFINE p == frames[t][2].ptr
<1>1. /\ Len(frames[t]) = 2 /\ Top(t) = frames[t][2] /\ frames[t][2] \in Frame
      /\ frames[t][2].hook = "new"
  BY Nested DEF ReturnToPush
<1>2. frames' = [frames EXCEPT ![t] = <<frames[t][1]>>] /\ pool' = pool \cup {p}
  BY ReturnToPushInv
<1>3. UNCHANGED <<heap, held>> /\ Top(t).ptr # nullptr
  BY DEF ReturnToPush
<1>4. p \in Addresses /\ Carries(frames[t][2], p)
  BY <1>1, <1>3 DEF Frame, Carries, News
<1>5. p \in heap \ pool /\ \A b \in held : b.ptr # p
  BY <1>1, <1>4 DEF OwnInv
<1>6. /\ Len(frames'[t]) = 1 /\ frames'[t][1] = frames[t][1]
      /\ \A u \in Threads : u # t => frames'[u] = frames[u]
  BY <1>2 DEF GuardInv, Shape
<1> HIDE DEF p
<1>7. \A u \in Threads : \A j \in 1 .. Len(frames'[u]) : \A q \in Addresses :
         Carries(frames'[u][j], q) =>
            j \in 1 .. Len(frames[u]) /\ Carries(frames[u][j], q) /\ q # p
  <2>1. \A u \in Threads : \A j \in 1 .. Len(frames'[u]) :
           ~(u = t /\ j = 2) /\ j \in 1 .. Len(frames[u]) /\ frames'[u][j] = frames[u][j]
    BY <1>1, <1>6
  <2>2. \A u \in Threads : \A j \in 1 .. Len(frames[u]) :
           Carries(frames[u][j], p) => u = t /\ j = 2
    BY <1>1, <1>4 DEF OwnInv
  <2> QED BY <2>1, <2>2
<1>8. held' \subseteq [ptr : heap' \ pool', by : News, known : BOOLEAN]
  <2>1. \A b \in held : b \in [ptr : heap \ pool, by : News, known : BOOLEAN] /\ b.ptr # p
    BY <1>5 DEF OwnInv
  <2>2. \A b \in held : b \in [ptr : heap' \ pool', by : News, known : BOOLEAN]
    BY <1>2, <1>3, <2>1
  <2> QED BY <1>3, <2>2
<1> QED BY <1>2, <1>3, <1>5, <1>7, <1>8 DEF OwnInv

(* The blocks of the pools pass to MAIN, which deletes them.                *)
LEMMA DestroyOwn ==
    ASSUME OwnInv, Destroy
    PROVE  OwnInv'
<1> DEFINE given == [ptr : pool, by : {"new"}, known : {FALSE}]
<1>1. held' = held \cup given /\ pool' = {} /\ UNCHANGED <<heap, frames>>
  BY DEF Destroy
<1>2. \A b \in given : b.ptr \in pool /\ b.by = "new" /\ b.known = FALSE
  OBVIOUS
<1>3. \A b \in given : b \in [ptr : heap, by : News, known : BOOLEAN]
  BY DEF OwnInv, News
<1>4. \A b, c \in given : b.ptr = c.ptr => b = c
  <2>1. \A b \in given : b = [ptr |-> b.ptr, by |-> "new", known |-> FALSE]
    <3>1. ASSUME NEW b \in given
          PROVE  b = [ptr |-> b.ptr, by |-> b.by, known |-> b.known]
      OBVIOUS
    <3> QED BY <1>2, <3>1
  <2> HIDE DEF given
  <2> QED BY <2>1
<1> HIDE DEF given
<1>5. \A b \in held : b.ptr \notin pool /\ b \in [ptr : heap, by : News, known : BOOLEAN]
  BY DEF OwnInv
<1>6. heap \ {} = heap
  OBVIOUS
<1>7. /\ heap' \subseteq Addresses /\ pool' \subseteq heap'
      /\ held' \subseteq [ptr : heap' \ pool', by : News, known : BOOLEAN]
  BY <1>1, <1>3, <1>5, <1>6 DEF OwnInv
<1>8. \A b, c \in held' : b.ptr = c.ptr => b = c
  BY <1>1, <1>2, <1>4, <1>5 DEF OwnInv
<1>9. \A p \in heap \ pool : p \in heap' \ pool'
  BY <1>1
<1>10. \A p \in heap \ pool : (\A b \in held : b.ptr # p) => \A b \in held' : b.ptr # p
  BY <1>1, <1>2
<1> QED BY <1>1, <1>7, <1>8, <1>9, <1>10 DEF OwnInv


(* Every step leaves each block with one owner.                             *)
LEMMA OwnNext ==
    ASSUME GuardInv, OwnInv, clock \in Nat, [Next]_vars
    PROVE  OwnInv'
<1> USE HeldAreTyped
<1>1. CASE Construct \/ Shutdown \/ UNCHANGED vars
  <2>1. UNCHANGED <<frames, heap, held, pool>>
    BY <1>1 DEF Construct, Shutdown, vars
  <2> QED BY <2>1 DEF OwnInv
<1>2. CASE Destroy
  BY <1>2, DestroyOwn
<1>3. ASSUME NEW t \in Threads, CallNew(t) PROVE OwnInv'
  <2>1. PICK f \in Frame :
           /\ frames' = [frames EXCEPT ![t] = <<f>>]
           /\ f.ptr = nullptr /\ UNCHANGED <<heap, held, pool>>
    BY <1>3, CallNewInv DEF CallNew
  <2>2. \A p \in Addresses : ~Carries(f, p)
    BY <2>1, ThreadsAssumption DEF Carries
  <2>3. frames \in [Threads -> Seq(Frame)]
    BY DEF GuardInv, Shape
  <2> QED BY <2>1, <2>2, <2>3, OneFrameKeepsBlock
<1>4. ASSUME NEW t \in Threads, CallDelete(t) PROVE OwnInv'
  BY <1>4, CallDeleteOwn
<1>5. ASSUME NEW t \in Threads, Lock(t) PROVE OwnInv'
  <2>1. frames[t] # <<>> /\ Top(t).pc # "leave" /\ UNCHANGED <<heap, held, pool>>
    BY <1>5 DEF Lock, At
  <2>2. PICK g \in Frame :
           SetTop(t, g) /\ g.ptr = Top(t).ptr /\ g.hook = Top(t).hook
    BY <1>5, LockEffect DEF SetTop
  <2> QED BY <2>1, <2>2, TopKeepsBlock
<1>6. ASSUME NEW t \in Threads, Malloc(t) PROVE OwnInv'
  BY <1>6, MallocOwn
<1>7. ASSUME NEW t \in Threads, Stamp(t) \/ PushBack(t) PROVE OwnInv'
  <2>1. frames[t] # <<>> /\ Top(t).pc # "leave" /\ UNCHANGED <<heap, held, pool>>
    BY <1>7 DEF Stamp, PushBack, At
  <2>2. PICK g \in Frame :
           SetTop(t, g) /\ g.ptr = Top(t).ptr /\ g.hook = Top(t).hook
    BY <1>7, StampEffect, PushBackEffect DEF Becomes
  <2> QED BY <2>1, <2>2, TopKeepsBlock
<1>8. ASSUME NEW t \in Threads, Free(t) PROVE OwnInv'
  BY <1>8, FreeOwn
<1>9. ASSUME NEW t \in Threads, PushAllocates(t) PROVE OwnInv'
  <2> DEFINE f == NewFrame("new", nullptr)
  <2>1. f \in Frame /\ f.ptr = nullptr
    BY FrameBegins DEF GuardInv, Hooks, News
  <2>2. /\ frames' = [frames EXCEPT ![t] = Append(frames[t], f)]
        /\ UNCHANGED <<heap, held, pool>> /\ Len(frames[t]) = 1
    BY <1>9 DEF PushAllocates, GuardInv, Shape
  <2> HIDE DEF f
  <2>3. /\ Len(frames'[t]) = 2 /\ frames'[t][1] = frames[t][1] /\ frames'[t][2] = f
        /\ \A u \in Threads : u # t => frames'[u] = frames[u]
    <3>1. frames'[t] = Append(frames[t], f) /\ \A u \in Threads : u # t => frames'[u] = frames[u]
      BY <2>2 DEF GuardInv, Shape
    <3>2. frames[t] \in Seq(Frame)
      BY DEF GuardInv, Shape
    <3> QED BY <2>1, <2>2, <3>1, <3>2, AppendProperties
  <2>4. \A p \in Addresses : ~Carries(f, p)
    BY <2>1, ThreadsAssumption DEF Carries
  <2>5. \A u \in Threads : \A j \in 1 .. Len(frames'[u]) : \A p \in Addresses :
           Carries(frames'[u][j], p) =>
              j \in 1 .. Len(frames[u]) /\ Carries(frames[u][j], p)
    BY <2>2, <2>3, <2>4
  <2> QED BY <2>2, <2>5, NoneTaken
<1>10. ASSUME NEW t \in Threads, Return(t) PROVE OwnInv'
  BY <1>10, ReturnOwn
<1>11. ASSUME NEW t \in Threads, ReturnToPush(t) PROVE OwnInv'
  BY <1>11, ReturnToPushOwn
<1>12. ASSUME NEW t \in Threads, ThrowFromPush(t) PROVE OwnInv'
  <2>1. PICK h \in Frame :
           /\ frames' = [frames EXCEPT ![t] = <<h>>] /\ h.ptr = nullptr
           /\ UNCHANGED <<heap, held, pool>>
    BY <1>12, ThrowFromPushInv DEF ThrowFromPush
  <2>2. \A p \in Addresses : ~Carries(h, p)
    BY <2>1, ThreadsAssumption DEF Carries
  <2>3. frames \in [Threads -> Seq(Frame)]
    BY DEF GuardInv, Shape
  <2> QED BY <2>1, <2>2, <2>3, OneFrameKeepsBlock
<1>13. ASSUME NEW t \in Threads, Terminate(t) \/ ThreadEnd(t) PROVE OwnInv'
  <2>1. UNCHANGED <<heap, held, pool>> /\ \A u \in Threads : frames'[u] = <<>> \/ frames'[u] = frames[u]
    BY <1>13 DEF Terminate, ThreadEnd
  <2>2. \A u \in Threads : \A j \in 1 .. Len(frames'[u]) :
           j \in 1 .. Len(frames[u]) /\ frames'[u][j] = frames[u][j]
    BY <2>1
  <2> QED BY <2>1, <2>2, NoneTaken
<1> QED
  BY <1>1, <1>2, <1>3, <1>4, <1>5, <1>6, <1>7, <1>8, <1>9, <1>10, <1>11, <1>12, <1>13
     DEF Next, Proceed, Elsewhere

(* The clock tells numbers.                                                 *)
LEMMA ClockNext == ASSUME clock \in Nat, [Next]_vars PROVE clock' \in Nat
<1>1. CASE \E t \in Threads : Stamp(t)
  BY <1>1 DEF Stamp
<1>2. CASE ~ \E t \in Threads : Stamp(t)
  <2>1. UNCHANGED clock
    BY <1>2 DEF Next, vars, recorder, Construct, Shutdown, Destroy, CallNew, CallDelete, Lock,
         Proceed, Malloc, PushAllocates, PushBack, Free, Return, ReturnToPush, ThrowFromPush,
         Terminate, ThreadEnd, Elsewhere
  <2> QED BY <2>1
<1> QED BY <1>1, <1>2

(* The inductive invariant of the calls: guards in order, blocks owned.     *)
CallInv == GuardInv /\ OwnInv /\ clock \in Nat

(* In every reachable state, with any number of threads, slots and          *)
(* addresses, detached threads, exceptions and std::terminate included, the *)
(* guards are in order and each block has one owner.                        *)
THEOREM CallInvariant == Spec => []CallInv
<1>1. Init => CallInv
  BY GuardInit, OwnInit DEF CallInv, Init
<1>2. CallInv /\ [Next]_vars => CallInv'
  BY GuardNext, OwnNext, ClockNext, HeldAreTyped DEF CallInv
<1> QED BY <1>1, <1>2, PTL DEF Spec

(* The flag is cleared while push_back runs, so an allocation in it makes   *)
(* no record; other threads of the slot wait for the mutex.                 *)
LEMMA AppendsAlone == GuardInv => NoReentry
<1> SUFFICES ASSUME GuardInv, NEW t \in Threads, NEW u \in Threads,
                    NEW i \in DOMAIN frames[t], NEW j \in DOMAIN frames[u],
                    frames[t][i].pc = "append", frames[u][j].pc = "append",
                    get_per_thread(t) = get_per_thread(u)
             PROVE  t = u /\ i = j
  BY DEF NoReentry
<1>1. i \in 1 .. Len(frames[t]) /\ j \in 1 .. Len(frames[u])
  BY DEF GuardInv, Shape
<1>2. frames[t][i].was_enable /\ frames[u][j].was_enable
  BY <1>1 DEF GuardInv, Stacks, WellFormed
<1>3. Locks(t) > 0 /\ Locks(u) > 0
  BY <1>1, <1>2, SavedHolds, HolderIsOwner
<1>4. t = u
  BY <1>3, OneOwner
<1>5. frames[t] # <<>> /\ Len(frames[t]) \in {1, 2}
  BY <1>1, TopFrame, EmptySeq
<1> DEFINE n == Len(frames[t])
<1>6. n = 2 => ~frames[t][2].was_enable
  BY DEF GuardInv, Stacks
<1>7. i \in 1 .. n /\ j \in 1 .. n /\ n \in {1, 2}
  BY <1>1, <1>4, <1>5
<1> HIDE DEF n
<1>8. i = 1 /\ j = 1
  <2>1. (i = 1 \/ i = 2) /\ (j = 1 \/ j = 2) /\ (i = 2 \/ j = 2 => n = 2)
    BY <1>7
  <2> QED BY <1>2, <1>4, <1>6, <2>1
<1> QED BY <1>4, <1>8

(* NoReentry of EnableGuard and the recursive mutex: push_back never starts *)
(* on a log on which another push_back is at work, also after ~GlobalData   *)
(* cleared the flags without the locks.                                     *)
THEOREM PushBackNeverReentered == Spec => []NoReentry
BY CallInvariant, AppendsAlone, PTL DEF CallInv

-------------------------------------------------------------------------------
(* What a step does to the flags that guards have saved, to the flags of   *)
(* the slots and to the logs.                                              *)

(* The stack of a thread becomes one frame, which saves no more than the    *)
(* first frame did.                                                         *)
LEMMA OneFrameFlags ==
    ASSUME GuardInv, NEW t \in Threads, NEW h, frames' = [frames EXCEPT ![t] = <<h>>],
           h.was_enable => 1 <= Len(frames[t]) /\ frames[t][1].was_enable
    PROVE  \A u \in Threads : \A j \in 1 .. Len(frames'[u]) :
              frames'[u][j].was_enable => j \in 1 .. Len(frames[u]) /\ frames[u][j].was_enable
<1>1. /\ frames'[t] = <<h>> /\ Len(frames'[t]) = 1 /\ frames'[t][1] = h
      /\ \A u \in Threads : u # t => frames'[u] = frames[u]
  BY DEF GuardInv, Shape
<1> QED BY <1>1

(* Only Lock saves a flag that is set.                                     *)
LEMMA FlagsAfter ==
    ASSUME GuardInv, HeldTyped, clock \in Nat, [Next]_vars, \A t \in Threads : ~Lock(t)
    PROVE  \A u \in Threads : \A j \in 1 .. Len(frames'[u]) :
              frames'[u][j].was_enable => j \in 1 .. Len(frames[u]) /\ frames[u][j].was_enable
<1> DEFINE Goal == \A u \in Threads : \A j \in 1 .. Len(frames'[u]) :
              frames'[u][j].was_enable => j \in 1 .. Len(frames[u]) /\ frames[u][j].was_enable
<1>1. CASE Construct \/ Shutdown \/ Destroy \/ UNCHANGED vars
  BY <1>1 DEF Construct, Shutdown, Destroy, vars
<1>2. ASSUME NEW t \in Threads, CallNew(t) PROVE Goal
  BY <1>2, CallNewInv, OneFrameFlags
<1>3. ASSUME NEW t \in Threads, CallDelete(t) PROVE Goal
  BY <1>3, CallDeleteInv, OneFrameFlags
<1>4. ASSUME NEW t \in Threads, Malloc(t) \/ Stamp(t) \/ PushBack(t) \/ Free(t) PROVE Goal
  <2>1. PICK g \in Frame :
           frames[t] # <<>> /\ SetTop(t, g) /\ g.was_enable = Top(t).was_enable
    BY <1>4, TopBecomes DEF Becomes
  <2> DEFINE n == Len(frames[t])
  <2>2. /\ Len(frames'[t]) = n /\ n \in {1, 2} /\ frames'[t][n] = g
        /\ \A i \in 1 .. n : i # n => frames'[t][i] = frames[t][i]
        /\ \A u \in Threads : u # t => frames'[u] = frames[u]
    BY <2>1, FramesAfter
  <2>3. g.was_enable = frames[t][n].was_enable
    BY <2>1, TopFrame
  <2> HIDE DEF n
  <2> QED BY <2>2, <2>3 DEF n
<1>5. ASSUME NEW t \in Threads, PushAllocates(t) PROVE Goal
  <2> DEFINE f == NewFrame("new", nullptr)
  <2>1. f \in Frame /\ ~f.was_enable
    BY FrameBegins DEF GuardInv, Hooks, News
  <2>2. frames'[t] = Append(frames[t], f) /\ \A u \in Threads : u # t => frames'[u] = frames[u]
    BY <1>5 DEF PushAllocates, GuardInv, Shape
  <2> HIDE DEF f
  <2>3. frames[t] \in Seq(Frame) /\ Len(frames[t]) = 1
    BY <1>5 DEF PushAllocates, GuardInv, Shape
  <2>4. Len(frames'[t]) = 2 /\ frames'[t][1] = frames[t][1] /\ frames'[t][2] = f
    BY <2>1, <2>2, <2>3, AppendProperties
  <2> QED BY <2>1, <2>2, <2>3, <2>4
<1>6. ASSUME NEW t \in Threads, Return(t) PROVE Goal
  <2>1. /\ frames'[t] = <<>> /\ Len(frames'[t]) = 0
        /\ \A u \in Threads : u # t => frames'[u] = frames[u]
    BY <1>6 DEF Return, GuardInv, Shape
  <2> QED BY <2>1
<1>7. ASSUME NEW t \in Threads, ReturnToPush(t) PROVE Goal
  <2>1. /\ frames' = [frames EXCEPT ![t] = <<frames[t][1]>>] /\ 1 <= Len(frames[t])
    <3>1. At(t, "leave") /\ Len(frames[t]) > 1
      BY <1>7 DEF ReturnToPush
    <3>2. Len(frames[t]) = 2
      BY <3>1, Nested
    <3> QED BY <1>7, <3>2, ReturnToPushInv
  <2> QED BY <2>1, OneFrameFlags
<1>8. ASSUME NEW t \in Threads, ThrowFromPush(t) PROVE Goal
  <2>1. 1 <= Len(frames[t])
    BY <1>8 DEF ThrowFromPush
  <2> QED BY <1>8, <2>1, ThrowFromPushInv, OneFrameFlags
<1>9. ASSUME NEW t \in Threads, Terminate(t) \/ ThreadEnd(t) PROVE Goal
  <2>1. \A u \in Threads : frames'[u] = <<>> \/ frames'[u] = frames[u]
    BY <1>9 DEF Terminate, ThreadEnd
  <2> QED BY <2>1
<1> QED
  BY <1>1, <1>2, <1>3, <1>4, <1>5, <1>6, <1>7, <1>8, <1>9 DEF Next, Proceed, Elsewhere

(* A flag is set by Construct, or from what the guard on top has saved.    *)
LEMMA EnableAfter ==
    ASSUME GuardInv, [Next]_vars, ~Construct, NEW s \in Slots, enable'[s]
    PROVE  \/ enable[s]
           \/ \E t \in Threads : /\ get_per_thread(t) = s /\ At(t, "leave") /\ Top(t).was_enable
                                 /\ Top(t).guarded
<1>1. CASE UNCHANGED enable
  BY <1>1
<1>2. CASE Shutdown
  BY <1>2 DEF Shutdown
<1>3. ASSUME NEW t \in Threads, Lock(t) PROVE enable[s]
  BY <1>3, SlotOf DEF Lock, GuardInv, Shape
<1>4. ASSUME NEW t \in Threads, At(t, "leave"), Unguard(t)
      PROVE  enable[s] \/ (get_per_thread(t) = s /\ Top(t).was_enable /\ Top(t).guarded)
  BY <1>4, SlotOf DEF Unguard, GuardInv, Shape
<1>5. ASSUME NEW t \in Threads, Return(t) \/ ReturnToPush(t) \/ ThrowFromPush(t)
      PROVE  At(t, "leave") /\ Unguard(t)
  BY <1>5 DEF Return, ReturnToPush, ThrowFromPush
<1>6. \/ UNCHANGED enable \/ Shutdown \/ \E t \in Threads : Lock(t)
      \/ \E t \in Threads : Return(t) \/ ReturnToPush(t) \/ ThrowFromPush(t)
  BY DEF Next, vars, recorder, Destroy, CallNew, CallDelete, Proceed, Malloc, Stamp,
         PushAllocates, PushBack, Free, Terminate, ThreadEnd, Elsewhere
<1> QED BY <1>1, <1>2, <1>3, <1>4, <1>5, <1>6

(* Only push_back changes a log, that of its thread's slot.                *)
LEMMA ActionsAfter ==
    ASSUME [Next]_vars
    PROVE  UNCHANGED actions \/ \E t \in Threads : PushBack(t)
BY DEF Next, vars, recorder, Construct, Shutdown, Destroy, CallNew, CallDelete, Lock, Proceed,
       Malloc, Stamp, PushAllocates, Free, Return, ReturnToPush, ThrowFromPush, Terminate,
       ThreadEnd, Elsewhere

(* Who appends to a log has its flag saved as set.                         *)
LEMMA PushBackAt ==
    ASSUME GuardInv, NEW t \in Threads, PushBack(t)
    PROVE  /\ Len(frames[t]) = 1 /\ Top(t) = frames[t][1] /\ frames[t][1].was_enable
           /\ Holds(frames[t][1]) /\ Top(t).pc = "append" /\ frames[t] # <<>>
           /\ Top(t) \in Frame /\ WellFormed(Top(t)) /\ t \notin ended
<1> DEFINE n == Len(frames[t])
<1>1. /\ frames[t] # <<>> /\ Top(t).pc = "append" /\ Top(t) = frames[t][n]
      /\ n \in {1, 2} /\ Top(t) \in Frame /\ WellFormed(Top(t)) /\ t \notin ended
  BY TopFrame DEF PushBack, At
<1>2. Top(t).was_enable /\ Top(t).guarded
  BY <1>1 DEF WellFormed
<1>3. n = 2 => ~frames[t][2].was_enable
  BY DEF GuardInv, Stacks
<1> HIDE DEF n
<1>4. n = 1
  BY <1>1, <1>2, <1>3
<1> QED BY <1>1, <1>2, <1>4 DEF Holds, n

(* At a slot that is off, Lock saves a cleared flag, and no guard sets it.  *)
LEMMA StaysOff ==
    ASSUME CallInv, [Next]_vars, NEW s \in Slots, phase \in {"copying", "destroyed"}, Off(s)
    PROVE  Off(s)' /\ UNCHANGED actions[s]
<1>1. GuardInv /\ GuardInv' /\ HeldTyped /\ clock \in Nat
  BY GuardNext, HeldAreTyped DEF CallInv
<1>2. /\ \A t \in Threads : DOMAIN frames[t] = 1 .. Len(frames[t])
      /\ \A t \in Threads : DOMAIN frames'[t] = 1 .. Len(frames'[t])
  BY <1>1 DEF GuardInv, Shape
<1>3. ~enable[s] /\ \A t \in Threads : \A i \in 1 .. Len(frames[t]) :
                       get_per_thread(t) = s => ~frames[t][i].was_enable
  BY <1>2 DEF Off
<1>4. ~enable'[s]
  <2>1. ~Construct
    BY DEF Construct
  <2>2. ASSUME NEW t \in Threads, get_per_thread(t) = s, At(t, "leave"), Top(t).was_enable
        PROVE  FALSE
    <3>1. frames[t] # <<>> /\ Len(frames[t]) \in {1, 2} /\ Top(t) = frames[t][Len(frames[t])]
      BY <1>1, <2>2, TopFrame DEF At
    <3> QED BY <1>3, <2>2, <3>1
  <2> QED BY <1>1, <1>3, <2>1, <2>2, EnableAfter
<1>5. \A t \in Threads : \A i \in 1 .. Len(frames'[t]) :
         get_per_thread(t) = s => ~frames'[t][i].was_enable
  <2>1. CASE \A t \in Threads : ~Lock(t)
    BY <1>1, <1>3, <2>1, FlagsAfter
  <2>2. ASSUME NEW t \in Threads, Lock(t)
        PROVE  \A u \in Threads : \A i \in 1 .. Len(frames'[u]) :
                  get_per_thread(u) = s => ~frames'[u][i].was_enable
    <3>1. PICK g \in Frame : SetTop(t, g) /\ g.was_enable = enable[get_per_thread(t)]
      BY <1>1, <2>2, LockEffect DEF SetTop
    <3>2. frames[t] # <<>>
      BY <2>2 DEF Lock, At
    <3> DEFINE n == Len(frames[t])
    <3>3. /\ Len(frames'[t]) = n /\ n \in {1, 2} /\ frames'[t][n] = g
          /\ \A i \in 1 .. n : i # n => frames'[t][i] = frames[t][i]
          /\ \A u \in Threads : u # t => frames'[u] = frames[u]
      BY <1>1, <3>1, <3>2, FramesAfter
    <3> HIDE DEF n
    <3> QED BY <1>3, <3>1, <3>3 DEF n
  <2> QED BY <2>1, <2>2
<1>6. Off(s)'
  BY <1>2, <1>4, <1>5 DEF Off
<1>7. UNCHANGED actions[s]
  <2>1. ASSUME NEW t \in Threads, PushBack(t) PROVE UNCHANGED actions[s]
    <3>1. frames[t][1].was_enable /\ 1 \in 1 .. Len(frames[t])
      BY <1>1, <2>1, PushBackAt
    <3>2. get_per_thread(t) # s
      BY <1>3, <3>1
    <3> QED BY <2>1, <3>2 DEF PushBack
  <2> QED BY <2>1, ActionsAfter
<1> QED BY <1>6, <1>7

(* OffStaysOff, of threads detached as well as others: a slot that is off   *)
(* when ~GlobalData begins, or comes to be, stays off and its log as it is. *)
THEOREM SlotsStayOff == Spec => OffStaysOff
<1>1. CallInv /\ [Next]_vars =>
         [\A s \in Slots : phase \in {"copying", "destroyed"} /\ Off(s)
             => Off(s)' /\ UNCHANGED actions[s]]_vars
  BY StaysOff
<1> QED BY <1>1, CallInvariant, PTL DEF Spec, OffStaysOff

-------------------------------------------------------------------------------
(* If main waits for every thread: the flag of a slot between calls.       *)

(* How the first frame of each thread goes on: as it is, or with a lock.   *)
LEMMA FirstAfter ==
    ASSUME CallInv, [Next]_vars, NEW u \in Threads,
           frames'[u] # <<>>, Holds(frames'[u][1])
    PROVE  \/ /\ frames[u] # <<>> /\ Holds(frames[u][1])
              /\ frames'[u][1].was_enable = frames[u][1].was_enable
           \/ /\ Lock(u) /\ Len(frames[u]) = 1
              /\ frames'[u][1].was_enable = enable[get_per_thread(u)]
<1> DEFINE Kept == /\ frames[u] # <<>> /\ Holds(frames[u][1])
                   /\ frames'[u][1].was_enable = frames[u][1].was_enable
<1>1. GuardInv /\ HeldTyped /\ clock \in Nat
  BY HeldAreTyped DEF CallInv
<1>2. CASE frames'[u] = frames[u]
  BY <1>2
<1>3. CASE CallNew(u)
  <2>1. PICK f \in Frame : frames'[u] = <<f>> /\ f.guarded = global
                           /\ f.pc = IF global THEN "lock" ELSE "malloc"
    BY <1>1, <1>3, CallNewInv DEF GuardInv, Shape
  <2> QED BY <2>1 DEF Holds
<1>4. CASE CallDelete(u)
  <2>1. PICK f \in Frame : frames'[u] = <<f>> /\ f.guarded = global
                           /\ f.pc = IF global THEN "lock" ELSE "free"
    BY <1>1, <1>4, CallDeleteInv DEF GuardInv, Shape
  <2> QED BY <2>1 DEF Holds
<1>5. ASSUME frames[u] # <<>>, NEW g \in Frame, SetTop(u, g), g.guarded = Top(u).guarded,
             Top(u).pc # "lock", g.was_enable = Top(u).was_enable
      PROVE  Kept
  <2> DEFINE n == Len(frames[u])
  <2>1. /\ Len(frames'[u]) = n /\ n \in {1, 2} /\ frames'[u][n] = g
        /\ \A i \in 1 .. n : i # n => frames'[u][i] = frames[u][i]
    BY <1>1, <1>5, FramesAfter
  <2>2. Top(u) = frames[u][n]
    BY <1>1, <1>5, TopFrame
  <2> HIDE DEF n
  <2> QED BY <1>5, <2>1, <2>2 DEF Holds
<1>6. CASE Malloc(u) \/ Stamp(u) \/ PushBack(u) \/ Free(u)
  BY <1>1, <1>5, <1>6, TopBecomes DEF Becomes
<1>7. CASE Lock(u)
  <2> DEFINE n == Len(frames[u])
  <2>1. PICK g \in Frame : SetTop(u, g) /\ g.was_enable = enable[get_per_thread(u)]
    BY <1>1, <1>7, LockEffect DEF SetTop
  <2>2. frames[u] # <<>>
    BY <1>7 DEF Lock, At
  <2>3. /\ Len(frames'[u]) = n /\ n \in {1, 2} /\ frames'[u][n] = g
        /\ \A i \in 1 .. n : i # n => frames'[u][i] = frames[u][i]
    BY <1>1, <2>1, <2>2, FramesAfter
  <2> HIDE DEF n
  <2>4. CASE n = 1
    BY <1>7, <2>1, <2>3, <2>4 DEF n
  <2>5. CASE n = 2
    BY <2>2, <2>3, <2>5
  <2> QED BY <2>3, <2>4, <2>5
<1>8. CASE PushAllocates(u)
  <2> DEFINE f == NewFrame("new", nullptr)
  <2>1. f \in Frame
    BY <1>1, FrameBegins DEF GuardInv, Hooks, News
  <2>2. frames'[u] = Append(frames[u], f) /\ frames[u] \in Seq(Frame) /\ Len(frames[u]) = 1
    BY <1>1, <1>8 DEF PushAllocates, GuardInv, Shape
  <2> HIDE DEF f
  <2>3. frames'[u][1] = frames[u][1] /\ frames[u] # <<>>
    BY <2>1, <2>2, AppendProperties
  <2> QED BY <2>3
<1>9. CASE Return(u)
  BY <1>1, <1>9 DEF Return, GuardInv, Shape
<1>10. CASE ReturnToPush(u)
  <2>1. frames'[u] = <<frames[u][1]>> /\ frames[u] # <<>>
    BY <1>1, <1>10, ReturnToPushInv DEF GuardInv, Shape, ReturnToPush, At
  <2> QED BY <2>1
<1>11. CASE ThrowFromPush(u)
  <2>1. PICK h \in Frame :
           /\ frames' = [frames EXCEPT ![u] = <<h>>] /\ h.guarded = frames[u][1].guarded
           /\ h.was_enable = frames[u][1].was_enable
    BY <1>1, <1>11, ThrowFromPushInv
  <2>2. frames[u] # <<>> /\ frames[u][1].pc = "append"
    BY <1>1, <1>11, Nested DEF ThrowFromPush, At
  <2>3. frames'[u] = <<h>>
    BY <1>1, <2>1 DEF GuardInv, Shape
  <2> QED BY <2>1, <2>2, <2>3 DEF Holds
<1>12. CASE \E t \in Threads : Terminate(t)
  BY <1>12 DEF Terminate
<1>13. ASSUME NEW t \in Threads, t # u,
              CallNew(t) \/ CallDelete(t) \/ Lock(t) \/ Proceed(t) \/ ThreadEnd(t)
       PROVE  frames'[u] = frames[u] \/ Terminate(t)
  BY <1>1, <1>13 DEF CallNew, CallDelete, Lock, Proceed, Malloc, Stamp, PushAllocates, PushBack,
        Free, Return, ReturnToPush, ThrowFromPush, ThreadEnd, SetTop, GuardInv, Shape
<1>14. ASSUME Construct \/ Shutdown \/ Destroy \/ Elsewhere \/ UNCHANGED vars \/ ThreadEnd(u)
       PROVE  frames'[u] = frames[u]
  BY <1>14 DEF Construct, Shutdown, Destroy, Elsewhere, vars, ThreadEnd
<1> QED
  BY <1>2, <1>3, <1>4, <1>6, <1>7, <1>8, <1>9, <1>10, <1>11, <1>12, <1>13, <1>14
     DEF Next, Proceed


(* A mutex is given back with the guard of a thread's first frame.         *)
LEMMA LockAfter ==
    ASSUME CallInv, [Next]_vars, NEW s \in Slots, lock'[s].depth = 0
    PROVE  \/ lock[s].depth = 0
           \/ \E t \in Threads :
                 /\ Return(t) /\ get_per_thread(t) = s /\ Len(frames[t]) = 1
                 /\ Top(t) = frames[t][1] /\ Holds(Top(t)) /\ frames[t] # <<>>
                 /\ enable'[s] = Top(t).was_enable
<1>1. GuardInv
  BY DEF CallInv
<1>2. ASSUME NEW t \in Threads, Lock(t)
      PROVE  lock[s].depth = 0
  <2>1. Len(frames[t]) > 0 /\ lock' = [lock EXCEPT ![get_per_thread(t)] =
                                          [owner |-> t, depth |-> Len(frames[t])]]
    <3>1. Len(frames[t]) \in {1, 2}
      BY <1>1, <1>2, TopFrame DEF Lock, At
    <3> QED BY <1>1, <1>2, <3>1, LockEffect
  <2>2. s # get_per_thread(t)
    BY <1>1, <2>1, SlotOf DEF GuardInv, Shape
  <2> QED BY <1>1, <2>1, <2>2 DEF GuardInv, Shape
<1>3. ASSUME NEW t \in Threads, At(t, "leave"), Unguard(t)
      PROVE  \/ lock[s].depth = 0
             \/ /\ get_per_thread(t) = s /\ Len(frames[t]) = 1 /\ Top(t) = frames[t][1]
                /\ Holds(Top(t)) /\ frames[t] # <<>> /\ enable'[s] = Top(t).was_enable
  <2> DEFINE n == Len(frames[t])
  <2>1. /\ frames[t] # <<>> /\ n \in {1, 2} /\ Top(t) = frames[t][n]
        /\ get_per_thread(t) \in Slots
    BY <1>1, <1>3, TopFrame, SlotOf DEF At
  <2>2. CASE ~(Top(t).guarded /\ get_per_thread(t) = s)
    BY <1>1, <1>3, <2>1, <2>2 DEF Unguard, GuardInv, Shape
  <2>3. CASE Top(t).guarded /\ get_per_thread(t) = s
    <3>1. Holds(Top(t)) /\ Locks(t) = n /\ n > 0
      BY <1>3, <2>1, <2>3 DEF Holds, At, Locks
    <3>2. lock[s] = [owner |-> t, depth |-> n]
      BY <1>1, <2>3, <3>1 DEF GuardInv, LockInv
    <3>3. lock'[s].depth = n - 1
      BY <1>1, <1>3, <2>3, <3>2 DEF Unguard, GuardInv, Shape
    <3>4. enable'[s] = Top(t).was_enable
      BY <1>1, <1>3, <2>3 DEF Unguard, GuardInv, Shape
    <3> HIDE DEF n
    <3>5. n = 1
      BY <2>1, <3>3
    <3> QED BY <2>1, <2>3, <3>1, <3>4, <3>5 DEF n
  <2> QED BY <2>2, <2>3
<1>4. ASSUME NEW t \in Threads, ReturnToPush(t) \/ ThrowFromPush(t)
      PROVE  lock[s].depth = 0
  <2>1. At(t, "leave") /\ Unguard(t) /\ Len(frames[t]) > 1
    BY <1>4 DEF ReturnToPush, ThrowFromPush
  <2>2. Len(frames[t]) = 2
    BY <1>1, <2>1, Nested
  <2> QED BY <1>3, <2>1, <2>2
<1>5. ASSUME NEW t \in Threads, Return(t)
      PROVE  At(t, "leave") /\ Unguard(t)
  BY <1>5 DEF Return
<1>6. \/ UNCHANGED lock \/ \E t \in Threads : Lock(t)
      \/ \E t \in Threads : Return(t) \/ ReturnToPush(t) \/ ThrowFromPush(t)
  BY DEF Next, vars, recorder, Construct, Shutdown, Destroy, CallNew, CallDelete, Proceed,
         Malloc, Stamp, PushAllocates, PushBack, Free, Terminate, ThreadEnd, Elsewhere
<1> QED BY <1>2, <1>3, <1>4, <1>5, <1>6

(* The flag is right, whether a guard has it saved or not.                  *)
RecordInv == SavedInv /\ RecordingOn

(* Before there is a recorder every flag is cleared.                        *)
LEMMA RecordInit == Init => RecordInv
BY DEF Init, RecordInv, SavedInv, RecordingOn

(* The flag of a slot does not change while nobody has locked its mutex.   *)
LEMMA FlagAtRest ==
    ASSUME CallInv, [Next]_vars, ~Construct, ~Shutdown,
           NEW s \in Slots, lock[s].depth = 0, lock'[s].depth = 0
    PROVE  enable'[s] = enable[s]
<1>1. GuardInv
  BY DEF CallInv
<1>2. ASSUME NEW t \in Threads, Lock(t) PROVE enable'[s] = enable[s]
  <2>1. /\ Len(frames[t]) \in {1, 2}
        /\ lock' = [lock EXCEPT ![get_per_thread(t)] = [owner |-> t, depth |-> Len(frames[t])]]
        /\ enable' = [enable EXCEPT ![get_per_thread(t)] = FALSE]
    BY <1>1, <1>2, LockEffect, TopFrame DEF Lock, At
  <2>2. lock'[get_per_thread(t)].depth \in {1, 2}
    BY <1>1, <2>1, SlotOf DEF GuardInv, Shape
  <2>3. s # get_per_thread(t)
    BY <2>2
  <2> QED BY <1>1, <2>1, <2>3 DEF GuardInv, Shape
<1>3. ASSUME NEW t \in Threads, At(t, "leave"), Unguard(t) PROVE enable'[s] = enable[s]
  <2>1. CASE ~(Top(t).guarded /\ get_per_thread(t) = s)
    BY <1>1, <1>3, <2>1 DEF Unguard, GuardInv, Shape
  <2>2. CASE Top(t).guarded /\ get_per_thread(t) = s
    <3>1. frames[t] # <<>> /\ Len(frames[t]) \in {1, 2}
      BY <1>1, <1>3, TopFrame DEF At
    <3>2. Locks(t) = Len(frames[t])
      BY <1>3, <2>2, <3>1 DEF Holds, At, Locks
    <3>3. lock[s] = [owner |-> t, depth |-> Len(frames[t])]
      BY <1>1, <2>2, <3>1, <3>2 DEF GuardInv, LockInv
    <3> QED BY <3>1, <3>3
  <2> QED BY <2>1, <2>2
<1>4. ASSUME NEW t \in Threads, Return(t) \/ ReturnToPush(t) \/ ThrowFromPush(t)
      PROVE  At(t, "leave") /\ Unguard(t)
  BY <1>4 DEF Return, ReturnToPush, ThrowFromPush
<1>5. \/ UNCHANGED enable \/ \E t \in Threads : Lock(t)
      \/ \E t \in Threads : Return(t) \/ ReturnToPush(t) \/ ThrowFromPush(t)
  BY DEF Next, vars, recorder, Destroy, CallNew, CallDelete, Proceed, Malloc, Stamp,
         PushAllocates, PushBack, Free, Terminate, ThreadEnd, Elsewhere
<1> QED BY <1>2, <1>3, <1>4, <1>5

(* Every step keeps the flag right: Shutdown comes when main is alone, and  *)
(* no guard of another thread can restore what it cleared.                  *)
LEMMA RecordNext ==
    ASSUME NoDetached, CallInv, RecordInv, [Next]_vars
    PROVE  RecordInv'
<1>1. GuardInv /\ GuardInv' /\ HeldTyped /\ clock \in Nat
  BY GuardNext, HeldAreTyped DEF CallInv
<1>2. CASE Construct
  <2>1. /\ phase = "static" /\ phase' = "running" /\ frames' = frames
        /\ enable' = [s \in Slots |-> TRUE]
    BY <1>2 DEF Construct
  <2>2. ASSUME NEW t \in Threads, frames[t] # <<>>
        PROVE  ~Holds(frames[t][1])
    <3>1. 1 \in 1 .. Len(frames[t])
      BY <1>1, <2>2, TopFrame
    <3> QED BY <1>1, <2>1, <3>1 DEF GuardInv, Stacks, Holds, global
  <2> QED BY <2>1, <2>2 DEF RecordInv, SavedInv, RecordingOn
<1>3. CASE Shutdown
  <2>1. /\ phase' = "copying" /\ frames' = frames /\ enable' = [s \in Slots |-> FALSE]
    BY <1>3 DEF Shutdown
  <2>2. \A t \in Threads : frames[t] = <<>>
    BY <1>1, <1>3 DEF Shutdown, NoDetached, GuardInv, Stacks
  <2> QED BY <2>1, <2>2 DEF RecordInv, SavedInv, RecordingOn
<1>4. CASE ~Construct /\ ~Shutdown
  <2>1. (phase' = "running") = (phase = "running")
    <3>1. CASE Destroy
      BY <3>1 DEF Destroy
    <3>2. CASE ~Destroy
      <4>1. UNCHANGED phase
        BY <1>4, <3>2 DEF Next, vars, recorder, CallNew, CallDelete, Lock, Proceed, Malloc, Stamp,
           PushAllocates, PushBack, Free, Return, ReturnToPush, ThrowFromPush, Terminate,
           ThreadEnd, Elsewhere
      <4> QED BY <4>1
    <3> QED BY <3>1, <3>2
  <2>2. SavedInv'
    <3> SUFFICES ASSUME NEW u \in Threads, frames'[u] # <<>>, Holds(frames'[u][1])
                 PROVE  frames'[u][1].was_enable = (phase = "running")
      BY <2>1 DEF SavedInv, Holds
    <3>1. CASE /\ frames[u] # <<>> /\ Holds(frames[u][1])
               /\ frames'[u][1].was_enable = frames[u][1].was_enable
      BY <3>1 DEF RecordInv, SavedInv
    <3>2. CASE /\ Lock(u) /\ Len(frames[u]) = 1
               /\ frames'[u][1].was_enable = enable[get_per_thread(u)]
      <4>1. lock[get_per_thread(u)].depth = Len(frames[u]) - 1
        BY <1>1, <3>2, LockEffect
      <4>2. lock[get_per_thread(u)].depth = 0
        BY <3>2, <4>1
      <4> QED BY <3>2, <4>2, SlotOf DEF RecordInv, RecordingOn
    <3> QED BY <3>1, <3>2, FirstAfter
  <2>3. RecordingOn'
    <3> SUFFICES ASSUME NEW s \in Slots, lock'[s].depth = 0
                 PROVE  enable'[s] = (phase = "running")
      BY <2>1 DEF RecordingOn, Slots
    <3>1. CASE lock[s].depth = 0
      BY <1>4, <3>1, FlagAtRest DEF RecordInv, RecordingOn
    <3>2. CASE \E t \in Threads :
                 /\ Top(t) = frames[t][1] /\ Holds(Top(t)) /\ frames[t] # <<>>
                 /\ enable'[s] = Top(t).was_enable
      BY <3>2 DEF RecordInv, SavedInv
    <3> QED BY <3>1, <3>2, LockAfter
  <2> QED BY <2>2, <2>3 DEF RecordInv
<1> QED BY <1>2, <1>3, <1>4

(* If main waits for every thread, the flags are right in every reachable   *)
(* state.                                                                   *)
THEOREM RecordInvariant == ASSUME NoDetached PROVE Spec => [](CallInv /\ RecordInv)
<1>1. Init => RecordInv
  BY RecordInit
<1>2. CallInv /\ RecordInv /\ [Next]_vars => RecordInv'
  BY RecordNext
<1> QED BY <1>1, <1>2, CallInvariant, PTL DEF Spec

(* RecordingOn: between calls the flag of a slot is set exactly while the   *)
(* recorder is at work, after nested calls and exceptions too, if main      *)
(* waits for every thread.                                                  *)
THEOREM SlotsRecord == ASSUME NoDetached PROVE Spec => []RecordingOn
BY RecordInvariant, PTL DEF RecordInv

(* LogFrozen: no step appends to a log once ~GlobalData began to copy them, *)
(* if main waits for every thread.                                          *)
THEOREM LogIsFrozen == ASSUME NoDetached PROVE Spec => LogFrozen
<1>1. CallInv /\ RecordInv /\ [Next]_vars =>
         [(phase \in {"copying", "destroyed"}) => UNCHANGED actions]_vars
  <2> SUFFICES ASSUME CallInv, RecordInv, [Next]_vars, phase \in {"copying", "destroyed"},
                      NEW t \in Threads, PushBack(t)
               PROVE  FALSE
    BY ActionsAfter
  <2>1. frames[t] # <<>> /\ Holds(frames[t][1]) /\ frames[t][1].was_enable
    BY PushBackAt DEF CallInv
  <2> QED BY <2>1 DEF RecordInv, SavedInv
<1> QED BY <1>1, RecordInvariant, PTL DEF Spec, LogFrozen

-------------------------------------------------------------------------------
(* Blocks that nobody has.                                                 *)

(* Some call has the block; nobody has it.                                  *)
Carried(p) == \E t \in Threads : \E i \in 1 .. Len(frames[t]) : Carries(frames[t][i], p)
Unkept(p) == p \in heap \ pool /\ (\A b \in held : b.ptr # p) /\ ~Carried(p)

(* The blocks that are lost are those that nobody has ...                   *)
LEMMA LostIsUnkept == ASSUME Shape PROVE \A p : p \in Lost <=> Unkept(p)
<1>1. \A t \in Threads : DOMAIN frames[t] = 1 .. Len(frames[t])
  BY DEF Shape
<1>2. \A p : Handled(p) <=> Carried(p)
  BY <1>1 DEF Handled, Carried, Carries
<1> QED BY <1>2 DEF Lost, Unkept

(* ... also after a step.                                                   *)
LEMMA LostIsUnkeptNext == ASSUME Shape' PROVE \A p : p \in Lost' <=> Unkept(p)'
<1>1. \A t \in Threads : DOMAIN frames'[t] = 1 .. Len(frames'[t])
  BY DEF Shape
<1>2. \A p : Handled(p)' <=> Carried(p)'
  BY <1>1 DEF Handled, Carried, Carries
<1> QED BY <1>2 DEF Lost, Unkept

(* The frame on top goes on, and carries what it carried.                  *)
LEMMA TopStillCarries ==
    ASSUME GuardInv, NEW t \in Threads, frames[t] # <<>>, NEW g \in Frame, SetTop(t, g),
           g.ptr = Top(t).ptr, g.hook = Top(t).hook, Top(t).pc # "leave",
           g.hook \in News \/ g.pc # "leave"
    PROVE  \A p : Carried(p)' <=> Carried(p)
<1> DEFINE n == Len(frames[t])
<1>1. /\ Len(frames'[t]) = n /\ n \in {1, 2} /\ frames'[t][n] = g
      /\ \A i \in 1 .. n : i # n => frames'[t][i] = frames[t][i]
      /\ \A u \in Threads : u # t => frames'[u] = frames[u]
  BY FramesAfter
<1>2. Top(t) = frames[t][n]
  BY TopFrame
<1>3. \A p : Carries(g, p) <=> Carries(frames[t][n], p)
  BY <1>2 DEF Carries
<1> HIDE DEF n
<1>4. \A u \in Threads : Len(frames'[u]) = Len(frames[u])
  BY <1>1 DEF n
<1>5. \A u \in Threads : \A i \in 1 .. Len(frames[u]) : \A p :
         Carries(frames'[u][i], p) <=> Carries(frames[u][i], p)
  BY <1>1, <1>3 DEF n
<1>6. \A p : Carried(p)' <=>
         \E u \in Threads : \E i \in 1 .. Len(frames'[u]) : Carries(frames'[u][i], p)
  BY DEF Carried, Carries
<1> QED BY <1>4, <1>5, <1>6 DEF Carried

(* The stack of t becomes one frame or none.                               *)
LEMMA OneFrameCarries ==
    ASSUME GuardInv, NEW t \in Threads, NEW h, frames' = [frames EXCEPT ![t] = <<h>>]
    PROVE  \A p : Carried(p)' <=>
              \/ Carries(h, p)
              \/ \E u \in Threads : u # t /\ \E i \in 1 .. Len(frames[u]) : Carries(frames[u][i], p)
<1>1. /\ frames'[t] = <<h>> /\ Len(frames'[t]) = 1 /\ frames'[t][1] = h /\ 1 \in 1 .. 1
      /\ \A u \in Threads : u # t => frames'[u] = frames[u]
      /\ \A i \in 1 .. 1 : i = 1
  BY DEF GuardInv, Shape
<1> QED BY <1>1 DEF Carried, Carries

(* Nothing gets lost if nothing changes hands.                              *)
LEMMA LosesNothing ==
    ASSUME UNCHANGED <<heap, held, pool>>, \A p : Carried(p)' <=> Carried(p)
    PROVE  \A p : Unkept(p)' <=> Unkept(p)
BY DEF Unkept

(* A block that malloc returns is in the hands of the call.                 *)
LEMMA MallocLoses ==
    ASSUME CallInv, NEW t \in Threads, Malloc(t)
    PROVE  \A p : Unkept(p)' <=> Unkept(p)
<1>1. GuardInv
  BY DEF CallInv
<1> DEFINE n == Len(frames[t])
<1>2. PICK q \in (Addresses \ heap) \cup {nullptr}, g \in Frame :
         /\ heap' = heap \cup ({q} \ {nullptr}) /\ SetTop(t, g) /\ g.ptr = q
         /\ g.hook = Top(t).hook
  BY <1>1, MallocEffect DEF Becomes
<1>3. /\ frames[t] # <<>> /\ Top(t).pc = "malloc" /\ UNCHANGED <<held, pool>>
      /\ Top(t) = frames[t][n] /\ WellFormed(Top(t))
  BY <1>1, TopFrame DEF Malloc, At
<1>4. Top(t).hook \in News /\ Top(t).ptr = nullptr
  BY <1>3 DEF WellFormed
<1>5. /\ Len(frames'[t]) = n /\ n \in {1, 2} /\ frames'[t][n] = g
      /\ \A i \in 1 .. n : i # n => frames'[t][i] = frames[t][i]
      /\ \A u \in Threads : u # t => frames'[u] = frames[u]
  BY <1>1, <1>2, <1>3, FramesAfter
<1> HIDE DEF n
<1>6. ASSUME NEW p, p # q, p # nullptr PROVE Carried(p)' <=> Carried(p)
  <2>1. ~Carries(g, p) /\ ~Carries(frames[t][n], p)
    BY <1>2, <1>3, <1>4, <1>6 DEF Carries
  <2>2. \A u \in Threads : \A i \in 1 .. Len(frames[u]) :
           /\ i \in 1 .. Len(frames'[u])
           /\ Carries(frames'[u][i], p) <=> Carries(frames[u][i], p)
    BY <1>5, <2>1 DEF n
  <2>3. \A u \in Threads : \A i \in 1 .. Len(frames'[u]) : i \in 1 .. Len(frames[u])
    BY <1>5 DEF n
  <2> QED BY <2>2, <2>3 DEF Carried, Carries
<1>7. Carried(q)'
  BY <1>2, <1>4, <1>5 DEF Carried, Carries, n
<1>8. nullptr \notin heap /\ nullptr \notin heap'
  BY <1>2, ThreadsAssumption DEF CallInv, OwnInv
<1>9. q \notin heap
  BY <1>2, <1>8
<1>10. \A p : p # q => (p \in heap' <=> p \in heap)
  BY <1>2
<1> QED BY <1>3, <1>6, <1>7, <1>8, <1>9, <1>10 DEF Unkept

(* A block that is freed is not lost.                                       *)
LEMMA FreeLoses ==
    ASSUME CallInv, NEW t \in Threads, Free(t)
    PROVE  \A p : Unkept(p)' <=> Unkept(p)
<1>1. GuardInv
  BY DEF CallInv
<1> DEFINE n == Len(frames[t])
           q == Top(t).ptr
<1>2. PICK g \in Frame : SetTop(t, g) /\ g.ptr = q
  BY <1>1, FreeEffect DEF Becomes
<1>3. /\ frames[t] # <<>> /\ Top(t).pc = "free" /\ UNCHANGED <<held, pool>>
      /\ heap' = heap \ {q} /\ Top(t) = frames[t][n]
  BY <1>1, TopFrame DEF Free, At
<1>4. /\ Len(frames'[t]) = n /\ n \in {1, 2} /\ frames'[t][n] = g
      /\ \A i \in 1 .. n : i # n => frames'[t][i] = frames[t][i]
      /\ \A u \in Threads : u # t => frames'[u] = frames[u]
  BY <1>1, <1>2, <1>3, FramesAfter
<1>5. Carried(q)
  <2>1. Carries(frames[t][n], q)
    BY <1>3 DEF Carries
  <2> QED BY <1>4, <2>1 DEF Carried
<1> HIDE DEF n, q
<1>6. ASSUME NEW p, p # q PROVE Carried(p)' <=> Carried(p)
  <2>1. ~Carries(g, p) /\ ~Carries(frames[t][n], p)
    BY <1>2, <1>3, <1>6 DEF Carries, q
  <2>2. \A u \in Threads : \A i \in 1 .. Len(frames[u]) :
           /\ i \in 1 .. Len(frames'[u])
           /\ Carries(frames'[u][i], p) <=> Carries(frames[u][i], p)
    BY <1>4, <2>1 DEF n
  <2>3. \A u \in Threads : \A i \in 1 .. Len(frames'[u]) : i \in 1 .. Len(frames[u])
    BY <1>4 DEF n
  <2> QED BY <2>2, <2>3 DEF Carried, Carries
<1> QED BY <1>3, <1>5, <1>6 DEF Unkept

(* Blocks pass from hand to hand; only an exception drops one.             *)
LEMMA CallsLose ==
    ASSUME CallInv, NEW t \in Threads, CallNew(t) \/ CallDelete(t) \/ Return(t)
    PROVE  \A p : Unkept(p)' <=> Unkept(p)
<1>1. GuardInv /\ HeldTyped /\ heap \subseteq Addresses
  BY HeldAreTyped DEF CallInv, OwnInv
<1>2. nullptr \notin heap
  BY <1>1, ThreadsAssumption
<1>3. CASE CallNew(t)
  <2>1. PICK f \in Frame : frames' = [frames EXCEPT ![t] = <<f>>] /\ f.ptr = nullptr
    BY <1>1, <1>3, CallNewInv
  <2>2. frames[t] = <<>> /\ Len(frames[t]) = 0 /\ UNCHANGED <<heap, held, pool>>
    BY <1>3 DEF CallNew, MayCall
  <2>3. \A p : p \in heap => (Carried(p)' <=> Carried(p))
    <3>1. \A p : p \in heap => ~Carries(f, p)
      BY <1>2, <2>1 DEF Carries
    <3>2. \A p : Carried(p) <=>
             \E u \in Threads : u # t /\ \E i \in 1 .. Len(frames[u]) : Carries(frames[u][i], p)
      BY <2>2 DEF Carried
    <3> QED BY <1>1, <2>1, <3>1, <3>2, OneFrameCarries
  <2> QED BY <2>2, <2>3 DEF Unkept
<1>4. CASE CallDelete(t)
  <2>1. PICK b \in held, f \in Frame :
           /\ held' = held \ {b} /\ frames' = [frames EXCEPT ![t] = <<f>>] /\ f.ptr = b.ptr
           /\ f.pc = IF global THEN "lock" ELSE "free"
    BY <1>1, <1>4, CallDeleteInv
  <2>2. frames[t] = <<>> /\ Len(frames[t]) = 0 /\ UNCHANGED <<heap, pool>>
    BY <1>4 DEF CallDelete, MayCall
  <2>3. \A p : Carried(p)' <=> Carried(p) \/ p = b.ptr
    <3>1. \A p : Carries(f, p) <=> p = b.ptr
      BY <2>1 DEF Carries
    <3>2. \A p : Carried(p) <=>
             \E u \in Threads : u # t /\ \E i \in 1 .. Len(frames[u]) : Carries(frames[u][i], p)
      BY <2>2 DEF Carried
    <3> QED BY <1>1, <2>1, <3>1, <3>2, OneFrameCarries
  <2> QED BY <2>1, <2>2, <2>3 DEF Unkept
<1>5. CASE Return(t)
  <2> DEFINE q == Top(t).ptr
  <2>1. /\ Len(frames[t]) = 1 /\ Top(t) = frames[t][1] /\ Top(t).pc = "leave"
        /\ UNCHANGED <<heap, pool>>
    BY <1>1, <1>5, TopFrame DEF Return, At
  <2>2. /\ frames'[t] = <<>> /\ Len(frames'[t]) = 0
        /\ \A u \in Threads : u # t => frames'[u] = frames[u]
    BY <1>1, <1>5 DEF Return, GuardInv, Shape
  <2>3. \A p : Carried(p) <=> Carried(p)' \/ (Top(t).hook \in News /\ p = q)
    <3>1. \A p : Carried(p)' <=>
             \E u \in Threads : u # t /\ \E i \in 1 .. Len(frames[u]) : Carries(frames[u][i], p)
      BY <2>2 DEF Carried, Carries
    <3>2. \A p : Carries(frames[t][1], p) <=> (Top(t).hook \in News /\ p = q)
      BY <2>1 DEF Carries
    <3>3. \A p : Carried(p) <=> Carried(p)' \/ Carries(frames[t][1], p)
      <4>1. 1 \in 1 .. 1 /\ \A i \in 1 .. 1 : i = 1
        OBVIOUS
      <4> QED BY <2>1, <3>1, <4>1 DEF Carried
    <3> QED BY <3>2, <3>3
  <2>4. CASE Top(t).hook \in News /\ q # nullptr
    <3> DEFINE b == [ptr |-> q, by |-> Top(t).hook, known |-> Top(t).guarded]
    <3>1. held' = held \cup {b} /\ b.ptr = q
      BY <1>5, <2>4 DEF Return
    <3> HIDE DEF b, q
    <3> QED BY <2>1, <2>3, <2>4, <3>1 DEF Unkept
  <2>5. CASE ~(Top(t).hook \in News /\ q # nullptr)
    <3>1. UNCHANGED held
      BY <1>5, <2>5 DEF Return
    <3> HIDE DEF q
    <3> QED BY <1>2, <2>1, <2>3, <2>5, <3>1 DEF Unkept
  <2> QED BY <2>4, <2>5
<1> QED BY <1>3, <1>4, <1>5

(* The inner call hands its block to the pool.                              *)
LEMMA PushLoses ==
    ASSUME CallInv, NEW t \in Threads, PushAllocates(t) \/ ReturnToPush(t)
    PROVE  \A p : Unkept(p)' <=> Unkept(p)
<1>1. GuardInv /\ heap \subseteq Addresses
  BY DEF CallInv, OwnInv
<1>2. nullptr \notin heap
  BY <1>1, ThreadsAssumption
<1>3. CASE PushAllocates(t)
  <2> DEFINE f == NewFrame("new", nullptr)
  <2>1. f \in Frame /\ f.ptr = nullptr
    BY <1>1, FrameBegins DEF GuardInv, Hooks, News
  <2>2. /\ frames'[t] = Append(frames[t], f) /\ UNCHANGED <<heap, held, pool>>
        /\ Len(frames[t]) = 1 /\ frames[t] \in Seq(Frame)
        /\ \A u \in Threads : u # t => frames'[u] = frames[u]
    BY <1>1, <1>3 DEF PushAllocates, GuardInv, Shape
  <2> HIDE DEF f
  <2>3. Len(frames'[t]) = 2 /\ frames'[t][1] = frames[t][1] /\ frames'[t][2] = f
    BY <2>1, <2>2, AppendProperties
  <2>4. \A p : p \in heap => ~Carries(f, p)
    BY <1>2, <2>1 DEF Carries
  <2>5. \A u \in Threads : \A i \in 1 .. Len(frames[u]) :
           i \in 1 .. Len(frames'[u]) /\ frames'[u][i] = frames[u][i]
    BY <2>2, <2>3
  <2>6. \A u \in Threads : \A i \in 1 .. Len(frames'[u]) :
           i \in 1 .. Len(frames[u]) \/ frames'[u][i] = f
    BY <2>2, <2>3
  <2>7. \A p : p \in heap => (Carried(p)' <=> Carried(p))
    BY <2>4, <2>5, <2>6 DEF Carried, Carries
  <2> QED BY <2>2, <2>7 DEF Unkept
<1>4. CASE ReturnToPush(t)
  <2>1. At(t, "leave") /\ Len(frames[t]) > 1 /\ UNCHANGED <<heap, held>>
    BY <1>4 DEF ReturnToPush
  <2>2. Len(frames[t]) = 2 /\ frames[t][2].hook = "new"
    BY <1>1, <2>1, Nested
  <2> DEFINE q == frames[t][2].ptr
             h == frames[t][1]
  <2>3. frames' = [frames EXCEPT ![t] = <<h>>] /\ pool' = pool \cup {q}
    BY <1>1, <1>4, ReturnToPushInv
  <2>4. \A p : Carries(frames[t][2], p) <=> p = q
    BY <2>2 DEF Carries, News
  <2>5. \A p : Carried(p) <=>
           \/ Carries(h, p) \/ p = q
           \/ \E u \in Threads : u # t /\ \E i \in 1 .. Len(frames[u]) : Carries(frames[u][i], p)
    BY <2>2, <2>4 DEF Carried
  <2> HIDE DEF q, h
  <2>6. \A p : Carried(p) <=> Carried(p)' \/ p = q
    BY <1>1, <2>3, <2>5, OneFrameCarries
  <2> QED BY <2>1, <2>3, <2>6 DEF Unkept
<1> QED BY <1>3, <1>4

(* The exception drops the block of operator new, and no other.             *)
LEMMA ThrowLoses ==
    ASSUME CallInv, NEW t \in Threads, ThrowFromPush(t)
    PROVE  /\ t \in Throwing
           /\ \A p : Unkept(p) => Unkept(p)'
           /\ \A p : Unkept(p)' => Unkept(p) \/ p = frames[t][1].ptr
<1>1. GuardInv /\ heap \subseteq Addresses
  BY DEF CallInv, OwnInv
<1>2. nullptr \notin heap
  BY <1>1, ThreadsAssumption
<1>3. /\ At(t, "leave") /\ Len(frames[t]) > 1 /\ Top(t).ptr = nullptr
      /\ UNCHANGED <<heap, held, pool>>
  BY DEF ThrowFromPush
<1>4. Len(frames[t]) = 2 /\ Top(t) = frames[t][2]
  BY <1>1, <1>3, Nested
<1>5. PICK h \in Frame : frames' = [frames EXCEPT ![t] = <<h>>] /\ h.ptr = nullptr
  BY <1>1, ThrowFromPushInv
<1>6. \A p : p \in heap => ~Carries(h, p) /\ ~Carries(frames[t][2], p)
  BY <1>2, <1>3, <1>4, <1>5 DEF Carries
<1>7. \A p : Carried(p) <=>
         \/ Carries(frames[t][1], p) \/ Carries(frames[t][2], p)
         \/ \E u \in Threads : u # t /\ \E i \in 1 .. Len(frames[u]) : Carries(frames[u][i], p)
  BY <1>4 DEF Carried
<1>8. \A p : Carries(frames[t][1], p) => p = frames[t][1].ptr
  BY DEF Carries
<1>9. \A p : p \in heap => /\ Carried(p)' => Carried(p)
                           /\ Carried(p) => Carried(p)' \/ p = frames[t][1].ptr
  BY <1>1, <1>5, <1>6, <1>7, <1>8, OneFrameCarries
<1> QED BY <1>3, <1>9 DEF Unkept, Throwing

(* A step loses what push_back throws over, and finds nothing again.        *)
LEMMA LosesAtMost ==
    ASSUME CallInv, [Next]_vars, ended' # Threads, NEW p
    PROVE  /\ Unkept(p) => Unkept(p)'
           /\ Unkept(p)' => Unkept(p) \/ \E t \in Throwing : p = frames[t][1].ptr
<1>1. GuardInv /\ clock \in Nat /\ HeldTyped
  BY HeldAreTyped DEF CallInv
<1>2. CASE Construct \/ Shutdown \/ UNCHANGED vars \/ \E t \in Threads : ThreadEnd(t)
  <2>1. UNCHANGED <<heap, held, pool, frames>>
    BY <1>2 DEF Construct, Shutdown, vars, ThreadEnd
  <2> QED BY <2>1 DEF Unkept, Carried
<1>3. CASE Destroy
  <2> DEFINE given == [ptr : pool, by : {"new"}, known : {FALSE}]
  <2>1. held' = held \cup given /\ pool' = {} /\ UNCHANGED <<heap, frames>>
    BY <1>3 DEF Destroy
  <2>2. \A b \in given : b.ptr \in pool
    OBVIOUS
  <2>3. ASSUME NEW q \in pool PROVE \E b \in given : b.ptr = q
    <3>1. [ptr |-> q, by |-> "new", known |-> FALSE] \in given
      OBVIOUS
    <3> QED BY <3>1
  <2> HIDE DEF given
  <2>4. Carried(p)' <=> Carried(p)
    BY <2>1 DEF Carried
  <2> QED BY <2>1, <2>2, <2>3, <2>4 DEF Unkept
<1>4. ASSUME NEW t \in Threads, CallNew(t) \/ CallDelete(t) \/ Return(t)
      PROVE  Unkept(p)' <=> Unkept(p)
  BY <1>4, CallsLose
<1>5. ASSUME NEW t \in Threads, PushAllocates(t) \/ ReturnToPush(t)
      PROVE  Unkept(p)' <=> Unkept(p)
  BY <1>5, PushLoses
<1>6. ASSUME NEW t \in Threads, Malloc(t) \/ Free(t)
      PROVE  Unkept(p)' <=> Unkept(p)
  BY <1>6, MallocLoses, FreeLoses
<1>7. ASSUME NEW t \in Threads, Lock(t) \/ Stamp(t) \/ PushBack(t)
      PROVE  Unkept(p)' <=> Unkept(p)
  <2>1. frames[t] # <<>> /\ Top(t).pc # "leave" /\ UNCHANGED <<heap, held, pool>>
    BY <1>7 DEF Lock, Stamp, PushBack, At
  <2>2. PICK g \in Frame :
           /\ SetTop(t, g) /\ g.ptr = Top(t).ptr /\ g.hook = Top(t).hook
           /\ g.hook \in News \/ g.pc # "leave"
    <3>1. CASE Lock(t)
      BY <1>1, <3>1, LockEffect DEF SetTop
    <3>2. CASE Stamp(t)
      BY <1>1, <3>2, StampEffect DEF Becomes
    <3>3. CASE PushBack(t)
      BY <1>1, <3>3, PushBackEffect DEF Becomes
    <3> QED BY <1>7, <3>1, <3>2, <3>3
  <2> QED BY <1>1, <2>1, <2>2, TopStillCarries, LosesNothing
<1>8. ASSUME NEW t \in Threads, ThrowFromPush(t)
      PROVE  /\ Unkept(p) => Unkept(p)'
             /\ Unkept(p)' => Unkept(p) \/ \E u \in Throwing : p = frames[u][1].ptr
  BY <1>8, ThrowLoses
<1>9. \A t \in Threads : ~Terminate(t)
  BY DEF Terminate
<1> QED
  BY <1>2, <1>3, <1>4, <1>5, <1>6, <1>7, <1>8, <1>9 DEF Next, Proceed, Elsewhere

(* OnlyThrownPushesLose: the one way for a block of malloc to get lost is   *)
(* that push_back throws inside operator new, for every number of threads,  *)
(* slots and addresses.                                                     *)
THEOREM OnlyThrowsLose == Spec => OnlyThrownPushesLose
<1>1. CallInv /\ CallInv' /\ [Next]_vars =>
         [ended' # Threads =>
             /\ Lost \subseteq Lost'
             /\ Lost' \subseteq Lost \cup {frames[t][1].ptr : t \in Throwing}]_vars
  <2> SUFFICES ASSUME CallInv, CallInv', [Next]_vars, ended' # Threads
               PROVE  /\ Lost \subseteq Lost'
                      /\ Lost' \subseteq Lost \cup {frames[t][1].ptr : t \in Throwing}
    OBVIOUS
  <2>1. \A p : (p \in Lost <=> Unkept(p)) /\ (p \in Lost' <=> Unkept(p)')
    BY LostIsUnkept, LostIsUnkeptNext DEF CallInv, GuardInv
  <2> QED BY <2>1, LosesAtMost
<1> QED BY <1>1, CallInvariant, PTL DEF Spec, OnlyThrownPushesLose

-------------------------------------------------------------------------------
(* While the recorder is at work it records, whoever else runs.            *)

(* RecordInv as far as it holds with detached threads too: every guard has  *)
(* saved the flag as set, or the flag is set.                               *)
RunInv ==
    phase = "running" =>
        /\ \A t \in Threads : frames[t] # <<>> /\ Holds(frames[t][1]) => frames[t][1].was_enable
        /\ \A s \in Slots : lock[s].depth = 0 => enable[s]

(* Only ~GlobalData clears a flag for good.                                 *)
LEMMA RunNext == ASSUME CallInv, RunInv, [Next]_vars PROVE RunInv'
<1>1. GuardInv /\ HeldTyped /\ clock \in Nat
  BY HeldAreTyped DEF CallInv
<1>2. CASE Construct
  <2>1. /\ phase = "static" /\ phase' = "running" /\ frames' = frames
        /\ enable' = [s \in Slots |-> TRUE]
    BY <1>2 DEF Construct
  <2>2. ASSUME NEW t \in Threads, frames[t] # <<>>
        PROVE  ~Holds(frames[t][1])
    <3>1. 1 \in 1 .. Len(frames[t])
      BY <1>1, <2>2, TopFrame
    <3> QED BY <1>1, <2>1, <3>1 DEF GuardInv, Stacks, Holds, global
  <2> QED BY <2>1, <2>2 DEF RunInv, Slots, Holds
<1>3. CASE ~Construct
  <2> SUFFICES ASSUME phase' = "running" PROVE RunInv'
    BY DEF RunInv
  <2>1. ~Shutdown /\ phase = "running"
    BY <1>3 DEF Next, vars, recorder, Shutdown, Destroy, CallNew, CallDelete, Lock, Proceed,
       Malloc, Stamp, PushAllocates, PushBack, Free, Return, ReturnToPush, ThrowFromPush,
       Terminate, ThreadEnd, Elsewhere
  <2>2. ASSUME NEW u \in Threads, frames'[u] # <<>>, Holds(frames'[u][1])
        PROVE  frames'[u][1].was_enable
    <3>1. CASE /\ frames[u] # <<>> /\ Holds(frames[u][1])
               /\ frames'[u][1].was_enable = frames[u][1].was_enable
      BY <2>1, <3>1 DEF RunInv
    <3>2. CASE /\ Lock(u) /\ Len(frames[u]) = 1
               /\ frames'[u][1].was_enable = enable[get_per_thread(u)]
      <4>1. lock[get_per_thread(u)].depth = Len(frames[u]) - 1
        BY <1>1, <3>2, LockEffect
      <4>2. lock[get_per_thread(u)].depth = 0
        BY <3>2, <4>1
      <4> QED BY <2>1, <3>2, <4>2, SlotOf DEF RunInv
    <3> QED BY <2>2, <3>1, <3>2, FirstAfter
  <2>3. ASSUME NEW s \in Slots, lock'[s].depth = 0
        PROVE  enable'[s]
    <3>1. CASE lock[s].depth = 0
      BY <1>3, <2>1, <2>3, <3>1, FlagAtRest DEF RunInv
    <3>2. CASE \E t \in Threads :
                 /\ Top(t) = frames[t][1] /\ Holds(Top(t)) /\ frames[t] # <<>>
                 /\ enable'[s] = Top(t).was_enable
      BY <2>1, <3>2 DEF RunInv
    <3> QED BY <2>3, <3>1, <3>2, LockAfter
  <2> QED BY <2>2, <2>3 DEF RunInv, Slots, Holds
<1> QED BY <1>2, <1>3

(* While the recorder is at work every call that has the mutex of its slot  *)
(* found the flag set, with detached threads or without.                    *)
THEOREM RunInvariant == Spec => [](CallInv /\ RunInv)
<1>1. Init => RunInv
  BY DEF Init, RunInv
<1>2. CallInv /\ RunInv /\ [Next]_vars => RunInv'
  BY RunNext
<1> QED BY <1>1, <1>2, CallInvariant, PTL DEF Spec

===============================================================================
