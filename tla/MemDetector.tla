------------------------------ MODULE MemDetector -----------------------------
(***************************************************************************)
(* The allocation recorder of MemDetector.hpp: operator new and operator   *)
(* delete are replaced, and an EnableGuard around each call keeps the log  *)
(* of a slot, shared by some threads, behind a recursive mutex.  Appending *)
(* to the log may allocate, through the replaced operators themselves; the *)
(* guard clears the slot's flag `enable` so that this is not recorded.     *)
(*                                                                         *)
(* A call is a frame on its thread's stack whose pc names the next step.   *)
(* The recorder is a static object: the thread MAIN constructs it before,  *)
(* and destroys it after, everything else in main.  What is compiled only  *)
(* with HAS_THREADS or MANUAL_GLOBAL_INIT, which nothing defines, is left  *)
(* out, and so is delete of a null pointer, which records and frees        *)
(* nothing.                                                                *)
(***************************************************************************)
EXTENDS Integers, Sequences, FiniteSets, SequencesExt, AllocAction

CONSTANTS
    Threads,          \* the system's numbers of the threads
    MAIN,             \* the thread of main and of the static objects
    DETACHED,         \* the threads main does not wait for
    Addresses,        \* where malloc may place a block
    nullptr,
    kPerThreadsCount, \* number of slots
    MAX_RECORDS       \* bound: calls start while fewer are recorded or open

ASSUME ThreadsAssumption ==
    /\ Threads \subseteq Nat /\ IsFiniteSet(Threads) /\ MAIN \in Threads
    /\ DETACHED \subseteq Threads \ {MAIN}
    /\ IsFiniteSet(Addresses) /\ nullptr \notin Addresses
    /\ kPerThreadsCount \in Nat \ {0} /\ MAX_RECORDS \in Nat

VARIABLES
    phase,      \* of the recorder, see Phases
    enable,     \* PerThreadData::enable of each slot
    lock,       \* PerThreadData::lock of each slot: [owner, depth]
    actions,    \* PerThreadData::actions of each slot
    clock,      \* the last time high_resolution_clock told
    frames,     \* the calls of operator new and delete in progress
    heap,       \* the blocks of malloc
    held,       \* blocks of the program: [ptr, by, known], known if recorded
    pool,       \* the blocks that the logs take from operator new
    ended       \* the threads that ended; all of them after std::terminate

vars == <<phase, enable, lock, actions, clock, frames, heap, held, pool, ended>>
recorder == <<phase, enable, lock, actions, clock>>

(* Before global is set; while it records; while ~GlobalData copies the    *)
(* logs; after it, when global still points to the destroyed object.       *)
Phases == {"static", "running", "copying", "destroyed"}

Slots == 0 .. kPerThreadsCount - 1
get_per_thread(t) == (t * 17) % kPerThreadsCount

global == phase # "static"

-------------------------------------------------------------------------------
(* The steps of a call.                                                    *)

News == {"new", "new[]"}

(* A block is given back by the form of delete for the form of new.        *)
DeleteFor(new) == IF new = "new" THEN "delete" ELSE "delete[]"

(* Mutant of LoggedOp: the line of new copied to new[].                    *)
LoggedOpCopied(hook) ==
    CASE hook \in News -> "New" [] hook = "delete" -> "Delete" [] hook = "delete[]" -> "DeleteArray"

(* What each of the replaced operators says that it is.                    *)
LoggedOp(hook) ==
    CASE hook = "new"    -> "New"    [] hook = "new[]"    -> "NewArray"
      [] hook = "delete" -> "Delete" [] hook = "delete[]" -> "DeleteArray"

(* Mutant of Program: free before the record is made.                      *)
ProgramFreesFirst(hook) ==
    IF hook \in News THEN <<"enter", "lock", "malloc", "stamp", "append", "leave">>
                     ELSE <<"enter", "lock", "free", "stamp", "append", "leave">>

(* operator new allocates and records, operator delete records and frees.  *)
Program(hook) ==
    IF hook \in News THEN <<"enter", "lock", "malloc", "stamp", "append", "leave">>
                     ELSE <<"enter", "lock", "stamp", "append", "free", "leave">>

(* Mutant of Skipped: the result of malloc is recorded without a look.     *)
SkippedUnchecked(f) ==
    (IF f.guarded THEN {} ELSE {"lock"})
      \cup (IF f.was_enable THEN {} ELSE {"stamp", "append"})

(* Mutant of Skipped: operator delete returns early if nothing is recorded.*)
SkippedFree(f) ==
    (IF f.guarded THEN {} ELSE {"lock"})
      \cup (IF f.was_enable /\ f.ptr # nullptr THEN {} ELSE {"stamp", "append", "free"})

(* No lock without a slot, no record unless the slot was enabled, and none *)
(* of a null pointer.                                                      *)
Skipped(f) ==
    (IF f.guarded THEN {} ELSE {"lock"})
      \cup (IF f.was_enable /\ f.ptr # nullptr THEN {} ELSE {"stamp", "append"})

Advance(f) ==
    LET program == Program(f.hook)
        now     == CHOOSE i \in DOMAIN program : program[i] = f.pc
        later   == {i \in DOMAIN program : i > now /\ program[i] \notin Skipped(f)}
    IN  [f EXCEPT !.pc = program[CHOOSE i \in later : \A j \in later : i <= j]]

(* EnableGuard's constructor looks up the slot if there is a recorder.     *)
NewFrame(hook, ptr) ==
    Advance([hook |-> hook, ptr |-> ptr, guarded |-> global, was_enable |-> FALSE,
             time |-> 0, pc |-> "enter"])

Top(t) == Last(frames[t])
At(t, pc) == frames[t] # <<>> /\ Top(t).pc = pc
SetTop(t, f) == frames' = [frames EXCEPT ![t][Len(frames[t])] = f]

Record(t) ==
    [op |-> LoggedOp(Top(t).hook), tid |-> t, ptr |-> Top(t).ptr, time |-> Top(t).time]

-------------------------------------------------------------------------------
Init ==
    /\ phase = "static"
    /\ enable = [s \in Slots |-> FALSE]
    /\ lock = [s \in Slots |-> [owner |-> 0, depth |-> 0]]
    /\ actions = [s \in Slots |-> <<>>]
    /\ clock = 0
    /\ frames = [t \in Threads |-> <<>>]
    /\ heap = {} /\ held = {} /\ pool = {}
    /\ ended = {}

(* GlobalData is constructed, then global is set; no slot is in use yet.   *)
Construct ==
    /\ phase = "static" /\ frames[MAIN] = <<>> /\ MAIN \notin ended
    /\ phase' = "running"
    /\ enable' = [s \in Slots |-> TRUE]
    /\ UNCHANGED <<lock, actions, clock, frames, heap, held, pool, ended>>

(* The program may call as long as the bound leaves room for the record.   *)
MayCall(t) ==
    /\ t \notin ended /\ frames[t] = <<>>
    /\ clock + Cardinality({u \in Threads : frames[u] # <<>>}) < MAX_RECORDS

CallNew(t) ==
    /\ MayCall(t)
    /\ \E new \in News : frames' = [frames EXCEPT ![t] = <<NewFrame(new, nullptr)>>]
    /\ UNCHANGED <<recorder, heap, held, pool, ended>>

(* Any thread may delete any block.                                        *)
CallDelete(t) ==
    /\ MayCall(t)
    /\ \E b \in held :
          /\ held' = held \ {b}
          /\ frames' = [frames EXCEPT ![t] = <<NewFrame(DeleteFor(b.by), b.ptr)>>]
    /\ UNCHANGED <<recorder, heap, pool, ended>>

(* Mutant of Lock: the flag stays set.                                     *)
LockKeepsEnabled(t) ==
    LET s == get_per_thread(t)
    IN  /\ At(t, "lock")
        /\ lock[s].depth = 0 \/ lock[s].owner = t
        /\ lock' = [lock EXCEPT ![s] = [owner |-> t, depth |-> lock[s].depth + 1]]
        /\ SetTop(t, Advance([Top(t) EXCEPT !.was_enable = enable[s]]))
        /\ UNCHANGED <<phase, enable, actions, clock, heap, held, pool, ended>>

(* The guard takes the recursive mutex, then saves and clears the flag.    *)
Lock(t) ==
    LET s == get_per_thread(t)
    IN  /\ At(t, "lock")
        /\ lock[s].depth = 0 \/ lock[s].owner = t
        /\ lock' = [lock EXCEPT ![s] = [owner |-> t, depth |-> lock[s].depth + 1]]
        /\ SetTop(t, Advance([Top(t) EXCEPT !.was_enable = enable[s]]))
        /\ enable' = [enable EXCEPT ![s] = FALSE]
        /\ UNCHANGED <<phase, actions, clock, heap, held, pool, ended>>

(* malloc finds any free place or fails.                                   *)
Malloc(t) ==
    /\ At(t, "malloc")
    /\ \E p \in (Addresses \ heap) \cup {nullptr} :
          /\ heap' = heap \cup ({p} \ {nullptr})
          /\ SetTop(t, Advance([Top(t) EXCEPT !.ptr = p]))
    /\ UNCHANGED <<recorder, held, pool, ended>>

(* on() reads the clock, taken to tell no time twice.                      *)
Stamp(t) ==
    /\ At(t, "stamp")
    /\ clock' = clock + 1
    /\ SetTop(t, Advance([Top(t) EXCEPT !.time = clock + 1]))
    /\ UNCHANGED <<phase, enable, lock, actions, heap, held, pool, ended>>

(* push_back may have to allocate first, perhaps more than once ...        *)
PushAllocates(t) ==
    /\ At(t, "append") /\ Len(frames[t]) = 1
    /\ frames' = [frames EXCEPT ![t] = Append(@, NewFrame("new", nullptr))]
    /\ UNCHANGED <<recorder, heap, held, pool, ended>>

(* ... before the record is in the log.                                    *)
PushBack(t) ==
    LET s == get_per_thread(t)
    IN  /\ At(t, "append")
        /\ actions' = [actions EXCEPT ![s] = Append(@, Record(t))]
        /\ SetTop(t, Advance(Top(t)))
        /\ UNCHANGED <<phase, enable, lock, clock, heap, held, pool, ended>>

Free(t) ==
    /\ At(t, "free")
    /\ heap' = heap \ {Top(t).ptr}
    /\ SetTop(t, Advance(Top(t)))
    /\ UNCHANGED <<recorder, held, pool, ended>>

(* Mutant of Unguard: the flag is set, not restored.                       *)
UnguardEnables(t) ==
    LET s == get_per_thread(t)
    IN  IF Top(t).guarded
        THEN /\ enable' = [enable EXCEPT ![s] = TRUE]
             /\ lock' = [lock EXCEPT ![s].depth = @ - 1]
        ELSE UNCHANGED <<enable, lock>>

(* EnableGuard's destructor.                                               *)
Unguard(t) ==
    LET s == get_per_thread(t)
    IN  IF Top(t).guarded
        THEN /\ enable' = [enable EXCEPT ![s] = Top(t).was_enable]
             /\ lock' = [lock EXCEPT ![s].depth = @ - 1]
        ELSE UNCHANGED <<enable, lock>>

(* The call of the program returns, or throws bad_alloc.                   *)
Return(t) ==
    /\ At(t, "leave") /\ Len(frames[t]) = 1
    /\ Unguard(t)
    /\ frames' = [frames EXCEPT ![t] = <<>>]
    /\ held' = IF Top(t).hook \in News /\ Top(t).ptr # nullptr
               THEN held \cup {[ptr |-> Top(t).ptr, by |-> Top(t).hook,
                                known |-> Top(t).guarded]}
               ELSE held
    /\ UNCHANGED <<phase, actions, clock, heap, pool, ended>>

(* The allocation inside push_back returns a block to the log's pool.      *)
ReturnToPush(t) ==
    /\ At(t, "leave") /\ Len(frames[t]) > 1 /\ Top(t).ptr # nullptr
    /\ Unguard(t)
    /\ frames' = [frames EXCEPT ![t] = Front(@)]
    /\ pool' = pool \cup {Top(t).ptr}
    /\ UNCHANGED <<phase, actions, clock, heap, held, ended>>

(* Mutant of Unwound: push_back tries again.                               *)
UnwoundRetries(f) == f

(* An exception leaves on(): there is no record and the block of operator  *)
(* new is forgotten.                                                       *)
Unwound(f) == [f EXCEPT !.ptr = nullptr, !.pc = "leave"]

(* It throws bad_alloc: operator new passes it on.                         *)
ThrowFromPush(t) ==
    /\ At(t, "leave") /\ Len(frames[t]) > 1 /\ Top(t).ptr = nullptr
    /\ Front(frames[t])[1].hook \in News
    /\ Unguard(t)
    /\ frames' = [frames EXCEPT ![t] = <<Unwound(@[1])>>]
    /\ UNCHANGED <<phase, actions, clock, heap, held, pool, ended>>

(* operator delete and the nothrow operator new are noexcept: terminate.   *)
Terminate(t) ==
    /\ At(t, "leave") /\ Len(frames[t]) > 1 /\ Top(t).ptr = nullptr
    /\ ended' = Threads
    /\ frames' = [u \in Threads |-> <<>>]
    /\ UNCHANGED <<recorder, heap, held, pool>>

ThreadEnd(t) ==
    /\ t \notin ended \cup {MAIN} /\ frames[t] = <<>>
    /\ ended' = ended \cup {t}
    /\ UNCHANGED <<recorder, frames, heap, held, pool>>

(* Mutant of Shutdown: the flags stay set.                                 *)
ShutdownEnabled ==
    /\ phase = "running" /\ frames[MAIN] = <<>> /\ MAIN \notin ended
    /\ Threads \ ended \subseteq DETACHED \cup {MAIN}
    /\ phase' = "copying"
    /\ UNCHANGED <<enable, lock, actions, clock, frames, heap, held, pool, ended>>

(* ~GlobalData clears the flags without the locks.  Then it copies the     *)
(* logs; the calls of MAIN in this phase are those of the copying vector.  *)
Shutdown ==
    /\ phase = "running" /\ frames[MAIN] = <<>> /\ MAIN \notin ended
    /\ Threads \ ended \subseteq DETACHED \cup {MAIN}
    /\ phase' = "copying"
    /\ enable' = [s \in Slots |-> FALSE]
    /\ UNCHANGED <<lock, actions, clock, frames, heap, held, pool, ended>>

(* The pools of the members are destroyed: MAIN has their blocks to        *)
(* delete, one call for each, as it has those of the other static objects. *)
Destroy ==
    /\ phase = "copying" /\ frames[MAIN] = <<>> /\ MAIN \notin ended
    /\ phase' = "destroyed"
    /\ held' = held \cup [ptr : pool, by : {"new"}, known : {FALSE}]
    /\ pool' = {}
    /\ UNCHANGED <<enable, lock, actions, clock, frames, heap, ended>>

(* A thread outside of these calls does something else.                    *)
Elsewhere ==
    /\ \/ \E t \in Threads \ ended : frames[t] = <<>>
       \/ ended = Threads
    /\ UNCHANGED vars

Proceed(t) ==
    \/ Malloc(t) \/ Stamp(t) \/ PushAllocates(t) \/ PushBack(t) \/ Free(t)
    \/ Return(t) \/ ReturnToPush(t) \/ ThrowFromPush(t) \/ Terminate(t)

Next ==
    \/ Construct \/ Shutdown \/ Destroy
    \/ \E t \in Threads :
          CallNew(t) \/ CallDelete(t) \/ Lock(t) \/ Proceed(t) \/ ThreadEnd(t)
    \/ Elsewhere

Spec == Init /\ [][Next]_vars

(* Threads are scheduled, and one that waits for a mutex gets it if it is  *)
(* given back again and again.                                             *)
Fairness == \A t \in Threads : WF_vars(Proceed(t)) /\ SF_vars(Lock(t))

LiveSpec == Spec /\ Fairness

-------------------------------------------------------------------------------
Logged == [op : {op \in AllocOp : kAllocOpIsCpp[op]},
           tid : Threads, ptr : Addresses, time : Nat \ {0}]

(* The values the variables take.                                          *)
TypeOK ==
    /\ phase \in Phases
    /\ enable \in [Slots -> BOOLEAN]
    /\ lock \in [Slots -> [owner : Threads \cup {0}, depth : 0 .. 2]]
    /\ \A s \in Slots : \A i \in DOMAIN actions[s] : actions[s][i] \in Logged
    /\ clock \in 0 .. MAX_RECORDS
    /\ \A t \in Threads : Len(frames[t]) <= 2
    /\ heap \subseteq Addresses /\ pool \subseteq heap
    /\ held \subseteq [ptr : heap, by : News, known : BOOLEAN]
    /\ ended \subseteq Threads

(* push_back never starts on a log on which another push_back is at work,  *)
(* of another thread or further down on the same stack.                    *)
NoReentry ==
    \A t, u \in Threads : \A i \in DOMAIN frames[t] : \A j \in DOMAIN frames[u] :
        /\ frames[t][i].pc = "append" /\ frames[u][j].pc = "append"
        /\ get_per_thread(t) = get_per_thread(u)
        => t = u /\ i = j

(* Between calls a slot records exactly while the recorder is at work:     *)
(* nesting, exceptions and threads that share a slot leave the flag right. *)
RecordingOn ==
    \A s \in Slots : lock[s].depth = 0 => (enable[s] = (phase = "running"))

(* What the logs, merged by time, say last of a block ...                  *)
Records == UNION {ToSet(actions[s]) : s \in Slots}
LoggedLive(p) ==
    \E r \in Records :
        /\ r.ptr = p /\ kAllocOpIsAllocation[r.op]
        /\ \A q \in Records : q.ptr = p => q.time <= r.time
InUse(p) == \E t \in Threads : \E i \in DOMAIN frames[t] : frames[t][i].ptr = p

(* ... is the truth: once the calls on it have returned, a block is live   *)
(* in the log just if the program got it from a recorded call and has not  *)
(* deleted it, whichever threads did that and through which slots.         *)
LogTruthful ==
    phase = "running" /\ ended # Threads =>
        \A p \in Addresses : ~InUse(p) =>
            (LoggedLive(p) <=> \E b \in held : b.ptr = p /\ b.known)

(* The logs grow as a log of allocations must, also in the middle of calls *)
(* that others overtake: no record is made of a block before an earlier    *)
(* one, and each allocation is followed by its own form of delete.         *)
Recorded == INSTANCE AllocationLog WITH log <- Records
ImplementsAllocationLog == Recorded!Spec

(* Nothing is appended while ~GlobalData copies the logs, or after it.     *)
LogFrozen == [][(phase \in {"copying", "destroyed"}) => UNCHANGED actions]_vars

(* ~GlobalData clears the flags while calls of detached threads may be in  *)
(* progress.  A slot at which none is, so that nobody has its flag saved   *)
(* as set, stays off and its log as it is, whatever is called later.       *)
Off(s) ==
    /\ ~enable[s]
    /\ \A t \in Threads : \A i \in DOMAIN frames[t] :
          get_per_thread(t) = s => ~frames[t][i].was_enable
OffStaysOff ==
    [][\A s \in Slots : phase \in {"copying", "destroyed"} /\ Off(s)
          => Off(s)' /\ UNCHANGED actions[s]]_vars

(* No block of malloc gets lost between the program, the pools of the logs *)
(* and the calls in progress, except the one that operator new was about   *)
(* to return when push_back threw.                                         *)
Handled(p) ==
    \E t \in Threads : \E i \in DOMAIN frames[t] :
        frames[t][i].ptr = p /\ (frames[t][i].hook \in News \/ frames[t][i].pc # "leave")
Lost == heap \ ({b.ptr : b \in held} \cup pool \cup {p \in heap : Handled(p)})
Throwing ==
    {t \in Threads : At(t, "leave") /\ Len(frames[t]) > 1 /\ Top(t).ptr = nullptr}
OnlyThrownPushesLose ==
    [][ended' # Threads =>
          Lost \subseteq Lost' /\ Lost' \subseteq Lost \cup {frames[t][1].ptr : t \in Throwing}]_vars

(* Every call of operator new and operator delete returns: the recursive   *)
(* mutex of the slot lets the allocations inside push_back through.        *)
CallsReturn == \A t \in Threads : frames[t] # <<>> ~> frames[t] = <<>>
===============================================================================
