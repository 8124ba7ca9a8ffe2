--------------------------------- MODULE Log ----------------------------------
(***************************************************************************)
(* Log.h: the function Print, which writes a line to std::cerr under the   *)
(* mutex of get_log_mutex, and the class Log, whose SetLogFile and Write   *)
(* use one std::ofstream under the mutex file_mutex_.                      *)
(*                                                                         *)
(* A line is put together by several operators <<; all up to the newline   *)
(* are one piece here, the newline is the other, and threads interleave    *)
(* between them.  std::cerr shows a piece at once.  The ofstream keeps     *)
(* pieces in its buffer, and passes on what no longer fits there.          *)
(*                                                                         *)
(* A process may crash at any point, or exit, and another one may go on    *)
(* with the same files: they are opened to be appended to.                 *)
(***************************************************************************)
EXTENDS Integers, Sequences, FiniteSets, SequencesExt

CONSTANTS
    Threads,
    Files,          \* the paths given to SetLogFile
    Messages,       \* one for each call of Print and Write
    None,           \* no thread, no file, no call
    MAX_SETS,       \* bound: calls of SetLogFile
    MAX_CRASHES     \* bound: crashes and exits

(* A call: of which function, with which message or path, and its next     *)
(* step.                                                                   *)
Ops == {"Print", "Write", "SetLogFile"}
Calls == [op : Ops, what : Messages \cup Files,
          pc : {"lock", "head", "end", "flush", "close", "open", "unlock"}]

ASSUME LogAssumption ==
    /\ IsFiniteSet(Threads) /\ IsFiniteSet(Files) /\ IsFiniteSet(Messages)
    /\ None \notin Threads \cup Files \cup Calls
    /\ MAX_SETS \in Nat /\ MAX_CRASHES \in Nat

VARIABLES
    call,       \* call[t]: what t is doing: [op, what, pc], or None
    mutex,      \* mutex[m]: the owner of "log_mutex" or "file_mutex_"
    file_,      \* the file that is open, or None
    buffer,     \* the buffer of file_
    disk,       \* disk[f]: the pieces in f
    cerr,       \* the pieces the process wrote to std::cerr
    unsent,     \* the messages of calls still to come
    returned,   \* what Write returned for: [message, file]
    sets, ends  \* the calls of SetLogFile and the ends of processes so far

vars == <<call, mutex, file_, buffer, disk, cerr, unsent, returned, sets, ends>>

Mutexes == {"log_mutex", "file_mutex_"}

-------------------------------------------------------------------------------
(* Mutant of mutex_of: SetLogFile takes the mutex of the console.          *)
mutex_of_output(op) == IF op = "Write" THEN "file_mutex_" ELSE "log_mutex"

(* The mutex a call holds from its first line to its last.                 *)
mutex_of(op) == IF op = "Print" THEN "log_mutex" ELSE "file_mutex_"

Doing(t, pc) == call[t] # None /\ call[t].pc = pc
Continue(t, pc) == call' = [call EXCEPT ![t].pc = pc]
Piece(t, part) == [op |-> call[t].op, what |-> call[t].what, part |-> part]

Init ==
    /\ call = [t \in Threads |-> None]
    /\ mutex = [m \in Mutexes |-> None]
    /\ file_ = None /\ buffer = <<>>
    /\ disk = [f \in Files |-> <<>>]
    /\ cerr = <<>>
    /\ unsent = Messages /\ returned = {}
    /\ sets = 0 /\ ends = 0

CallWith(t, op, what) ==
    /\ call[t] = None
    /\ call' = [call EXCEPT ![t] = [op |-> op, what |-> what, pc |-> "lock"]]
    /\ UNCHANGED <<mutex, file_, buffer, disk, cerr, returned, ends>>

(* A call of Print or Write, with any message since messages are alike, or *)
(* of SetLogFile.                                                          *)
CallLog(t) ==
    LET m == CHOOSE n \in unsent : TRUE
    IN  /\ unsent # {}
        /\ \E op \in {"Print", "Write"} : CallWith(t, op, m)
        /\ unsent' = unsent \ {m} /\ UNCHANGED sets
CallSet(t) ==
    \E f \in Files :
        /\ sets < MAX_SETS
        /\ CallWith(t, "SetLogFile", f) /\ sets' = sets + 1 /\ UNCHANGED unsent

(* Mutant of FirstStep: Write does not ask whether a file is open.         *)
FirstStepUnchecked(op) == IF op = "SetLogFile" THEN "close" ELSE "head"

(* Write does nothing if no file is open.                                  *)
FirstStep(op) ==
    CASE op = "Print" -> "head"
      [] op = "Write" -> IF file_ = None THEN "unlock" ELSE "head"
      [] op = "SetLogFile" -> "close"

(* Mutant of Lock: Print does not wait for its mutex.                      *)
LockPrintFree(t) ==
    LET m == mutex_of(call[t].op)
    IN  /\ Doing(t, "lock") /\ (mutex[m] = None \/ call[t].op = "Print")
        /\ mutex' = [mutex EXCEPT ![m] = t]
        /\ Continue(t, FirstStep(call[t].op))
        /\ UNCHANGED <<file_, buffer, disk, cerr, unsent, returned, sets, ends>>

(* The lock_guard.                                                         *)
Lock(t) ==
    LET m == mutex_of(call[t].op)
    IN  /\ Doing(t, "lock") /\ mutex[m] = None
        /\ mutex' = [mutex EXCEPT ![m] = t]
        /\ Continue(t, FirstStep(call[t].op))
        /\ UNCHANGED <<file_, buffer, disk, cerr, unsent, returned, sets, ends>>

(* << into std::cerr, by Print and by SetLogFile when it fails.            *)
Show(t, part, pc) ==
    /\ Doing(t, part) /\ call[t].op # "Write"
    /\ cerr' = Append(cerr, Piece(t, part))
    /\ Continue(t, pc)
    /\ UNCHANGED <<mutex, file_, buffer, disk, unsent, returned, sets, ends>>

(* << into file_: the buffer may have to pass on some of what it has.      *)
Put(t, part, pc) ==
    LET filled == Append(buffer, Piece(t, part))
    IN  /\ Doing(t, part) /\ call[t].op = "Write"
        /\ \E n \in 0 .. Len(filled) :
              /\ disk' = [disk EXCEPT ![file_] = @ \o SubSeq(filled, 1, n)]
              /\ buffer' = SubSeq(filled, n + 1, Len(filled))
        /\ Continue(t, pc)
        /\ UNCHANGED <<mutex, file_, cerr, unsent, returned, sets, ends>>

(* Mutant of flushed: nothing is passed on.                                *)
flushed_not == <<>>

(* What flush() passes on.                                                 *)
flushed == buffer

Flush(t) ==
    /\ Doing(t, "flush")
    /\ disk' = [disk EXCEPT ![file_] = @ \o flushed]
    /\ buffer' = SubSeq(buffer, Len(flushed) + 1, Len(buffer))
    /\ Continue(t, "unlock")
    /\ UNCHANGED <<mutex, file_, cerr, unsent, returned, sets, ends>>

(* close() passes on what the buffer has.                                  *)
CloseFile ==
    /\ disk' = IF file_ = None THEN disk ELSE [disk EXCEPT ![file_] = @ \o buffer]
    /\ buffer' = <<>>
    /\ file_' = None

Close(t) ==
    /\ Doing(t, "close")
    /\ CloseFile
    /\ Continue(t, "open")
    /\ UNCHANGED <<mutex, cerr, unsent, returned, sets, ends>>

(* Mutant of AfterOpen: the file is opened without std::ios::app.          *)
AfterOpenTruncated(f) == [disk EXCEPT ![f] = <<>>]

(* std::ios::app keeps what the file has.                                  *)
AfterOpen(f) == disk

(* open() may fail, and then SetLogFile complains on std::cerr.            *)
Open(t) ==
    /\ Doing(t, "open")
    /\ \/ /\ file_' = call[t].what /\ disk' = AfterOpen(call[t].what)
          /\ Continue(t, "unlock")
       \/ /\ UNCHANGED <<file_, disk>>
          /\ Continue(t, "head")
    /\ UNCHANGED <<mutex, buffer, cerr, unsent, returned, sets, ends>>

(* The lock_guard goes and the call returns.                               *)
Unlock(t) ==
    /\ Doing(t, "unlock")
    /\ mutex' = [mutex EXCEPT ![mutex_of(call[t].op)] = None]
    /\ call' = [call EXCEPT ![t] = None]
    /\ returned' = IF call[t].op = "Write" /\ file_ # None
                   THEN returned \cup {[message |-> call[t].what, file |-> file_]}
                   ELSE returned
    /\ UNCHANGED <<file_, buffer, disk, cerr, unsent, sets, ends>>

Proceed(t) ==
    \/ Show(t, "head", "end") \/ Show(t, "end", "unlock")
    \/ Put(t, "head", "end") \/ Put(t, "end", "flush") \/ Flush(t)
    \/ Close(t) \/ Open(t) \/ Unlock(t)

(* The next process starts without calls, file and console.                *)
NextProcess ==
    /\ ends < MAX_CRASHES /\ ends' = ends + 1
    /\ call' = [t \in Threads |-> None]
    /\ mutex' = [m \in Mutexes |-> None]
    /\ file_' = None /\ buffer' = <<>> /\ cerr' = <<>>
    /\ UNCHANGED <<unsent, returned, sets>>

Crash == NextProcess /\ UNCHANGED disk

(* ~Log, when no call is left: close() again.                              *)
Exit ==
    /\ \A t \in Threads : call[t] = None
    /\ CloseFile /\ NextProcess

(* All threads do something else.                                          *)
Elsewhere == (\A t \in Threads : call[t] = None) /\ UNCHANGED vars

Next ==
    \/ \E t \in Threads : CallLog(t) \/ CallSet(t) \/ Lock(t) \/ Proceed(t)
    \/ Crash \/ Exit \/ Elsewhere

Spec == Init /\ [][Next]_vars

-------------------------------------------------------------------------------
Pieces == [op : Ops, what : Messages \cup Files, part : {"head", "end"}]

(* The values the variables take; a closed stream has nothing buffered.    *)
TypeOK ==
    /\ call \in [Threads -> Calls \cup {None}]
    /\ mutex \in [Mutexes -> Threads \cup {None}]
    /\ file_ \in Files \cup {None} /\ (file_ = None => buffer = <<>>)
    /\ \A f \in Files : \A i \in DOMAIN disk[f] : disk[f][i] \in Pieces
    /\ \A s \in {buffer, cerr} : \A i \in DOMAIN s : s[i] \in Pieces
    /\ unsent \subseteq Messages
    /\ returned \subseteq [message : Messages, file : Files]

(* Piece j is the next one of op after piece i.                            *)
Follows(op, i, j) ==
    /\ i \in DOMAIN cerr /\ j \in DOMAIN cerr /\ i < j
    /\ cerr[i].op = op /\ cerr[j].op = op
    /\ \A k \in i + 1 .. j - 1 : cerr[k].op # op

(* On std::cerr the lines of Print are whole, and so are the complaints of *)
(* SetLogFile; these hold different mutexes, so that a complaint may stand *)
(* in the middle of a line of Print, but nothing else may: an end follows  *)
(* its head and a head is followed by its end, if by any piece of its op.  *)
ConsoleLinesWhole ==
    \A op \in {"Print", "SetLogFile"} :
        /\ \A i, j \in DOMAIN cerr : Follows(op, i, j) =>
              IF cerr[i].part = "head" THEN cerr[j] = [cerr[i] EXCEPT !.part = "end"]
              ELSE cerr[j].part = "head"
        /\ \A j \in DOMAIN cerr : cerr[j].op = op /\ cerr[j].part = "end" =>
              \E i \in DOMAIN cerr : Follows(op, i, j)

(* The lines of f without an end, and the calls in the middle of a line.   *)
Unended(f) ==
    {i \in DOMAIN disk[f] :
        disk[f][i].part = "head" /\ (i < Len(disk[f]) => disk[f][i + 1].part = "head")}
Writing == {t \in Threads : call[t] # None /\ call[t].op = "Write" /\ call[t].pc \in {"end", "flush"}}

(* In a file a newline ends the line that was begun last: whatever threads *)
(* write, reopen and crash, no two lines of Write are mixed.  A line that  *)
(* has no end, and so runs into the next one, is being written now or was  *)
(* left by a crash, one by each at most.                                   *)
FileLinesWhole ==
    /\ \A f \in Files : \A i \in DOMAIN disk[f] :
          disk[f][i].part = "end" =>
              i > 1 /\ disk[f][i - 1] = [disk[f][i] EXCEPT !.part = "head"]
    /\ Cardinality(UNION {{f} \X Unended(f) : f \in Files}) <= ends + Cardinality(Writing)

(* The line of every Write that has returned is in the file that was open, *)
(* even if the process crashes: "flush the buffer at once".                *)
ReturnedIsOnDisk ==
    \A r \in returned :
        [op |-> "Write", what |-> r.message, part |-> "end"] \in ToSet(disk[r.file])

(* Line n of a file is the one whose newline is the n-th there.            *)
Newlines(f) == {i \in DOMAIN disk[f] : disk[f][i].part = "end"}
Newline(f, n) ==
    CHOOSE i \in {j \in Newlines(f) : Cardinality(Newlines(f) \cap 1 .. j) = n} : TRUE
LinesOf(f) == [n \in 1 .. Cardinality(Newlines(f)) |-> disk[f][Newline(f, n)].what]
Lines == INSTANCE LineLog WITH lines <- [f \in Files |-> LinesOf(f)]

(* The files, line by line, are append-only logs, whatever crashes.        *)
ImplementsLineLog == Lines!Spec
===============================================================================
