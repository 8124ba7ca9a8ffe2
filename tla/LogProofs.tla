------------------------------- MODULE LogProofs -------------------------------
(***************************************************************************)
(* Proofs about module Log, for any threads, files and messages and any    *)
(* number of crashes.                                                      *)
(*                                                                         *)
(* A call has its mutex from its first step to its last (OwnInv).  What a  *)
(* file has on disk and what the buffer has for it make one text: however  *)
(* much the buffer passes on at a time, the text grows by a head, then by  *)
(* its end, and a flush leaves it as it is (LineInv).  So every step is of *)
(* one of a few kinds (Kinds).  On top of that: what Write returned for is *)
(* on disk (ReturnInv); lines without an end are accounted for (TornInv);  *)
(* the last piece on the console tells what its function shows next        *)
(* (ShowInv); and newlines come to the disk one at a time, each with a     *)
(* message of its own (FreshInv, RankInv), which makes a step of LineLog.  *)
(***************************************************************************)
EXTENDS Log, SequenceTheorems, FiniteSetTheorems, TLAPS

-------------------------------------------------------------------------------
(* Types and mutexes.                                                      *)

(* TypeOK, with sequences where TypeOK speaks of their elements.           *)
TypeInv ==
    /\ call \in [Threads -> Calls \cup {None}]
    /\ mutex \in [Mutexes -> Threads \cup {None}]
    /\ file_ \in Files \cup {None}
    /\ disk \in [Files -> Seq(Pieces)] /\ buffer \in Seq(Pieces) /\ cerr \in Seq(Pieces)
    /\ unsent \subseteq Messages
    /\ returned \subseteq [message : Messages, file : Files]
    /\ ends \in Nat

(* The steps each function takes.                                          *)
Pcs(op) ==
    {"lock", "head", "end", "unlock"}
        \cup (IF op = "Write" THEN {"flush"} ELSE {})
        \cup (IF op = "SetLogFile" THEN {"close", "open"} ELSE {})

(* A call has its mutex from its first step to its last.  Write finds the  *)
(* file open all the while, SetLogFile has closed it.                      *)
OwnInv ==
    \A t \in Threads : call[t] # None =>
        /\ call[t].what \in (IF call[t].op = "SetLogFile" THEN Files ELSE Messages)
        /\ call[t].pc \in Pcs(call[t].op)
        /\ call[t].pc # "lock" => mutex[mutex_of(call[t].op)] = t
        /\ call[t].op = "Write" /\ call[t].pc \in {"head", "end", "flush"} => file_ # None
        /\ call[t].op = "SetLogFile" /\ call[t].pc \in {"open", "head", "end"} => file_ = None

(* None is no call.                                                        *)
LEMMA InCall == ASSUME TypeInv, NEW t \in Threads, call[t] # None PROVE call[t] \in Calls
BY DEF TypeInv

(* A call that goes on to its next step.                                   *)
LEMMA Goes ==
    ASSUME TypeInv, NEW t \in Threads, call[t] # None,
           NEW pc \in {"lock", "head", "end", "flush", "close", "open", "unlock"},
           Continue(t, pc)
    PROVE  /\ call' \in [Threads -> Calls \cup {None}]
           /\ call'[t] # None
           /\ call'[t].op = call[t].op /\ call'[t].what = call[t].what /\ call'[t].pc = pc
           /\ \A u \in Threads \ {t} : call'[u] = call[u]
<1>1. call[t] \in Calls
  BY InCall
<1>2. [call[t] EXCEPT !.pc = pc] \in Calls
  BY <1>1 DEF Calls
<1>3. call'[t] = [call[t] EXCEPT !.pc = pc] /\ \A u \in Threads \ {t} : call'[u] = call[u]
  BY DEF TypeInv, Continue
<1>4. call' \in [Threads -> Calls \cup {None}]
  BY <1>2 DEF TypeInv, Continue
<1>5. call'[t] # None
  BY <1>2, <1>3, LogAssumption
<1> QED BY <1>1, <1>3, <1>4, <1>5 DEF Calls

(* Two calls past their lock do not have the same mutex.                   *)
LEMMA Exclusion ==
    ASSUME OwnInv, NEW t \in Threads, NEW u \in Threads, call[t] # None, call[u] # None,
           call[t].pc # "lock", call[u].pc # "lock",
           mutex_of(call[t].op) = mutex_of(call[u].op)
    PROVE  t = u
BY DEF OwnInv

(* What is shown and put are pieces.                                       *)
LEMMA PieceType ==
    ASSUME TypeInv, NEW t \in Threads, call[t] # None, NEW part \in {"head", "end"}
    PROVE  Piece(t, part) \in Pieces
BY InCall DEF Piece, Pieces, Calls

(* Pieces are put one after the other.                                     *)
LEMMA Associates ==
    ASSUME NEW s \in Seq(Pieces), NEW t \in Seq(Pieces), NEW u \in Seq(Pieces)
    PROVE  (s \o t) \o u = s \o (t \o u)
BY ConcatAssociative

(* The pieces the buffer passes on, and those it keeps.                    *)
LEMMA Splits ==
    ASSUME NEW s \in Seq(Pieces), NEW n \in 0 .. Len(s)
    PROVE  /\ SubSeq(s, 1, n) \in Seq(Pieces) /\ SubSeq(s, n + 1, Len(s)) \in Seq(Pieces)
           /\ Len(SubSeq(s, 1, n)) = n /\ Len(SubSeq(s, n + 1, Len(s))) = Len(s) - n
           /\ SubSeq(s, 1, n) \o SubSeq(s, n + 1, Len(s)) = s
<1>1. Len(s) \in Nat /\ \A i \in 1 .. Len(s) : s[i] \in Pieces
  OBVIOUS
<1>2. SubSeq(s, 1, n) \in Seq(Pieces) /\ Len(SubSeq(s, 1, n)) = n
  BY <1>1, SubSeqProperties
<1>3. /\ SubSeq(s, n + 1, Len(s)) \in Seq(Pieces)
      /\ Len(SubSeq(s, n + 1, Len(s))) = Len(s) - n
  BY <1>1, SubSeqProperties
<1>4. SubSeq(s, 1, n) \o SubSeq(s, n + 1, Len(s)) = SubSeq(s, 1, Len(s))
  <2>1. 1 \in 1 .. Len(s) + 1 /\ n \in 1 - 1 .. Len(s) /\ Len(s) \in n .. Len(s)
    BY <1>1
  <2> QED BY <2>1, ConcatAdjacentSubSeq
<1> QED BY <1>1, <1>2, <1>3, <1>4, SubSeqFull

-------------------------------------------------------------------------------
(* The text of a file: what it has, and what it will have with what is in  *)
(* the buffer.                                                             *)

Held(f) == IF f = file_ THEN buffer ELSE <<>>
Text(f) == disk[f] \o Held(f)

(* The disk has the beginning of the text.                                 *)
LEMMA TextShape ==
    ASSUME TypeInv, NEW f \in Files
    PROVE  /\ disk[f] \in Seq(Pieces) /\ Text(f) \in Seq(Pieces)
           /\ Len(disk[f]) \in Nat /\ Len(Text(f)) \in Nat
           /\ Len(Text(f)) = Len(disk[f]) + Len(Held(f)) /\ Len(Held(f)) \in Nat
           /\ \A i \in 1 .. Len(disk[f]) : Text(f)[i] = disk[f][i]
           /\ f # file_ \/ buffer = <<>> => Text(f) = disk[f]
<1>1. disk[f] \in Seq(Pieces) /\ Held(f) \in Seq(Pieces) /\ <<>> \in Seq(Pieces)
  BY DEF TypeInv, Held
<1>2. f # file_ \/ buffer = <<>> => Held(f) = <<>>
  BY DEF Held
<1> QED BY <1>1, <1>2, ConcatProperties, ConcatEmptySeq DEF Text

(* However much the buffer passes on, the text grows by the piece.         *)
LEMMA PutGrows ==
    ASSUME TypeInv, NEW t \in Threads, NEW part \in {"head", "end"}, NEW pc, Put(t, part, pc),
           file_ # None
    PROVE  /\ disk' \in [Files -> Seq(Pieces)] /\ buffer' \in Seq(Pieces)
           /\ Piece(t, part) \in Pieces
           /\ Text(file_)' = Append(Text(file_), Piece(t, part))
           /\ Len(buffer') <= Len(buffer) + 1
           /\ Len(disk'[file_]) >= Len(disk[file_])
           /\ \A f \in Files \ {file_} : disk'[f] = disk[f] /\ Text(f)' = Text(f)
<1> DEFINE p == Piece(t, part)
           filled == Append(buffer, p)
<1>1. p \in Pieces
  BY PieceType DEF Put, Doing
<1> HIDE DEF p
<1>2. file_ \in Files /\ file_' = file_ /\ buffer \in Seq(Pieces) /\ disk[file_] \in Seq(Pieces)
  BY DEF Put, TypeInv
<1>3. filled \in Seq(Pieces) /\ Len(filled) = Len(buffer) + 1 /\ Len(buffer) \in Nat
  BY <1>1, <1>2
<1>4. PICK n \in 0 .. Len(filled) :
         /\ disk' = [disk EXCEPT ![file_] = @ \o SubSeq(filled, 1, n)]
         /\ buffer' = SubSeq(filled, n + 1, Len(filled))
  BY DEF Put, p
<1> DEFINE sent == SubSeq(filled, 1, n)
           kept == SubSeq(filled, n + 1, Len(filled))
<1>5. /\ sent \in Seq(Pieces) /\ kept \in Seq(Pieces) /\ Len(sent) = n
      /\ Len(kept) = Len(filled) - n /\ sent \o kept = filled
  BY <1>3, Splits
<1> HIDE DEF sent, kept
<1>6. /\ disk'[file_] = disk[file_] \o sent /\ buffer' = kept
      /\ \A f \in Files \ {file_} : disk'[f] = disk[f]
  BY <1>2, <1>4 DEF TypeInv, sent, kept
<1>7. disk' \in [Files -> Seq(Pieces)]
  <2>1. disk' = [disk EXCEPT ![file_] = @ \o sent] /\ disk[file_] \o sent \in Seq(Pieces)
    BY <1>2, <1>4, <1>5, ConcatProperties DEF sent
  <2> QED BY <2>1 DEF TypeInv
<1>8. Text(file_)' = (disk[file_] \o sent) \o kept
  BY <1>2, <1>6 DEF Text, Held
<1> HIDE DEF filled
<1>9. (disk[file_] \o sent) \o kept = disk[file_] \o filled
  <2>1. (disk[file_] \o sent) \o kept = disk[file_] \o (sent \o kept)
    BY <1>2, <1>5, Associates
  <2> QED BY <1>5, <2>1
<1>10. disk[file_] \o filled = Append(disk[file_] \o buffer, p)
  <2>1. filled = buffer \o <<p>> /\ <<p>> \in Seq(Pieces)
    BY <1>1, <1>2, AppendIsConcat DEF filled
  <2>2. (disk[file_] \o buffer) \o <<p>> = disk[file_] \o (buffer \o <<p>>)
    BY <1>2, <2>1, Associates
  <2>3. disk[file_] \o buffer \in Seq(Pieces)
    BY <1>2, ConcatProperties
  <2>4. Append(disk[file_] \o buffer, p) = (disk[file_] \o buffer) \o <<p>>
    BY <1>1, <2>3, AppendIsConcat
  <2> QED BY <2>1, <2>2, <2>4
<1>11. Len(kept) <= Len(buffer) + 1 /\ Len(disk'[file_]) >= Len(disk[file_])
  <2>1. n \in Nat /\ n <= Len(filled)
    BY <1>3, <1>4
  <2>2. Len(disk[file_] \o sent) = Len(disk[file_]) + Len(sent)
    BY <1>2, <1>5, ConcatProperties
  <2>3. Len(disk[file_]) \in Nat
    BY <1>2
  <2> QED BY <1>3, <1>5, <1>6, <2>1, <2>2, <2>3
<1>12. \A f \in Files \ {file_} : Text(f)' = Text(f)
  BY <1>2, <1>6 DEF Text, Held
<1> QED BY <1>1, <1>2, <1>5, <1>6, <1>7, <1>8, <1>9, <1>10, <1>11, <1>12 DEF Text, Held, p

-------------------------------------------------------------------------------
(* Every step keeps the types, and a call its mutex.                       *)

(* A new call.                                                             *)
LEMMA CallKeeps ==
    ASSUME TypeInv, OwnInv, NEW t \in Threads, CallLog(t) \/ CallSet(t)
    PROVE  TypeInv' /\ OwnInv'
<1>1. PICK op \in Ops, what \in Messages \cup Files :
         CallWith(t, op, what) /\ what \in (IF op = "SetLogFile" THEN Files ELSE Messages)
  <2>1. CASE CallLog(t)
    <3>1. (CHOOSE n \in unsent : TRUE) \in Messages
      BY <2>1 DEF CallLog, TypeInv
    <3> QED BY <2>1, <3>1 DEF CallLog, Ops
  <2>2. CASE CallSet(t)
    BY <2>2 DEF CallSet, Ops
  <2> QED BY <2>1, <2>2
<1> DEFINE new == [op |-> op, what |-> what, pc |-> "lock"]
<1>2. new \in Calls /\ new.pc = "lock" /\ new.op = op /\ new.what = what
  BY DEF Calls
<1> HIDE DEF new
<1>3. call' = [call EXCEPT ![t] = new] /\ UNCHANGED <<mutex, file_, buffer, disk, cerr, returned, ends>>
  BY <1>1 DEF CallWith, new
<1>4. unsent' \subseteq unsent
  BY DEF CallLog, CallSet
<1>5. TypeInv'
  BY <1>2, <1>3, <1>4 DEF TypeInv
<1>6. OwnInv'
  BY <1>1, <1>2, <1>3 DEF TypeInv, OwnInv, Pcs
<1> QED BY <1>5, <1>6

(* The mutex is taken, and whether the file is open can be trusted.        *)
LEMMA LockKeeps ==
    ASSUME TypeInv, OwnInv, NEW t \in Threads, Lock(t)
    PROVE  TypeInv' /\ OwnInv'
<1>1. call[t] # None /\ call[t] \in Calls /\ call[t].pc = "lock"
  BY InCall DEF Lock, Doing
<1> DEFINE m == mutex_of(call[t].op)
           pc == FirstStep(call[t].op)
<1>2. m \in Mutexes /\ mutex[m] = None /\ mutex' = [mutex EXCEPT ![m] = t] /\ t # None
  BY LogAssumption DEF Lock, Mutexes, mutex_of
<1>3. /\ pc \in {"head", "unlock", "close"} /\ pc \in Pcs(call[t].op)
      /\ call[t].op = "Write" /\ pc = "head" => file_ # None
      /\ call[t].op = "SetLogFile" => pc = "close"
  BY <1>1, Zenon DEF Calls, Ops, FirstStep, Pcs
<1>4. Continue(t, pc) /\ UNCHANGED <<file_, buffer, disk, cerr, unsent, returned, sets, ends>>
  BY DEF Lock
<1> HIDE DEF pc
<1>5. /\ call' \in [Threads -> Calls \cup {None}]
      /\ call'[t] # None
      /\ call'[t].op = call[t].op /\ call'[t].what = call[t].what /\ call'[t].pc = pc
      /\ \A u \in Threads \ {t} : call'[u] = call[u]
  BY <1>1, <1>3, <1>4, Goes
<1>6. TypeInv'
  BY <1>2, <1>4, <1>5 DEF TypeInv
<1>7. /\ mutex'[m] = t /\ \A n \in Mutexes \ {m} : mutex'[n] = mutex[n]
  BY <1>2 DEF TypeInv
<1>8. ASSUME NEW u \in Threads \ {t}, call[u] # None, call[u].pc # "lock"
      PROVE  mutex'[mutex_of(call[u].op)] = u
  <2>1. mutex[mutex_of(call[u].op)] = u /\ u # None
    BY <1>8, LogAssumption DEF OwnInv
  <2>2. mutex_of(call[u].op) \in Mutexes
    BY DEF Mutexes, mutex_of
  <2> QED BY <1>2, <1>7, <2>1, <2>2
<1>9. OwnInv'
  <2>1. mutex'[mutex_of(call'[t].op)] = t
    BY <1>5, <1>7
  <2>2. call[t].what \in (IF call[t].op = "SetLogFile" THEN Files ELSE Messages)
    BY <1>1 DEF OwnInv
  <2>3. call'[t].op = "SetLogFile" => call'[t].pc \notin {"open", "head", "end"}
    BY <1>3, <1>5
  <2>4. call'[t].op = "Write" /\ call'[t].pc \in {"head", "end", "flush"} => file_' # None
    BY <1>3, <1>4, <1>5
  <2>5. ASSUME NEW u \in Threads \ {t}, call[u] # None
        PROVE  /\ call[u].what \in (IF call[u].op = "SetLogFile" THEN Files ELSE Messages)
               /\ call[u].pc \in Pcs(call[u].op)
               /\ call[u].op = "Write" /\ call[u].pc \in {"head", "end", "flush"} => file_' # None
               /\ call[u].op = "SetLogFile" /\ call[u].pc \in {"open", "head", "end"}
                  => file_' = None
    BY <1>4, <2>5 DEF OwnInv
  <2> QED BY <1>3, <1>5, <1>8, <2>1, <2>2, <2>3, <2>4, <2>5 DEF OwnInv
<1> QED BY <1>6, <1>9

(* A call takes a step under its mutex, which leaves file_ alone or is one *)
(* of SetLogFile.                                                          *)
LEMMA StepKeepsOwn ==
    ASSUME TypeInv, OwnInv, NEW t \in Threads, call[t] # None, call[t].pc # "lock",
           NEW pc \in {"head", "end", "flush", "open", "unlock"}, pc \in Pcs(call[t].op),
           Continue(t, pc), UNCHANGED mutex,
           UNCHANGED file_ \/ call[t].op = "SetLogFile",
           call[t].op = "Write" /\ pc \in {"head", "end", "flush"} => file_ # None,
           call[t].op = "SetLogFile" /\ pc \in {"open", "head", "end"} => file_' = None
    PROVE  OwnInv'
<1>1. /\ call'[t] # None
      /\ call'[t].op = call[t].op /\ call'[t].what = call[t].what /\ call'[t].pc = pc
      /\ \A u \in Threads \ {t} : call'[u] = call[u]
  BY Goes
<1>2. ASSUME NEW u \in Threads \ {t}, call[u] # None
      PROVE  /\ call[u].op = "Write" /\ call[u].pc \in {"head", "end", "flush"} => file_' # None
             /\ call[u].op = "SetLogFile" /\ call[u].pc \in {"open", "head", "end"} => file_' = None
  <2>1. CASE UNCHANGED file_
    BY <1>2, <2>1 DEF OwnInv
  <2>2. CASE call[t].op = "SetLogFile"
    <3>1. call[u].op \in {"Write", "SetLogFile"} => call[u].pc = "lock"
      BY <1>2, <2>2, Exclusion DEF mutex_of
    <3> QED BY <3>1
  <2> QED BY <2>1, <2>2
<1>3. ASSUME NEW u \in Threads \ {t}, call[u] # None
      PROVE  /\ call[u].what \in (IF call[u].op = "SetLogFile" THEN Files ELSE Messages)
             /\ call[u].pc \in Pcs(call[u].op)
             /\ call[u].pc # "lock" => mutex[mutex_of(call[u].op)] = u
  BY <1>3 DEF OwnInv
<1>4. /\ call[t].what \in (IF call[t].op = "SetLogFile" THEN Files ELSE Messages)
      /\ mutex[mutex_of(call[t].op)] = t
  BY DEF OwnInv
<1>5. call[t].op = "Write" => UNCHANGED file_
  OBVIOUS
<1> QED BY <1>1, <1>2, <1>3, <1>4, <1>5 DEF OwnInv

(* <<, flush, close and open.                                              *)
LEMMA ShowKeeps ==
    ASSUME TypeInv, OwnInv, NEW t \in Threads,
           NEW part \in {"head", "end"}, NEW pc \in {"end", "unlock"},
           part = "head" => pc = "end", Show(t, part, pc)
    PROVE  TypeInv' /\ OwnInv'
<1>1. call[t] # None /\ call[t].pc = part /\ call[t].op # "Write" /\ Continue(t, pc)
  BY DEF Show, Doing
<1>2. pc \in Pcs(call[t].op)
  BY DEF Pcs
<1>3. OwnInv'
  <2>1. call[t].op = "SetLogFile" => file_ = None
    BY <1>1 DEF OwnInv
  <2> QED BY <1>1, <1>2, <2>1, StepKeepsOwn DEF Show
<1>4. TypeInv'
  <2>1. cerr' \in Seq(Pieces)
    BY <1>1, PieceType, AppendProperties DEF Show, TypeInv
  <2>2. call' \in [Threads -> Calls \cup {None}]
    BY <1>1, Goes
  <2> QED BY <2>1, <2>2 DEF TypeInv, Show
<1> QED BY <1>3, <1>4

(* The text grows, and the call goes on.                                   *)
LEMMA PutKeeps ==
    ASSUME TypeInv, OwnInv, NEW t \in Threads,
           NEW part \in {"head", "end"}, NEW pc \in {"end", "flush"}, Put(t, part, pc)
    PROVE  TypeInv' /\ OwnInv' /\ file_ \in Files
<1>1. call[t] # None /\ call[t].pc = part /\ call[t].op = "Write" /\ Continue(t, pc)
  BY DEF Put, Doing
<1>2. pc \in Pcs(call[t].op)
  BY <1>1 DEF Pcs
<1>3. file_ # None /\ file_ \in Files
  BY <1>1 DEF OwnInv, TypeInv
<1>4. OwnInv'
  BY <1>1, <1>2, <1>3, StepKeepsOwn DEF Put
<1>5. TypeInv'
  <2>1. disk' \in [Files -> Seq(Pieces)] /\ buffer' \in Seq(Pieces)
    BY <1>3, PutGrows
  <2>2. call' \in [Threads -> Calls \cup {None}]
    BY <1>1, Goes
  <2> QED BY <2>1, <2>2 DEF TypeInv, Put
<1> QED BY <1>3, <1>4, <1>5

(* flush: the file has its text.                                           *)
LEMMA FlushStep ==
    ASSUME TypeInv, OwnInv, NEW t \in Threads, Flush(t)
    PROVE  /\ TypeInv' /\ OwnInv' /\ file_ \in Files /\ call[t].op = "Write"
           /\ buffer' = <<>>
           /\ disk'[file_] = Text(file_) /\ \A f \in Files \ {file_} : disk'[f] = disk[f]
<1>1. call[t] # None /\ call[t] \in Calls /\ call[t].pc = "flush" /\ Continue(t, "unlock")
  BY InCall DEF Flush, Doing
<1>2. call[t].op = "Write"
  BY <1>1 DEF OwnInv, Pcs
<1>3. file_ # None /\ file_ \in Files
  BY <1>1, <1>2 DEF OwnInv, TypeInv
<1>4. "unlock" \in Pcs(call[t].op)
  BY DEF Pcs
<1>5. OwnInv'
  BY <1>1, <1>2, <1>3, <1>4, StepKeepsOwn DEF Flush
<1>6. buffer \in Seq(Pieces) /\ Len(buffer) \in Nat /\ disk[file_] \in Seq(Pieces)
  BY <1>3 DEF TypeInv
<1>7. buffer' = <<>>
  <2>1. Len(buffer) + 1 \in Int /\ Len(buffer) \in Int /\ Len(buffer) < Len(buffer) + 1
    BY <1>6
  <2> QED BY <2>1, SubSeqEmpty DEF Flush, flushed
<1>8. disk' = [disk EXCEPT ![file_] = @ \o buffer]
  BY DEF Flush, flushed
<1>9. disk'[file_] = Text(file_) /\ \A f \in Files \ {file_} : disk'[f] = disk[f]
  BY <1>3, <1>8 DEF TypeInv, Text, Held
<1>10. disk' \in [Files -> Seq(Pieces)]
  <2>1. disk[file_] \o buffer \in Seq(Pieces)
    BY <1>6, ConcatProperties
  <2> QED BY <1>8, <2>1 DEF TypeInv
<1>11. call' \in [Threads -> Calls \cup {None}]
  BY <1>1, Goes
<1>12. TypeInv'
  <2>1. <<>> \in Seq(Pieces)
    BY EmptySeq
  <2> QED BY <1>7, <1>10, <1>11, <2>1 DEF TypeInv, Flush
<1> QED BY <1>2, <1>3, <1>5, <1>7, <1>9, <1>12

(* close has the file as long as its text.                                 *)
LEMMA Closed ==
    ASSUME TypeInv, CloseFile
    PROVE  /\ disk' \in [Files -> Seq(Pieces)] /\ buffer' = <<>> /\ file_' = None
           /\ \A f \in Files : disk'[f] = Text(f)
<1>1. CASE file_ = None
  <2>1. \A f \in Files : f # file_ /\ Text(f) = disk[f]
    BY <1>1, TextShape, LogAssumption
  <2> QED BY <1>1, <2>1 DEF CloseFile, TypeInv
<1>2. CASE file_ # None
  <2>1. file_ \in Files /\ disk' = [disk EXCEPT ![file_] = @ \o buffer]
    BY <1>2 DEF TypeInv, CloseFile
  <2>2. disk[file_] \o buffer \in Seq(Pieces)
    BY <2>1, ConcatProperties DEF TypeInv
  <2>3. disk' \in [Files -> Seq(Pieces)]
    BY <2>1, <2>2 DEF TypeInv
  <2>4. \A f \in Files : disk'[f] = IF f = file_ THEN disk[f] \o buffer ELSE disk[f]
    BY <2>1 DEF TypeInv
  <2>5. \A f \in Files : Text(f) = IF f = file_ THEN disk[f] \o buffer ELSE disk[f]
    BY <2>1, TextShape DEF Text, Held
  <2> QED BY <2>3, <2>4, <2>5 DEF CloseFile
<1> QED BY <1>1, <1>2

(* close is called by SetLogFile only, while no call of Write has the      *)
(* mutex.                                                                  *)
LEMMA CloseKeeps ==
    ASSUME TypeInv, OwnInv, NEW t \in Threads, Close(t)
    PROVE  TypeInv' /\ OwnInv' /\ call[t].op = "SetLogFile"
<1>1. call[t] # None /\ call[t] \in Calls /\ call[t].pc = "close" /\ Continue(t, "open")
  BY InCall DEF Close, Doing
<1>2. call[t].op = "SetLogFile" /\ "open" \in Pcs(call[t].op)
  BY <1>1 DEF OwnInv, Pcs
<1>3. disk' \in [Files -> Seq(Pieces)] /\ buffer' = <<>> /\ file_' = None
  BY Closed DEF Close
<1>4. OwnInv'
  BY <1>1, <1>2, <1>3, StepKeepsOwn DEF Close
<1>5. TypeInv'
  <2>1. call' \in [Threads -> Calls \cup {None}] /\ <<>> \in Seq(Pieces)
    BY <1>1, Goes, EmptySeq
  <2> QED BY <1>3, <2>1 DEF TypeInv, Close
<1> QED BY <1>2, <1>4, <1>5

(* So is open; whatever comes of it, what the files have stays.            *)
LEMMA OpenKeeps ==
    ASSUME TypeInv, OwnInv, NEW t \in Threads, Open(t)
    PROVE  TypeInv' /\ OwnInv' /\ call[t].op = "SetLogFile" /\ UNCHANGED disk
<1>1. call[t] # None /\ call[t] \in Calls /\ call[t].pc = "open"
  BY InCall DEF Open, Doing
<1>2. call[t].op = "SetLogFile" /\ {"unlock", "head"} \subseteq Pcs(call[t].op)
  BY <1>1 DEF OwnInv, Pcs
<1>3. file_ = None /\ call[t].what \in Files
  BY <1>1, <1>2 DEF OwnInv
<1>4. UNCHANGED <<mutex, buffer, disk, cerr, unsent, returned, ends>>
  BY DEF Open, AfterOpen
<1>5. CASE file_' = call[t].what /\ Continue(t, "unlock")
  <2>1. OwnInv'
    BY <1>1, <1>2, <1>4, <1>5, StepKeepsOwn
  <2>2. call' \in [Threads -> Calls \cup {None}]
    BY <1>1, <1>5, Goes
  <2> QED BY <1>2, <1>3, <1>4, <1>5, <2>1, <2>2 DEF TypeInv
<1>6. CASE UNCHANGED file_ /\ Continue(t, "head")
  <2>1. OwnInv'
    BY <1>1, <1>2, <1>3, <1>4, <1>6, StepKeepsOwn
  <2>2. call' \in [Threads -> Calls \cup {None}]
    BY <1>1, <1>6, Goes
  <2> QED BY <1>2, <1>3, <1>4, <1>6, <2>1, <2>2 DEF TypeInv
<1> QED BY <1>5, <1>6 DEF Open

(* The mutex is given back by the call that has it.                        *)
LEMMA UnlockKeeps ==
    ASSUME TypeInv, OwnInv, NEW t \in Threads, Unlock(t)
    PROVE  TypeInv' /\ OwnInv'
<1>1. call[t] # None /\ call[t] \in Calls /\ call[t].pc = "unlock"
  BY InCall DEF Unlock, Doing
<1> DEFINE m == mutex_of(call[t].op)
<1>2. mutex' = [mutex EXCEPT ![m] = None] /\ call' = [call EXCEPT ![t] = None]
  BY DEF Unlock
<1>3. m \in Mutexes
  BY DEF Mutexes, mutex_of
<1>4. returned' \subseteq [message : Messages, file : Files]
  <2>1. call[t].op = "Write" => call[t].what \in Messages
    BY <1>1 DEF OwnInv
  <2> QED BY <2>1 DEF Unlock, TypeInv
<1>5. TypeInv'
  BY <1>2, <1>4 DEF Unlock, TypeInv
<1>6. ASSUME NEW u \in Threads \ {t}, call[u] # None, call[u].pc # "lock"
      PROVE  mutex'[mutex_of(call[u].op)] = mutex[mutex_of(call[u].op)]
  <2>1. mutex_of(call[u].op) # m
    BY <1>1, <1>6, Exclusion
  <2> QED BY <1>2, <2>1 DEF TypeInv
<1>7. \A u \in Threads : call'[u] # None => u # t /\ call'[u] = call[u]
  BY <1>2 DEF TypeInv
<1>8. UNCHANGED file_
  BY DEF Unlock
<1>9. OwnInv'
  BY <1>6, <1>7, <1>8 DEF OwnInv
<1> QED BY <1>5, <1>9

(* The next process has no calls.                                          *)
LEMMA RestartKeeps ==
    ASSUME TypeInv, Crash \/ Exit
    PROVE  TypeInv' /\ OwnInv' /\ \A t \in Threads : call'[t] = None
<1>1. disk' \in [Files -> Seq(Pieces)]
  BY Closed DEF Crash, Exit, TypeInv
<1>2. NextProcess /\ <<>> \in Seq(Pieces)
  BY EmptySeq DEF Crash, Exit
<1> QED BY <1>1, <1>2 DEF NextProcess, TypeInv, OwnInv

(* Types and mutexes, at first and in every step.                          *)
LEMMA TypeInit == Init => TypeInv /\ OwnInv
<1>1. <<>> \in Seq(Pieces)
  BY EmptySeq
<1> QED BY <1>1 DEF Init, TypeInv, OwnInv

(* Each action keeps them.                                                 *)
LEMMA TypeNext == ASSUME TypeInv, OwnInv, [Next]_vars PROVE TypeInv' /\ OwnInv'
<1>1. CASE UNCHANGED vars
  BY <1>1 DEF vars, TypeInv, OwnInv
<1>2. ASSUME NEW t \in Threads, Proceed(t) PROVE TypeInv' /\ OwnInv'
  BY <1>2, ShowKeeps, PutKeeps, FlushStep, CloseKeeps, OpenKeeps, UnlockKeeps DEF Proceed
<1> QED BY <1>1, <1>2, CallKeeps, LockKeeps, RestartKeeps DEF Next, Elsewhere

-------------------------------------------------------------------------------
(* The steps, by what they do to files and to the calls that write a line. *)

(* The buffer is empty unless a line is being written.                     *)
EmptyInv == Writing = {} => buffer = <<>>

(* Steps of other calls, and of those that do not write a line now.        *)
Quiet ==
    /\ UNCHANGED <<file_, buffer, disk, ends>>
    /\ Writing' = Writing /\ \A t \in Writing : call'[t] = call[t]

(* Write puts the head of a line, then its end, and flushes.               *)
Starts(t) ==
    /\ Writing = {} /\ Writing' = {t} /\ Put(t, "head", "end") /\ UNCHANGED ends
    /\ call'[t].pc = "end" /\ call'[t].op = call[t].op /\ call'[t].what = call[t].what
(* The end of the line.                                                    *)
Ends(t) ==
    /\ Writing = {t} /\ Writing' = {t} /\ Put(t, "end", "flush") /\ UNCHANGED ends
    /\ call'[t].pc = "flush" /\ call'[t].op = call[t].op /\ call'[t].what = call[t].what
(* And all of it is on disk.                                               *)
Flushes(t) ==
    /\ Writing = {t} /\ Writing' = {} /\ call[t].pc = "flush" /\ UNCHANGED <<file_, ends>>
    /\ buffer' = <<>> /\ \A f \in Files : disk'[f] = Text(f)

(* SetLogFile closes a file that is written already, or opens one.         *)
Reopens ==
    /\ Writing = {} /\ Writing' = {} /\ buffer = <<>> /\ buffer' = <<>>
    /\ UNCHANGED <<disk, ends>>

(* The end of a process loses the buffer only.                             *)
Restarts ==
    /\ Writing' = {} /\ buffer' = <<>> /\ file_' = None
    /\ UNCHANGED disk /\ ends' = ends + 1

(* A line is written by one call at a time.                                *)
LEMMA OneWriting ==
    ASSUME OwnInv, NEW t \in Writing
    PROVE  Writing = {t}
<1> SUFFICES ASSUME NEW u \in Writing PROVE u = t
  OBVIOUS
<1>1. /\ t \in Threads /\ u \in Threads /\ call[t] # None /\ call[u] # None
      /\ call[t].op = "Write" /\ call[u].op = "Write"
      /\ call[t].pc # "lock" /\ call[u].pc # "lock"
  BY DEF Writing
<1> QED BY <1>1, Exclusion

(* And by none while another call of Write, or SetLogFile, has the mutex.  *)
LEMMA NoneWriting ==
    ASSUME OwnInv, NEW t \in Threads, call[t] # None, call[t].pc # "lock",
           call[t].op # "Print", t \notin Writing
    PROVE  Writing = {}
<1> SUFFICES ASSUME NEW u \in Writing PROVE FALSE
  OBVIOUS
<1>1. u \in Threads /\ call[u] # None /\ call[u].op = "Write" /\ call[u].pc # "lock"
  BY DEF Writing
<1>2. mutex_of(call[t].op) = mutex_of(call[u].op)
  BY <1>1 DEF mutex_of
<1>3. u = t
  BY <1>1, <1>2, Exclusion
<1> QED BY <1>3

(* A call that does not write a line before or after the step.             *)
LEMMA IsQuiet ==
    ASSUME TypeInv, NEW t \in Threads, t \notin Writing, t \notin Writing',
           \A u \in Threads \ {t} : call'[u] = call[u],
           UNCHANGED <<file_, buffer, disk, ends>>
    PROVE  Quiet
BY DEF Quiet, Writing

(* There are no other steps.                                               *)
LEMMA Kinds ==
    ASSUME TypeInv, OwnInv, EmptyInv, [Next]_vars
    PROVE  \/ Quiet \/ Reopens \/ Restarts
           \/ \E t \in Threads : Starts(t) \/ Ends(t) \/ Flushes(t)
<1>1. CASE UNCHANGED vars
  BY <1>1 DEF vars, Quiet, Writing
<1>2. ASSUME NEW t \in Threads, CallLog(t) \/ CallSet(t) PROVE Quiet
  <2>1. PICK op, what : CallWith(t, op, what)
    BY <1>2 DEF CallLog, CallSet
  <2>2. call[t] = None /\ call'[t].pc = "lock" /\ \A u \in Threads \ {t} : call'[u] = call[u]
    BY <2>1 DEF CallWith, TypeInv
  <2> QED BY <2>1, <2>2, IsQuiet DEF CallWith, Writing
<1>3. ASSUME NEW t \in Threads, call[t] # None, NEW pc \in {"head", "unlock", "close"},
             Continue(t, pc), t \notin Writing, UNCHANGED <<file_, buffer, disk, ends>>
      PROVE  Quiet
  <2>1. call'[t].pc = pc /\ \A u \in Threads \ {t} : call'[u] = call[u]
    BY <1>3, Goes
  <2> QED BY <1>3, <2>1, IsQuiet DEF Writing
<1>4. ASSUME NEW t \in Threads, Lock(t) PROVE Quiet
  <2>1. call[t] # None /\ call[t] \in Calls /\ call[t].pc = "lock"
    BY <1>4, InCall DEF Lock, Doing
  <2>2. FirstStep(call[t].op) \in {"head", "unlock", "close"}
    BY <2>1, Zenon DEF Calls, Ops, FirstStep
  <2> QED BY <1>3, <1>4, <2>1, <2>2 DEF Lock, Writing
<1>5. ASSUME NEW t \in Threads, NEW part, NEW pc \in {"end", "unlock"}, Show(t, part, pc)
      PROVE  Quiet
  <2>1. call[t] # None /\ call[t].op # "Write"
    BY <1>5 DEF Show, Doing
  <2>2. call'[t].op = call[t].op /\ \A u \in Threads \ {t} : call'[u] = call[u]
    BY <1>5, <2>1, Goes DEF Show
  <2> QED BY <1>5, <2>1, <2>2, IsQuiet DEF Show, Writing
<1>6. ASSUME NEW t \in Threads, Put(t, "head", "end") PROVE Starts(t)
  <2>1. call[t] # None /\ call[t].op = "Write" /\ call[t].pc = "head" /\ t \notin Writing
    BY <1>6 DEF Put, Doing, Writing
  <2>2. Writing = {}
    BY <2>1, NoneWriting
  <2>3. /\ call'[t] # None
        /\ call'[t].op = call[t].op /\ call'[t].what = call[t].what /\ call'[t].pc = "end"
        /\ \A u \in Threads \ {t} : call'[u] = call[u]
    BY <1>6, <2>1, Goes DEF Put
  <2>4. Writing' = {t}
    BY <2>1, <2>2, <2>3 DEF Writing
  <2> QED BY <1>6, <2>2, <2>3, <2>4 DEF Starts, Put
<1>7. ASSUME NEW t \in Threads, Put(t, "end", "flush") PROVE Ends(t)
  <2>1. call[t] # None /\ call[t].op = "Write" /\ call[t].pc = "end" /\ t \in Writing
    BY <1>7 DEF Put, Doing, Writing
  <2>2. Writing = {t}
    BY <2>1, OneWriting
  <2>3. /\ call'[t] # None
        /\ call'[t].op = call[t].op /\ call'[t].what = call[t].what /\ call'[t].pc = "flush"
        /\ \A u \in Threads \ {t} : call'[u] = call[u]
    BY <1>7, <2>1, Goes DEF Put
  <2>4. Writing' = {t}
    BY <2>1, <2>2, <2>3 DEF Writing
  <2> QED BY <1>7, <2>2, <2>3, <2>4 DEF Ends, Put
<1>8. ASSUME NEW t \in Threads, Flush(t) PROVE Flushes(t)
  <2>1. call[t] # None /\ call[t].pc = "flush" /\ call[t].op = "Write"
    BY <1>8, FlushStep DEF Flush, Doing
  <2>2. Writing = {t}
    <3>1. t \in Writing
      BY <2>1 DEF Writing
    <3> QED BY <3>1, OneWriting
  <2>3. call'[t].pc = "unlock" /\ \A u \in Threads \ {t} : call'[u] = call[u]
    BY <1>8, <2>1, Goes DEF Flush
  <2>4. Writing' = {}
    BY <2>2, <2>3 DEF Writing
  <2>5. \A f \in Files : disk'[f] = Text(f)
    BY <1>8, FlushStep, TextShape
  <2> QED BY <1>8, <2>1, <2>2, <2>4, <2>5, FlushStep DEF Flushes, Flush
<1>9. ASSUME NEW t \in Threads, Close(t) PROVE Reopens
  <2>1. call[t] # None /\ call[t].pc = "close" /\ call[t].op = "SetLogFile"
    BY <1>9, CloseKeeps DEF Close, Doing
  <2>2. Writing = {}
    BY <2>1, NoneWriting DEF Writing
  <2>3. call'[t].op = "SetLogFile" /\ \A u \in Threads \ {t} : call'[u] = call[u]
    BY <1>9, <2>1, Goes DEF Close
  <2>4. Writing' = {}
    BY <2>2, <2>3 DEF Writing
  <2>5. buffer = <<>> /\ buffer' = <<>>
    BY <1>9, <2>2, Closed DEF EmptyInv, Close
  <2>6. disk' = disk
    <3>1. \A f \in Files : disk'[f] = disk[f]
      BY <1>9, <2>5, Closed, TextShape DEF Close
    <3>2. disk' \in [Files -> Seq(Pieces)] /\ disk \in [Files -> Seq(Pieces)]
      BY <1>9, Closed DEF Close, TypeInv
    <3> QED BY <3>1, <3>2
  <2> QED BY <1>9, <2>2, <2>4, <2>5, <2>6 DEF Reopens, Close
<1>10. ASSUME NEW t \in Threads, Open(t) PROVE Reopens
  <2>1. call[t] # None /\ call[t].pc = "open" /\ call[t].op = "SetLogFile"
    BY <1>10, OpenKeeps DEF Open, Doing
  <2>2. Writing = {}
    BY <2>1, NoneWriting DEF Writing
  <2>3. call'[t].op = "SetLogFile" /\ \A u \in Threads \ {t} : call'[u] = call[u]
    BY <1>10, <2>1, Goes DEF Open
  <2>4. Writing' = {}
    BY <2>2, <2>3 DEF Writing
  <2> QED BY <1>10, <2>2, <2>4, OpenKeeps DEF EmptyInv, Reopens, Open
<1>11. ASSUME NEW t \in Threads, Unlock(t) PROVE Quiet
  <2>1. t \notin Writing
    BY <1>11 DEF Unlock, Doing, Writing
  <2>2. call'[t] = None /\ \A u \in Threads \ {t} : call'[u] = call[u]
    BY <1>11 DEF Unlock, TypeInv
  <2> QED BY <1>11, <2>1, <2>2, IsQuiet DEF Unlock, Writing
<1>12. ASSUME Crash \/ Exit PROVE Restarts
  <2>1. Writing' = {} /\ buffer' = <<>> /\ file_' = None /\ ends' = ends + 1
    BY <1>12, RestartKeeps DEF Crash, Exit, NextProcess, Writing
  <2>2. CASE Crash
    BY <2>1, <2>2 DEF Crash, Restarts
  <2>3. CASE Exit
    <3>1. Writing = {} /\ buffer = <<>>
      BY <2>3 DEF Exit, Writing, EmptyInv
    <3>2. \A f \in Files : disk'[f] = disk[f]
      BY <2>3, <3>1, Closed, TextShape DEF Exit
    <3>3. disk' \in [Files -> Seq(Pieces)] /\ disk \in [Files -> Seq(Pieces)]
      BY <2>3, Closed DEF Exit, TypeInv
    <3> QED BY <2>1, <3>2, <3>3 DEF Restarts
  <2> QED BY <1>12, <2>2, <2>3
<1>13. ASSUME NEW t \in Threads, Proceed(t)
       PROVE  Quiet \/ Reopens \/ Starts(t) \/ Ends(t) \/ Flushes(t)
  BY <1>13, <1>5, <1>6, <1>7, <1>8, <1>9, <1>10, <1>11 DEF Proceed
<1> QED BY <1>1, <1>2, <1>4, <1>12, <1>13 DEF Next, Elsewhere

-------------------------------------------------------------------------------
(* What the texts look like.                                               *)

(* A newline follows the head of its line.                                 *)
WholeLines(s) ==
    \A i \in 1 .. Len(s) :
        /\ s[i].op = "Write"
        /\ s[i].part = "end" => i > 1 /\ s[i - 1] = [s[i] EXCEPT !.part = "head"]

(* What a call that writes a line has put is the end of the text, and no   *)
(* more than that is in the buffer.                                        *)
Begun(t) ==
    LET s == Text(file_) IN
    IF call[t].pc = "end"
    THEN Len(buffer) <= 1 /\ Len(s) >= 1 /\ s[Len(s)] = Piece(t, "head")
    ELSE /\ Len(buffer) <= 2 /\ Len(s) >= 2
         /\ s[Len(s)] = Piece(t, "end") /\ s[Len(s) - 1] = Piece(t, "head")

(* The buffer has no more than the line that is being written, and the     *)
(* texts have whole lines.                                                 *)
LineInv ==
    /\ EmptyInv
    /\ \A t \in Writing : file_ \in Files /\ Begun(t)
    /\ \A f \in Files : WholeLines(Text(f))

(* A line gets its head.                                                   *)
LEMMA HeadPut ==
    ASSUME NEW s \in Seq(Pieces), WholeLines(s), NEW p \in Pieces,
           p.op = "Write", p.part = "head"
    PROVE  /\ WholeLines(Append(s, p)) /\ Len(Append(s, p)) = Len(s) + 1
           /\ Append(s, p)[Len(s) + 1] = p
           /\ \A i \in 1 .. Len(s) : Append(s, p)[i] = s[i]
<1>1. /\ Append(s, p) \in Seq(Pieces) /\ Len(Append(s, p)) = Len(s) + 1 /\ Len(s) \in Nat
      /\ Append(s, p)[Len(s) + 1] = p /\ \A i \in 1 .. Len(s) : Append(s, p)[i] = s[i]
  BY AppendProperties
<1> DEFINE r == Append(s, p)
<1> HIDE DEF r
<1>2. ASSUME NEW i \in 1 .. Len(r)
      PROVE  /\ r[i].op = "Write"
             /\ r[i].part = "end" => i > 1 /\ r[i - 1] = [r[i] EXCEPT !.part = "head"]
  <2>1. CASE i = Len(s) + 1
    BY <1>1, <2>1 DEF r
  <2>2. CASE i \in 1 .. Len(s)
    BY <1>1, <2>2 DEF r, WholeLines
  <2> QED BY <1>1, <1>2, <2>1, <2>2 DEF r
<1> QED BY <1>1, <1>2 DEF r, WholeLines

(* And its end.                                                            *)
LEMMA EndPut ==
    ASSUME NEW s \in Seq(Pieces), WholeLines(s), NEW p \in Pieces,
           p.op = "Write", p.part = "end", Len(s) >= 1,
           s[Len(s)] = [p EXCEPT !.part = "head"]
    PROVE  /\ WholeLines(Append(s, p)) /\ Len(Append(s, p)) = Len(s) + 1
           /\ Append(s, p)[Len(s) + 1] = p
           /\ \A i \in 1 .. Len(s) : Append(s, p)[i] = s[i]
<1>1. /\ Append(s, p) \in Seq(Pieces) /\ Len(Append(s, p)) = Len(s) + 1 /\ Len(s) \in Nat
      /\ Append(s, p)[Len(s) + 1] = p /\ \A i \in 1 .. Len(s) : Append(s, p)[i] = s[i]
  BY AppendProperties
<1> DEFINE r == Append(s, p)
<1> HIDE DEF r
<1>2. ASSUME NEW i \in 1 .. Len(r)
      PROVE  /\ r[i].op = "Write"
             /\ r[i].part = "end" => i > 1 /\ r[i - 1] = [r[i] EXCEPT !.part = "head"]
  <2>1. CASE i = Len(s) + 1
    <3>1. i - 1 = Len(s) /\ i - 1 \in 1 .. Len(s) /\ i > 1
      BY <1>1, <2>1
    <3>2. r[i - 1] = s[Len(s)] /\ r[i] = p
      BY <1>1, <2>1, <3>1 DEF r
    <3> QED BY <3>1, <3>2
  <2>2. CASE i \in 1 .. Len(s)
    BY <1>1, <2>2 DEF r, WholeLines
  <2> QED BY <1>1, <1>2, <2>1, <2>2 DEF r
<1> QED BY <1>1, <1>2 DEF r, WholeLines

(* The steps that put something, once more: the text of the file grows.    *)
LEMMA StartsShape ==
    ASSUME TypeInv, OwnInv, LineInv, NEW t \in Threads, Starts(t)
    PROVE  /\ file_ \in Files /\ file_' = file_ /\ disk[file_] = Text(file_)
           /\ Piece(t, "head")' = Piece(t, "head") /\ Piece(t, "head") \in Pieces
           /\ Piece(t, "head").op = "Write" /\ Piece(t, "head").part = "head"
           /\ Text(file_)' = Append(Text(file_), Piece(t, "head"))
           /\ Len(buffer') <= 1 /\ Len(disk'[file_]) >= Len(disk[file_])
           /\ \A f \in Files \ {file_} : disk'[f] = disk[f] /\ Text(f)' = Text(f)
<1>1. call[t] # None /\ call[t].op = "Write" /\ call[t].pc = "head" /\ file_' = file_
  BY DEF Starts, Put, Doing
<1>2. file_ # None /\ file_ \in Files
  BY <1>1 DEF OwnInv, TypeInv
<1>3. /\ Piece(t, "head") \in Pieces
      /\ Text(file_)' = Append(Text(file_), Piece(t, "head"))
      /\ Len(buffer') <= Len(buffer) + 1
      /\ Len(disk'[file_]) >= Len(disk[file_])
      /\ \A f \in Files \ {file_} : disk'[f] = disk[f] /\ Text(f)' = Text(f)
  BY <1>2, PutGrows DEF Starts
<1>4. buffer = <<>>
  BY DEF Starts, LineInv, EmptyInv
<1>5. disk[file_] = Text(file_)
  BY <1>2, <1>4, TextShape
<1>6. Len(buffer') <= 1
  <2>1. Len(buffer) = 0
    BY <1>4
  <2> QED BY <1>3, <2>1
<1> QED BY <1>1, <1>2, <1>3, <1>5, <1>6 DEF Starts, Piece

(* The same for the end of the line, which stands after its head.          *)
LEMMA EndsShape ==
    ASSUME TypeInv, OwnInv, LineInv, NEW t \in Threads, Ends(t)
    PROVE  /\ file_ \in Files /\ file_' = file_
           /\ Piece(t, "head")' = Piece(t, "head") /\ Piece(t, "end")' = Piece(t, "end")
           /\ Piece(t, "end") \in Pieces
           /\ Piece(t, "end").op = "Write" /\ Piece(t, "end").part = "end"
           /\ Piece(t, "head") = [Piece(t, "end") EXCEPT !.part = "head"]
           /\ Text(file_)' = Append(Text(file_), Piece(t, "end"))
           /\ Len(Text(file_)) >= 1 /\ Text(file_)[Len(Text(file_))] = Piece(t, "head")
           /\ Len(buffer) <= 1 /\ Len(buffer') <= 2 /\ Len(disk'[file_]) >= Len(disk[file_])
           /\ \A f \in Files \ {file_} : disk'[f] = disk[f] /\ Text(f)' = Text(f)
<1>1. call[t] # None /\ call[t].op = "Write" /\ call[t].pc = "end" /\ file_' = file_
  BY DEF Ends, Put, Doing
<1>2. file_ # None /\ file_ \in Files
  BY <1>1 DEF OwnInv, TypeInv
<1>3. /\ Piece(t, "end") \in Pieces
      /\ Text(file_)' = Append(Text(file_), Piece(t, "end"))
      /\ Len(buffer') <= Len(buffer) + 1
      /\ Len(disk'[file_]) >= Len(disk[file_])
      /\ \A f \in Files \ {file_} : disk'[f] = disk[f] /\ Text(f)' = Text(f)
  BY <1>2, PutGrows DEF Ends
<1>4. /\ Len(buffer) <= 1 /\ Len(Text(file_)) >= 1
      /\ Text(file_)[Len(Text(file_))] = Piece(t, "head")
  BY <1>1 DEF Ends, LineInv, Begun
<1>5. Len(buffer) \in Nat /\ Len(buffer') \in Nat
  <2>1. buffer' \in Seq(Pieces)
    BY <1>2, PutGrows DEF Ends
  <2> QED BY <2>1 DEF TypeInv
<1> QED BY <1>1, <1>2, <1>3, <1>4, <1>5 DEF Ends, Piece

(* The lines on disk are whole as well.                                    *)
LEMMA DiskLines ==
    ASSUME TypeInv, NEW f \in Files, WholeLines(Text(f))
    PROVE  WholeLines(disk[f])
<1>1. /\ Len(disk[f]) \in Nat /\ Len(Text(f)) \in Nat /\ Len(disk[f]) <= Len(Text(f))
      /\ \A i \in 1 .. Len(disk[f]) : Text(f)[i] = disk[f][i]
  BY TextShape
<1>2. \A i \in 1 .. Len(disk[f]) : i \in 1 .. Len(Text(f)) /\ (i > 1 => i - 1 \in 1 .. Len(disk[f]))
  BY <1>1
<1> QED BY <1>1, <1>2 DEF WholeLines

(* An empty buffer adds nothing to what is on disk.                        *)
LEMMA TextIsDisk ==
    ASSUME TypeInv, buffer = <<>>
    PROVE  \A f \in Files : Text(f) = disk[f]
BY TextShape

(* The same after a step.                                                  *)
LEMMA TextIsDiskNext ==
    ASSUME TypeInv', buffer' = <<>>
    PROVE  \A f \in Files : Text(f)' = disk'[f]
<1>1. \A f \in Files : disk'[f] \in Seq(Pieces) /\ Text(f)' = disk'[f] \o <<>>
  BY DEF TypeInv, Text, Held
<1> QED BY <1>1, ConcatEmptySeq

(* There are no texts at first.                                            *)
LEMMA LineInit == TypeInv /\ Init => LineInv
<1> SUFFICES ASSUME TypeInv, Init PROVE LineInv
  OBVIOUS
<1>1. Writing = {} /\ buffer = <<>>
  BY DEF Init, Writing
<1>2. \A f \in Files : Text(f) = <<>>
  BY <1>1, TextIsDisk DEF Init
<1> QED BY <1>1, <1>2 DEF LineInv, EmptyInv, WholeLines

(* The invariant of the texts, by the kinds of steps.                      *)
LEMMA LineNext ==
    ASSUME TypeInv, OwnInv, LineInv, [Next]_vars
    PROVE  LineInv'
<1>1. TypeInv' /\ OwnInv'
  BY TypeNext
<1>2. CASE Quiet
  <2>1. \A f : Text(f)' = Text(f)
    BY <1>2 DEF Quiet, Text, Held
  <2>2. \A t \in Writing : Begun(t)'
    BY <1>2, <2>1 DEF Quiet, LineInv, Begun, Piece
  <2> QED BY <1>2, <2>1, <2>2 DEF Quiet, LineInv, EmptyInv
<1>3. CASE Reopens
  <2>1. \A f \in Files : Text(f)' = Text(f)
    BY <1>1, <1>3, TextIsDisk, TextIsDiskNext DEF Reopens
  <2> QED BY <1>3, <2>1 DEF Reopens, LineInv, EmptyInv
<1>4. CASE Restarts
  <2>1. \A f \in Files : Text(f)' = disk[f]
    BY <1>1, <1>4, TextIsDisk, TextIsDiskNext DEF Restarts
  <2> QED BY <1>4, <2>1, DiskLines DEF Restarts, LineInv, EmptyInv
<1>5. ASSUME NEW t \in Threads, Starts(t) PROVE LineInv'
  <2> DEFINE s == Text(file_)
             p == Piece(t, "head")
  <2>1. /\ file_ \in Files /\ file_' = file_ /\ p' = p /\ p \in Pieces
        /\ p.op = "Write" /\ p.part = "head"
        /\ s' = Append(s, p) /\ Len(buffer') <= 1
        /\ \A f \in Files \ {file_} : Text(f)' = Text(f)
    BY <1>5, StartsShape
  <2>2. s \in Seq(Pieces) /\ WholeLines(s) /\ Len(s) \in Nat
    BY <2>1, TextShape DEF LineInv
  <2> HIDE DEF p, s
  <2>3. WholeLines(s') /\ Len(s') = Len(s) + 1 /\ s'[Len(s')] = p'
    BY <2>1, <2>2, HeadPut
  <2> USE DEF p, s
  <2>4. Begun(t)'
    BY <1>5, <2>1, <2>2, <2>3 DEF Begun, Starts
  <2>5. \A f \in Files : WholeLines(Text(f)')
    BY <2>1, <2>3 DEF LineInv
  <2>6. Writing' = {t}
    BY <1>5 DEF Starts
  <2> QED BY <2>1, <2>4, <2>5, <2>6 DEF LineInv, EmptyInv, WholeLines
<1>6. ASSUME NEW t \in Threads, Ends(t) PROVE LineInv'
  <2> DEFINE s == Text(file_)
             h == Piece(t, "head")
             p == Piece(t, "end")
  <2>1. /\ file_ \in Files /\ file_' = file_ /\ h' = h /\ p' = p /\ p \in Pieces
        /\ p.op = "Write" /\ p.part = "end" /\ h = [p EXCEPT !.part = "head"]
        /\ s' = Append(s, p) /\ Len(s) >= 1 /\ s[Len(s)] = h /\ Len(buffer') <= 2
        /\ \A f \in Files \ {file_} : Text(f)' = Text(f)
    BY <1>6, EndsShape
  <2>2. s \in Seq(Pieces) /\ WholeLines(s) /\ Len(s) \in Nat
    BY <2>1, TextShape DEF LineInv
  <2> HIDE DEF h, p, s
  <2>3. /\ WholeLines(s') /\ Len(s') = Len(s) + 1 /\ s'[Len(s) + 1] = p
        /\ \A i \in 1 .. Len(s) : s'[i] = s[i]
    BY <2>1, <2>2, EndPut
  <2>4. s'[Len(s')] = p' /\ s'[Len(s') - 1] = h' /\ Len(s') >= 2
    BY <2>1, <2>2, <2>3
  <2> USE DEF h, p, s
  <2>5. Begun(t)'
    BY <1>6, <2>1, <2>4 DEF Begun, Ends
  <2>6. \A f \in Files : WholeLines(Text(f)')
    BY <2>1, <2>3 DEF LineInv
  <2>7. Writing' = {t}
    BY <1>6 DEF Ends
  <2> QED BY <2>1, <2>5, <2>6, <2>7 DEF LineInv, EmptyInv, WholeLines
<1>7. ASSUME NEW t \in Threads, Flushes(t) PROVE LineInv'
  <2>1. \A f \in Files : Text(f)' = Text(f)
    BY <1>1, <1>7, TextIsDisk, TextIsDiskNext DEF Flushes
  <2> QED BY <1>7, <2>1 DEF Flushes, LineInv, EmptyInv
<1> QED BY <1>2, <1>3, <1>4, <1>5, <1>6, <1>7, Kinds DEF LineInv

(* The invariant all the rest is built on.                                 *)
THEOREM TextInvariance == Spec => [](TypeInv /\ OwnInv /\ LineInv)
<1>1. Init => TypeInv /\ OwnInv /\ LineInv
  BY TypeInit, LineInit
<1>2. TypeInv /\ OwnInv /\ LineInv /\ [Next]_vars => (TypeInv /\ OwnInv /\ LineInv)'
  BY TypeNext, LineNext
<1> QED BY <1>1, <1>2, PTL DEF Spec

(* Nothing is buffered for a stream that is closed.                        *)
THEOREM LogTypeOK == Spec => []TypeOK
<1>1. TypeInv /\ OwnInv /\ LineInv => TypeOK
  <2> SUFFICES ASSUME TypeInv, LineInv PROVE TypeOK
    OBVIOUS
  <2>1. file_ = None => buffer = <<>>
    BY LogAssumption DEF LineInv, EmptyInv
  <2>2. /\ \A f \in Files : disk[f] \in Seq(Pieces)
        /\ \A s \in {buffer, cerr} : s \in Seq(Pieces)
    BY DEF TypeInv
  <2>3. \A s \in Seq(Pieces) : \A i \in DOMAIN s : s[i] \in Pieces
    OBVIOUS
  <2> QED BY <2>1, <2>2, <2>3 DEF TypeInv, TypeOK
<1> QED BY <1>1, TextInvariance, PTL

-------------------------------------------------------------------------------
(* What a file has it keeps.                                               *)

(* The disk has the beginning of the text after a step as well.            *)
LEMMA TextShapeNext ==
    ASSUME TypeInv', NEW f \in Files
    PROVE  /\ disk'[f] \in Seq(Pieces) /\ Len(disk'[f]) \in Nat /\ Len(Text(f)') \in Nat
           /\ Len(disk'[f]) <= Len(Text(f)')
           /\ f = file_' => Len(Text(f)') = Len(disk'[f]) + Len(buffer')
           /\ \A i \in 1 .. Len(disk'[f]) : Text(f)'[i] = disk'[f][i]
<1> DEFINE h == Held(f)'
<1>1. disk'[f] \in Seq(Pieces) /\ h \in Seq(Pieces) /\ <<>> \in Seq(Pieces)
  BY DEF TypeInv, Held
<1>2. Text(f)' = disk'[f] \o h /\ (f = file_' => h = buffer')
  BY DEF Text, Held
<1> HIDE DEF h
<1> DEFINE d == disk'[f]
<1>3. d \in Seq(Pieces) /\ Len(h) \in Nat /\ Len(d) \in Nat
  BY <1>1
<1> HIDE DEF d
<1>4. Len(d \o h) = Len(d) + Len(h) /\ \A i \in 1 .. Len(d) : (d \o h)[i] = d[i]
  BY <1>1, <1>3, ConcatProperties
<1> DEFINE x == Text(f)'
<1>5. x = d \o h /\ (f = file_' => h = buffer')
  BY <1>2 DEF d
<1> HIDE DEF x
<1>6. Len(x) = Len(d) + Len(h) /\ \A i \in 1 .. Len(d) : x[i] = d[i]
  BY <1>4, <1>5
<1>7. Len(x) \in Nat /\ Len(d) <= Len(x)
  BY <1>3, <1>6
<1>8. ASSUME f = file_' PROVE Len(x) = Len(d) + Len(buffer')
  <2>1. h = buffer'
    BY <1>5, <1>8
  <2> QED BY <1>6, <2>1
<1> QED BY <1>3, <1>6, <1>7, <1>8 DEF d, x

(* No step takes anything from a file or changes it, not even a crash.     *)
LEMMA DiskGrows ==
    ASSUME TypeInv, OwnInv, LineInv, [Next]_vars, NEW f \in Files
    PROVE  /\ disk[f] \in Seq(Pieces) /\ disk'[f] \in Seq(Pieces)
           /\ Len(disk[f]) \in Nat /\ Len(disk'[f]) \in Nat
           /\ Len(disk[f]) <= Len(disk'[f])
           /\ \A i \in 1 .. Len(disk[f]) : disk'[f][i] = disk[f][i]
<1>1. TypeInv'
  BY TypeNext
<1>2. /\ disk[f] \in Seq(Pieces) /\ Text(f) \in Seq(Pieces)
      /\ Len(disk[f]) \in Nat /\ Len(Text(f)) \in Nat /\ Len(disk[f]) <= Len(Text(f))
      /\ \A i \in 1 .. Len(disk[f]) : Text(f)[i] = disk[f][i]
  BY TextShape
<1>3. /\ disk'[f] \in Seq(Pieces) /\ Len(disk'[f]) \in Nat
      /\ Len(disk'[f]) <= Len(Text(f)')
      /\ \A i \in 1 .. Len(disk'[f]) : Text(f)'[i] = disk'[f][i]
  BY <1>1, TextShapeNext
<1>4. CASE disk'[f] = disk[f] \/ disk'[f] = Text(f)
  BY <1>2, <1>3, <1>4
<1>5. ASSUME NEW p \in Pieces, Text(f)' = Append(Text(f), p), Len(disk'[f]) >= Len(disk[f])
      PROVE  \A i \in 1 .. Len(disk[f]) : disk'[f][i] = disk[f][i]
  <2>1. \A i \in 1 .. Len(Text(f)) : Text(f)'[i] = Text(f)[i]
    BY <1>2, <1>5, AppendProperties
  <2> SUFFICES ASSUME NEW i \in 1 .. Len(disk[f]) PROVE disk'[f][i] = disk[f][i]
    OBVIOUS
  <2>2. i \in 1 .. Len(Text(f)) /\ i \in 1 .. Len(disk'[f])
    BY <1>2, <1>3, <1>5
  <2>3. Text(f)'[i] = Text(f)[i] /\ Text(f)'[i] = disk'[f][i]
    BY <1>3, <2>1, <2>2
  <2> QED BY <1>2, <2>3
<1>6. CASE \E t \in Threads : Starts(t) \/ Ends(t)
  BY <1>2, <1>3, <1>4, <1>5, <1>6, StartsShape, EndsShape
<1>7. CASE \E t \in Threads : Flushes(t)
  BY <1>4, <1>7 DEF Flushes
<1> QED BY <1>2, <1>3, <1>4, <1>6, <1>7, Kinds DEF LineInv, Quiet, Reopens, Restarts

-------------------------------------------------------------------------------
(* What Write returned for.                                                *)

(* The newline of message m is in f.                                       *)
Wrote(f, m) ==
    \E i \in 1 .. Len(disk[f]) : disk[f][i] = [op |-> "Write", what |-> m, part |-> "end"]

(* And that of a call that is about to return, if it found the file open.  *)
ReturnInv ==
    /\ \A r \in returned : Wrote(r.file, r.message)
    /\ \A t \in Threads :
          call[t] # None /\ call[t].op = "Write" /\ call[t].pc = "unlock" /\ file_ # None
              => Wrote(file_, call[t].what)

(* A newline on disk stays there.                                          *)
LEMMA WroteStays ==
    ASSUME TypeInv, OwnInv, LineInv, [Next]_vars, NEW f \in Files, NEW m, Wrote(f, m)
    PROVE  Wrote(f, m)'
<1>1. /\ Len(disk[f]) \in Nat /\ Len(disk'[f]) \in Nat
      /\ Len(disk[f]) <= Len(disk'[f])
      /\ \A i \in 1 .. Len(disk[f]) : disk'[f][i] = disk[f][i]
  BY DiskGrows
<1>2. 1 .. Len(disk[f]) \subseteq 1 .. Len(disk'[f])
  BY <1>1
<1> QED BY <1>1, <1>2 DEF Wrote

(* How a call of Write gets to its return.                                 *)
LEMMA Returning ==
    ASSUME TypeInv, OwnInv, [Next]_vars, NEW u \in Threads,
           call'[u] # None, call'[u].op = "Write", call'[u].pc = "unlock", file_' # None
    PROVE  (call'[u] = call[u] /\ UNCHANGED file_) \/ Flush(u)
<1>1. CASE UNCHANGED vars
  BY <1>1 DEF vars
<1>2. ASSUME NEW t \in Threads, CallLog(t) \/ CallSet(t)
      PROVE  call'[u] = call[u] /\ UNCHANGED file_
  <2>1. PICK op, what : CallWith(t, op, what)
    BY <1>2 DEF CallLog, CallSet
  <2>2. call'[t].pc = "lock" /\ \A v \in Threads \ {t} : call'[v] = call[v]
    BY <2>1 DEF CallWith, TypeInv
  <2> QED BY <2>1, <2>2 DEF CallWith
<1>3. ASSUME NEW t \in Threads, call[t] # None,
             NEW pc \in {"lock", "head", "end", "flush", "close", "open", "unlock"},
             Continue(t, pc), pc # "unlock" \/ call[t].op # "Write"
      PROVE  call'[u] = call[u]
  BY <1>3, Goes
<1>4. ASSUME NEW t \in Threads, Lock(t)
      PROVE  call'[u] = call[u] /\ UNCHANGED file_
  <2>1. call[t] # None /\ call[t] \in Calls /\ UNCHANGED file_ /\ Continue(t, FirstStep(call[t].op))
    BY <1>4, InCall DEF Lock, Doing
  <2>2. /\ FirstStep(call[t].op) \in {"head", "unlock", "close"}
        /\ FirstStep(call[t].op) = "unlock" => call[t].op = "Write" /\ file_ = None
    BY <2>1, Zenon DEF Calls, Ops, FirstStep
  <2> QED BY <1>3, <2>1, <2>2
<1>5. ASSUME NEW t \in Threads, NEW part, NEW pc \in {"end", "unlock"}, Show(t, part, pc)
      PROVE  call'[u] = call[u] /\ UNCHANGED file_
  BY <1>3, <1>5 DEF Show, Doing
<1>6. ASSUME NEW t \in Threads, NEW part, NEW pc \in {"end", "flush"}, Put(t, part, pc)
      PROVE  call'[u] = call[u] /\ UNCHANGED file_
  BY <1>3, <1>6 DEF Put, Doing
<1>7. ASSUME NEW t \in Threads, Flush(t), t # u
      PROVE  call'[u] = call[u] /\ UNCHANGED file_
  <2>1. call[t] # None /\ Continue(t, "unlock") /\ UNCHANGED file_
    BY <1>7 DEF Flush, Doing
  <2> QED BY <1>7, <2>1, Goes
<1>8. ASSUME NEW t \in Threads, Close(t) PROVE FALSE
  BY <1>8 DEF Close, CloseFile
<1>9. ASSUME NEW t \in Threads, Open(t)
      PROVE  call'[u] = call[u] /\ UNCHANGED file_
  <2>1. call[t] # None /\ call[t].pc = "open" /\ call[t].op = "SetLogFile"
    BY <1>9, OpenKeeps DEF Open, Doing
  <2>2. call'[u] = call[u]
    BY <1>3, <1>9, <2>1 DEF Open
  <2>3. t = u
    BY <2>1, <2>2, Exclusion DEF mutex_of
  <2> QED BY <2>1, <2>2, <2>3
<1>10. ASSUME NEW t \in Threads, Unlock(t)
       PROVE  call'[u] = call[u] /\ UNCHANGED file_
  <2>1. call'[t] = None /\ \A v \in Threads \ {t} : call'[v] = call[v]
    BY <1>10 DEF Unlock, TypeInv
  <2> QED BY <1>10, <2>1 DEF Unlock
<1>11. ASSUME Crash \/ Exit PROVE FALSE
  BY <1>11, RestartKeeps
<1>12. ASSUME NEW t \in Threads, Proceed(t)
       PROVE  (call'[u] = call[u] /\ UNCHANGED file_) \/ Flush(u)
  BY <1>12, <1>5, <1>6, <1>7, <1>8, <1>9, <1>10 DEF Proceed
<1> QED BY <1>1, <1>2, <1>4, <1>11, <1>12 DEF Next, Elsewhere

(* A call of Write that is about to return has just flushed, or found no   *)
(* file.                                                                   *)
LEMMA ReturnNext ==
    ASSUME TypeInv, OwnInv, LineInv, ReturnInv, [Next]_vars
    PROVE  ReturnInv'
<1>1. ASSUME NEW r \in returned PROVE Wrote(r.file, r.message)'
  <2>1. r.file \in Files /\ Wrote(r.file, r.message)
    BY DEF TypeInv, ReturnInv
  <2> QED BY <2>1, WroteStays
<1>2. ASSUME NEW r \in returned', r \notin returned PROVE Wrote(r.file, r.message)'
  <2>1. PICK t \in Threads : Unlock(t)
    BY <1>2 DEF Next, vars, CallLog, CallSet, CallWith, Lock, Proceed, Show, Put, Flush, Close, Open,
                Crash, Exit, NextProcess, Elsewhere
  <2>2. /\ call[t] # None /\ call[t].op = "Write" /\ call[t].pc = "unlock" /\ file_ # None
        /\ r = [message |-> call[t].what, file |-> file_] /\ UNCHANGED disk
    BY <1>2, <2>1 DEF Unlock, Doing
  <2>3. Wrote(file_, call[t].what)
    BY <2>2 DEF ReturnInv
  <2> QED BY <2>2, <2>3 DEF Wrote
<1>3. ASSUME NEW u \in Threads,
             call'[u] # None, call'[u].op = "Write", call'[u].pc = "unlock", file_' # None
      PROVE  Wrote(file_, call[u].what)'
  <2>1. CASE call'[u] = call[u] /\ UNCHANGED file_
    <3> DEFINE f == file_
               m == call[u].what
    <3>1. f \in Files /\ Wrote(f, m) /\ f' = f /\ m' = m
      BY <1>3, <2>1 DEF TypeInv, ReturnInv
    <3> HIDE DEF f, m
    <3>2. /\ Len(disk[f]) \in Nat /\ Len(disk'[f]) \in Nat
          /\ Len(disk[f]) <= Len(disk'[f])
          /\ \A i \in 1 .. Len(disk[f]) : disk'[f][i] = disk[f][i]
      BY <3>1, DiskGrows
    <3>3. 1 .. Len(disk[f]) \subseteq 1 .. Len(disk'[f])
      BY <3>2
    <3>4. Wrote(f, m)'
      BY <3>1, <3>2, <3>3 DEF Wrote
    <3> QED BY <3>4 DEF f, m
  <2>2. CASE Flush(u)
    <3>1. /\ call[u] # None /\ call[u].pc = "flush" /\ call[u].op = "Write"
          /\ file_ \in Files /\ disk'[file_] = Text(file_) /\ UNCHANGED file_
      BY <2>2, FlushStep DEF Flush, Doing
    <3>2. call'[u].what = call[u].what
      BY <2>2, <3>1, Goes DEF Flush
    <3>3. Begun(u)
      BY <3>1 DEF LineInv, Writing
    <3>4. Len(Text(file_)) \in 1 .. Len(Text(file_)) /\ Text(file_)[Len(Text(file_))] = Piece(u, "end")
      BY <3>1, <3>3, TextShape DEF Begun
    <3> QED BY <3>1, <3>2, <3>4 DEF Wrote, Piece
  <2> QED BY <1>3, <2>1, <2>2, Returning
<1> QED BY <1>1, <1>2, <1>3 DEF ReturnInv

(* ReturnedIsOnDisk: what Write has returned for is in its file.           *)
THEOREM ReturnsFlushed == Spec => []ReturnedIsOnDisk
<1>1. Init => ReturnInv
  BY DEF Init, ReturnInv
<1>2. TypeInv /\ OwnInv /\ LineInv /\ ReturnInv /\ [Next]_vars => ReturnInv'
  BY ReturnNext
<1>3. TypeInv /\ ReturnInv => ReturnedIsOnDisk
  <2> SUFFICES ASSUME TypeInv, ReturnInv, NEW r \in returned
               PROVE  [op |-> "Write", what |-> r.message, part |-> "end"] \in ToSet(disk[r.file])
    BY DEF ReturnedIsOnDisk
  <2>1. disk[r.file] \in Seq(Pieces) /\ Wrote(r.file, r.message)
    BY DEF TypeInv, ReturnInv
  <2>2. DOMAIN disk[r.file] = 1 .. Len(disk[r.file])
    BY <2>1
  <2> QED BY <2>1, <2>2 DEF Wrote, ToSet
<1> QED BY <1>1, <1>2, <1>3, TextInvariance, PTL DEF Spec

-------------------------------------------------------------------------------
(* Lines without an end.                                                   *)

(* Where the head of the line stands that is being written.                *)
HeadPos(t) ==
    IF call[t].pc = "end" THEN Len(Text(file_)) ELSE Len(Text(file_)) - 1
(* The place of that head.                                                 *)
Current == {<<file_, HeadPos(t)>> : t \in Writing}

(* The others were left by processes that ended.                           *)
Torn == {p \in Files \X Nat : p[2] \in Unended(p[1])} \ Current

(* There are no more of those than processes that ended.                   *)
TornInv == IsFiniteSet(Torn) /\ Cardinality(Torn) <= ends

(* A line the disk has already without its end had none before.            *)
LEMMA UnendedBefore ==
    ASSUME TypeInv, OwnInv, LineInv, [Next]_vars, NEW f \in Files,
           NEW i \in 1 .. Len(disk[f]), i \in Unended(f)'
    PROVE  i \in Unended(f)
<1>1. /\ disk[f] \in Seq(Pieces) /\ disk'[f] \in Seq(Pieces)
      /\ Len(disk[f]) \in Nat /\ Len(disk'[f]) \in Nat
      /\ Len(disk[f]) <= Len(disk'[f])
      /\ \A j \in 1 .. Len(disk[f]) : disk'[f][j] = disk[f][j]
  BY DiskGrows
<1>2. /\ disk'[f][i].part = "head"
      /\ i < Len(disk'[f]) => disk'[f][i + 1].part = "head"
  BY DEF Unended
<1>3. ASSUME i < Len(disk[f]) PROVE disk[f][i + 1].part = "head"
  <2>1. i < Len(disk'[f]) /\ i + 1 \in 1 .. Len(disk[f])
    BY <1>1, <1>3
  <2> QED BY <1>1, <1>2, <2>1
<1>4. DOMAIN disk[f] = 1 .. Len(disk[f])
  BY <1>1
<1> QED BY <1>1, <1>2, <1>3, <1>4 DEF Unended

(* No step but the end of a process leaves a line without its end.         *)
LEMMA TornBefore ==
    ASSUME TypeInv, OwnInv, LineInv, [Next]_vars, ~Restarts
    PROVE  Torn' \subseteq Torn
<1> SUFFICES ASSUME NEW f \in Files, NEW i \in Nat, i \in Unended(f)', <<f, i>> \notin Current'
             PROVE  i \in Unended(f) /\ <<f, i>> \notin Current
  BY DEF Torn
<1>1. TypeInv' /\ LineInv'
  BY TypeNext, LineNext
<1>2. /\ disk[f] \in Seq(Pieces) /\ Text(f) \in Seq(Pieces)
      /\ Len(disk[f]) \in Nat /\ Len(Text(f)) \in Nat /\ Len(disk[f]) <= Len(Text(f))
      /\ \A j \in 1 .. Len(disk[f]) : Text(f)[j] = disk[f][j]
      /\ f = file_ => Len(Text(f)) = Len(disk[f]) + Len(buffer)
      /\ f # file_ => Text(f) = disk[f]
  <2>1. /\ disk[f] \in Seq(Pieces) /\ Text(f) \in Seq(Pieces)
        /\ Len(disk[f]) \in Nat /\ Len(Text(f)) \in Nat /\ Len(Held(f)) \in Nat
        /\ Len(Text(f)) = Len(disk[f]) + Len(Held(f))
        /\ \A j \in 1 .. Len(disk[f]) : Text(f)[j] = disk[f][j]
        /\ f # file_ => Text(f) = disk[f]
    BY TextShape
  <2>2. Len(disk[f]) <= Len(Text(f))
    BY <2>1
  <2>3. ASSUME f = file_ PROVE Len(Text(f)) = Len(disk[f]) + Len(buffer)
    <3>1. Held(f) = buffer
      BY <2>3 DEF Held
    <3> QED BY <2>1, <3>1
  <2> QED BY <2>1, <2>2, <2>3
<1>3. /\ disk'[f] \in Seq(Pieces) /\ Len(disk'[f]) \in Nat
      /\ Len(disk'[f]) <= Len(Text(f)')
      /\ \A j \in 1 .. Len(disk'[f]) : Text(f)'[j] = disk'[f][j]
  BY <1>1, TextShapeNext
<1>4. /\ i \in 1 .. Len(disk'[f]) /\ disk'[f][i].part = "head"
      /\ i < Len(disk'[f]) => disk'[f][i + 1].part = "head"
  <2>1. DOMAIN disk'[f] = 1 .. Len(disk'[f])
    BY <1>3
  <2> QED BY <2>1 DEF Unended
<1>5. CASE Quiet
  <2>1. Text(file_)' = Text(file_) /\ file_' = file_
    BY <1>5 DEF Quiet, Text, Held
  <2>2. \A t \in Writing : HeadPos(t)' = HeadPos(t)
    BY <1>5, <2>1 DEF Quiet, HeadPos
  <2>3. Current' = Current
    BY <1>5, <2>1, <2>2 DEF Quiet, Current
  <2> QED BY <1>5, <2>3 DEF Quiet, Unended
<1>6. CASE Reopens
  BY <1>6 DEF Reopens, Current, Unended
<1>7. ASSUME NEW t \in Threads, Starts(t) PROVE i \in Unended(f) /\ <<f, i>> \notin Current
  <2>1. Current = {} /\ Current' = {<<file_', HeadPos(t)'>>} /\ HeadPos(t)' = Len(Text(file_)')
    BY <1>7 DEF Starts, Current, HeadPos
  <2>2. i \in 1 .. Len(disk[f])
    <3>1. CASE f = file_
      <4>1. /\ file_' = file_ /\ disk[f] = Text(f) /\ Text(f)' = Append(Text(f), Piece(t, "head"))
            /\ Piece(t, "head") \in Pieces
        BY <1>7, <3>1, StartsShape
      <4>2. Len(Text(f)') = Len(Text(f)) + 1
        BY <1>2, <4>1, AppendProperties
      <4>3. HeadPos(t)' = Len(Text(f)')
        BY <2>1, <3>1, <4>1
      <4>4. i # Len(Text(f)')
        BY <2>1, <3>1, <4>1, <4>3
      <4> QED BY <1>2, <1>3, <1>4, <4>1, <4>2, <4>4
    <3>2. CASE f # file_
      BY <1>4, <1>7, <3>2, StartsShape
    <3> QED BY <3>1, <3>2
  <2> QED BY <2>1, <2>2, UnendedBefore
<1>8. ASSUME NEW t \in Threads, Ends(t) PROVE i \in Unended(f) /\ <<f, i>> \notin Current
  <2>1. /\ Current = {<<file_, HeadPos(t)>>} /\ Current' = {<<file_', HeadPos(t)'>>}
        /\ HeadPos(t) = Len(Text(file_)) /\ HeadPos(t)' = Len(Text(file_)') - 1
    BY <1>8 DEF Ends, Current, HeadPos, Put, Doing
  <2>2. CASE f = file_
    <3>1. /\ file_' = file_ /\ Text(f)' = Append(Text(f), Piece(t, "end"))
          /\ Piece(t, "end") \in Pieces /\ Piece(t, "end").part = "end"
          /\ Len(buffer) <= 1
      BY <1>8, <2>2, EndsShape
    <3>2. /\ Len(Text(f)') = Len(Text(f)) + 1
          /\ Text(f)'[Len(Text(f)) + 1] = Piece(t, "end")
      BY <1>2, <3>1, AppendProperties
    <3>3. HeadPos(t)' = Len(Text(f)') - 1 /\ HeadPos(t) = Len(Text(f))
      BY <2>1, <2>2, <3>1
    <3>4. HeadPos(t)' = Len(Text(f))
      BY <1>2, <3>2, <3>3
    <3>5. i # Len(Text(f))
      BY <2>1, <2>2, <3>1, <3>4
    <3>6. i # Len(Text(f)) + 1
      BY <1>3, <1>4, <3>1, <3>2
    <3>7. i <= Len(Text(f)) + 1
      BY <1>3, <1>4, <3>2
    <3>8. Len(buffer) \in Nat /\ Len(Text(f)) = Len(disk[f]) + Len(buffer)
      BY <1>2, <2>2 DEF TypeInv
    <3>9. i \in 1 .. Len(disk[f])
      BY <1>2, <1>4, <3>1, <3>5, <3>6, <3>7, <3>8
    <3>10. <<f, i>> \notin Current
      BY <2>1, <3>3, <3>5
    <3> QED BY <3>9, <3>10, UnendedBefore
  <2>3. CASE f # file_
    <3>1. i \in 1 .. Len(disk[f])
      BY <1>4, <1>8, <2>3, EndsShape
    <3> QED BY <2>1, <2>3, <3>1, UnendedBefore
  <2> QED BY <2>2, <2>3
<1>9. ASSUME NEW t \in Threads, Flushes(t) PROVE i \in Unended(f) /\ <<f, i>> \notin Current
  <2>1. /\ t \in Writing /\ Current = {<<file_, HeadPos(t)>>} /\ HeadPos(t) = Len(Text(file_)) - 1
        /\ disk'[f] = Text(f)
    BY <1>9 DEF Flushes, Current, HeadPos
  <2>2. CASE f = file_
    <3>1. /\ Len(buffer) <= 2 /\ Len(Text(f)) >= 2 /\ Text(f)[Len(Text(f))] = Piece(t, "end")
      BY <1>9, <2>1, <2>2 DEF Flushes, LineInv, Begun
    <3>2. i # Len(Text(f))
      BY <1>2, <1>4, <2>1, <3>1 DEF Piece
    <3>3. i # Len(Text(f)) - 1
      BY <1>2, <1>4, <2>1, <3>1 DEF Piece
    <3>4. Len(buffer) \in Nat /\ Len(Text(f)) = Len(disk[f]) + Len(buffer)
      BY <1>2, <2>2 DEF TypeInv
    <3>5. i \in 1 .. Len(disk[f])
      BY <1>2, <1>4, <2>1, <3>1, <3>2, <3>3, <3>4
    <3>6. <<f, i>> \notin Current
      BY <2>1, <2>2, <3>3
    <3> QED BY <3>5, <3>6, UnendedBefore
  <2>3. CASE f # file_
    <3>1. i \in 1 .. Len(disk[f])
      BY <1>2, <1>4, <2>1, <2>3
    <3> QED BY <2>1, <2>3, <3>1, UnendedBefore
  <2> QED BY <2>2, <2>3
<1> QED BY <1>5, <1>6, <1>7, <1>8, <1>9, Kinds DEF LineInv

(* And that one leaves one line at most.                                   *)
LEMMA TornNext ==
    ASSUME TypeInv, OwnInv, LineInv, TornInv, [Next]_vars
    PROVE  TornInv'
<1>1. ends \in Nat /\ IsFiniteSet(Torn) /\ Cardinality(Torn) \in Nat /\ Cardinality(Torn) <= ends
  BY FS_CardinalityType DEF TypeInv, TornInv
<1>2. CASE ~Restarts
  <2>1. Torn' \subseteq Torn
    BY <1>2, TornBefore
  <2>2. IsFiniteSet(Torn') /\ Cardinality(Torn') <= Cardinality(Torn)
    BY <1>1, <2>1, FS_Subset
  <2>3. ends' = ends
    BY <1>2, Kinds DEF LineInv, Quiet, Reopens, Starts, Ends, Flushes
  <2>4. Cardinality(Torn') \in Nat
    BY <2>2, FS_CardinalityType
  <2> QED BY <1>1, <2>2, <2>3, <2>4 DEF TornInv
<1>3. CASE Restarts
  <2>1. Torn' \subseteq Torn \cup Current
    BY <1>3 DEF Restarts, Torn, Unended, Current
  <2>2. PICK x : Current \subseteq {x}
    <3>1. \A t, u \in Writing : t = u
      BY OneWriting
    <3>2. CASE Writing = {}
      BY <3>2 DEF Current
    <3>3. ASSUME NEW t \in Writing PROVE Current \subseteq {<<file_, HeadPos(t)>>}
      BY <3>1 DEF Current
    <3> QED BY <3>2, <3>3
  <2>3. Torn' \subseteq Torn \cup {x}
    BY <2>1, <2>2
  <2>4. /\ IsFiniteSet(Torn \cup {x})
        /\ Cardinality(Torn \cup {x}) = IF x \in Torn THEN Cardinality(Torn) ELSE Cardinality(Torn) + 1
    BY <1>1, FS_AddElement
  <2>5. IsFiniteSet(Torn') /\ Cardinality(Torn') <= Cardinality(Torn \cup {x})
    BY <2>3, <2>4, FS_Subset
  <2>6. ends' = ends + 1 /\ Cardinality(Torn') \in Nat
    BY <1>3, <2>5, FS_CardinalityType DEF Restarts
  <2> QED BY <1>1, <2>4, <2>5, <2>6 DEF TornInv
<1> QED BY <1>2, <1>3

(* There are none at first.                                                *)
LEMMA TornInit == Init => TornInv
<1> SUFFICES ASSUME Init PROVE TornInv
  OBVIOUS
<1>1. Torn = {}
  BY DEF Init, Torn, Unended
<1> QED BY <1>1, FS_EmptySet DEF Init, TornInv

(* FileLinesWhole: in a file no two lines of Write are mixed, and crashes  *)
(* and the call that writes now account for the lines without an end.      *)
THEOREM LinesAreWhole == Spec => []FileLinesWhole
<1>1. TypeInv /\ OwnInv /\ LineInv /\ TornInv /\ [Next]_vars => TornInv'
  BY TornNext
<1>2. TypeInv /\ OwnInv /\ LineInv /\ TornInv => FileLinesWhole
  <2> SUFFICES ASSUME TypeInv, OwnInv, LineInv, TornInv PROVE FileLinesWhole
    OBVIOUS
  <2>1. \A f \in Files : WholeLines(disk[f])
    BY DiskLines DEF LineInv
  <2>2. \A f \in Files : DOMAIN disk[f] = 1 .. Len(disk[f]) /\ Len(disk[f]) \in Nat
    BY DEF TypeInv
  <2> DEFINE all == UNION {{f} \X Unended(f) : f \in Files}
  <2>3. all \subseteq Torn \cup Current
    BY <2>2 DEF Torn, Unended
  <2> HIDE DEF all
  <2>4. ends \in Nat /\ IsFiniteSet(Torn) /\ Cardinality(Torn) \in Nat /\ Cardinality(Torn) <= ends
    BY FS_CardinalityType DEF TypeInv, TornInv
  <2>5. Cardinality(all) <= ends + Cardinality(Writing)
    <3>1. CASE Writing = {}
      <4>1. Current = {} /\ all \subseteq Torn
        BY <2>3, <3>1 DEF Current
      <4>2. Cardinality(all) \in Nat /\ Cardinality(all) <= Cardinality(Torn)
        BY <2>4, <4>1, FS_Subset, FS_CardinalityType
      <4>3. Cardinality(Writing) = 0
        BY <3>1, FS_EmptySet
      <4> QED BY <2>4, <4>2, <4>3
    <3>2. ASSUME NEW t \in Writing PROVE Cardinality(all) <= ends + Cardinality(Writing)
      <4>1. Writing = {t}
        BY OneWriting
      <4> DEFINE x == <<file_, HeadPos(t)>>
      <4>2. Current = {x}
        BY <4>1 DEF Current
      <4> HIDE DEF x
      <4>3. /\ IsFiniteSet(Torn \cup {x})
            /\ Cardinality(Torn \cup {x}) = IF x \in Torn THEN Cardinality(Torn) ELSE Cardinality(Torn) + 1
        BY <2>4, FS_AddElement
      <4>4. IsFiniteSet(all) /\ Cardinality(all) <= Cardinality(Torn \cup {x})
        BY <2>3, <4>2, <4>3, FS_Subset
      <4>5. Cardinality(all) \in Nat /\ Cardinality(Writing) = 1
        BY <4>1, <4>4, FS_CardinalityType, FS_Singleton
      <4> QED BY <2>4, <4>3, <4>4, <4>5
    <3> QED BY <3>1, <3>2
  <2> QED BY <2>1, <2>2, <2>5 DEF FileLinesWhole, WholeLines, all
<1> QED BY <1>1, <1>2, TornInit, TextInvariance, PTL DEF Spec

-------------------------------------------------------------------------------
(* The console.                                                            *)

(* The last piece of op.                                                   *)
Latest(op, i) ==
    i \in 1 .. Len(cerr) /\ cerr[i].op = op /\ \A k \in i + 1 .. Len(cerr) : cerr[k].op # op
(* A call in the middle of its line.                                       *)
Shows(t) == call[t] # None /\ call[t].op # "Write" /\ call[t].pc = "end"

(* A line that is begun is the last one of its function, and if none is    *)
(* begun the last one has its end.                                         *)
ShowInv ==
    /\ ConsoleLinesWhole
    /\ \A t \in Threads : Shows(t) =>
          \E i \in 1 .. Len(cerr) : Latest(call[t].op, i) /\ cerr[i] = Piece(t, "head")
    /\ \A op \in {"Print", "SetLogFile"} : \A i \in 1 .. Len(cerr) :
          Latest(op, i) /\ (\A t \in Threads : Shows(t) => call[t].op # op)
              => cerr[i].part = "end"

(* Only << into std::cerr moves a call to or from the middle of a line.    *)
LEMMA NotShown ==
    ASSUME TypeInv, OwnInv, [Next]_vars, ~(Crash \/ Exit),
           \A t \in Threads : ~Show(t, "head", "end") /\ ~Show(t, "end", "unlock")
    PROVE  /\ cerr' = cerr
           /\ \A u \in Threads : /\ Shows(u)' <=> Shows(u)
                                 /\ Shows(u) => call'[u] = call[u]
<1>1. CASE UNCHANGED vars
  BY <1>1 DEF vars, Shows
<1>2. ASSUME NEW t \in Threads, cerr' = cerr, ~Shows(t), ~Shows(t)',
             \A u \in Threads \ {t} : call'[u] = call[u]
      PROVE  /\ cerr' = cerr
             /\ \A u \in Threads : /\ Shows(u)' <=> Shows(u)
                                   /\ Shows(u) => call'[u] = call[u]
  BY <1>2 DEF Shows
<1>3. ASSUME NEW t \in Threads, CallLog(t) \/ CallSet(t)
      PROVE  /\ cerr' = cerr /\ ~Shows(t) /\ ~Shows(t)'
             /\ \A u \in Threads \ {t} : call'[u] = call[u]
  <2>1. PICK op, what : CallWith(t, op, what)
    BY <1>3 DEF CallLog, CallSet
  <2>2. call[t] = None /\ call'[t].pc = "lock" /\ \A u \in Threads \ {t} : call'[u] = call[u]
    BY <2>1 DEF CallWith, TypeInv
  <2> QED BY <2>1, <2>2 DEF CallWith, Shows
<1>4. ASSUME NEW t \in Threads, call[t] # None, call[t].pc # "end" \/ call[t].op = "Write",
             NEW pc \in {"lock", "head", "end", "flush", "close", "open", "unlock"},
             Continue(t, pc), pc # "end" \/ call[t].op = "Write"
      PROVE  /\ ~Shows(t) /\ ~Shows(t)'
             /\ \A u \in Threads \ {t} : call'[u] = call[u]
  BY <1>4, Goes DEF Shows
<1>5. ASSUME NEW t \in Threads, Lock(t)
      PROVE  /\ cerr' = cerr /\ ~Shows(t) /\ ~Shows(t)'
             /\ \A u \in Threads \ {t} : call'[u] = call[u]
  <2>1. /\ call[t] # None /\ call[t] \in Calls /\ call[t].pc = "lock"
        /\ cerr' = cerr /\ Continue(t, FirstStep(call[t].op))
    BY <1>5, InCall DEF Lock, Doing
  <2>2. FirstStep(call[t].op) \in {"head", "unlock", "close"}
    BY <2>1, Zenon DEF Calls, Ops, FirstStep
  <2> QED BY <1>4, <2>1, <2>2
<1>6. ASSUME NEW t \in Threads, NEW part, NEW pc \in {"end", "flush"}, Put(t, part, pc)
      PROVE  /\ cerr' = cerr /\ ~Shows(t) /\ ~Shows(t)'
             /\ \A u \in Threads \ {t} : call'[u] = call[u]
  BY <1>4, <1>6 DEF Put, Doing
<1>7. ASSUME NEW t \in Threads, Flush(t) \/ Close(t) \/ Open(t)
      PROVE  /\ cerr' = cerr /\ ~Shows(t) /\ ~Shows(t)'
             /\ \A u \in Threads \ {t} : call'[u] = call[u]
  <2>1. PICK pc \in {"head", "open", "unlock"} : Continue(t, pc)
    BY <1>7 DEF Flush, Close, Open
  <2>2. call[t] # None /\ call[t].pc # "end" /\ cerr' = cerr
    BY <1>7 DEF Flush, Close, Open, Doing
  <2> QED BY <1>4, <2>1, <2>2
<1>8. ASSUME NEW t \in Threads, Unlock(t)
      PROVE  /\ cerr' = cerr /\ ~Shows(t) /\ ~Shows(t)'
             /\ \A u \in Threads \ {t} : call'[u] = call[u]
  BY <1>8 DEF Unlock, Doing, Shows, TypeInv
<1>9. ASSUME NEW t \in Threads, Proceed(t)
      PROVE  /\ cerr' = cerr /\ ~Shows(t) /\ ~Shows(t)'
             /\ \A u \in Threads \ {t} : call'[u] = call[u]
  BY <1>6, <1>7, <1>8, <1>9 DEF Proceed
<1> QED BY <1>1, <1>2, <1>3, <1>5, <1>9 DEF Next, Elsewhere

(* A piece is shown: who shows it, and that others do not meanwhile.       *)
LEMMA ShowShape ==
    ASSUME TypeInv, OwnInv, NEW t \in Threads,
           NEW part \in {"head", "end"}, NEW pc \in {"end", "unlock"}, Show(t, part, pc)
    PROVE  /\ call[t].op \in {"Print", "SetLogFile"}
           /\ Piece(t, part) \in Pieces /\ Piece(t, part).op = call[t].op
           /\ Piece(t, part).part = part
           /\ cerr \in Seq(Pieces) /\ Len(cerr) \in Nat
           /\ Len(cerr') = Len(cerr) + 1 /\ cerr'[Len(cerr) + 1] = Piece(t, part)
           /\ \A i \in 1 .. Len(cerr) : cerr'[i] = cerr[i]
           /\ call'[t] # None /\ call'[t].op = call[t].op /\ call'[t].pc = pc
           /\ Piece(t, "head")' = Piece(t, "head")
           /\ \A u \in Threads \ {t} : /\ call'[u] = call[u]
                                       /\ Shows(u)' <=> Shows(u)
                                       /\ Shows(u) => call[u].op # call[t].op
<1>1. call[t] # None /\ call[t] \in Calls /\ call[t].op # "Write" /\ call[t].pc = part
  BY InCall DEF Show, Doing
<1>2. /\ call'[t] # None
      /\ call'[t].op = call[t].op /\ call'[t].what = call[t].what /\ call'[t].pc = pc
      /\ \A u \in Threads \ {t} : call'[u] = call[u]
  BY <1>1, Goes DEF Show
<1>3. ASSUME NEW u \in Threads \ {t}, Shows(u) PROVE call[u].op # call[t].op
  BY <1>1, <1>3, Exclusion DEF Shows
<1>4. Piece(t, part) \in Pieces
  BY <1>1, PieceType
<1>5. cerr \in Seq(Pieces) /\ cerr' = Append(cerr, Piece(t, part))
  BY DEF TypeInv, Show
<1>6. /\ Len(cerr) \in Nat /\ Len(cerr') = Len(cerr) + 1
      /\ cerr'[Len(cerr) + 1] = Piece(t, part)
      /\ \A i \in 1 .. Len(cerr) : cerr'[i] = cerr[i]
  BY <1>4, <1>5, AppendProperties
<1> QED BY <1>1, <1>2, <1>3, <1>4, <1>5, <1>6 DEF Piece, Calls, Ops, Shows

(* Then it follows the last piece of its function, and is the last one     *)
(* now.                                                                    *)
LEMMA Appended ==
    ASSUME cerr \in Seq(Pieces), cerr' \in Seq(Pieces),
           NEW n \in Nat, n = Len(cerr) + 1, Len(cerr') = n,
           \A i \in 1 .. Len(cerr) : cerr'[i] = cerr[i], NEW op
    PROVE  LET o == cerr'[n].op
           IN  /\ \A i, j \in 1 .. Len(cerr) : Follows(op, i, j)' <=> Follows(op, i, j)
               /\ \A i \in 1 .. n : Follows(op, i, n)' <=> (op = o /\ Latest(op, i))
               /\ \A i \in 1 .. Len(cerr) : Latest(op, i)' <=> (op # o /\ Latest(op, i))
               /\ Latest(op, n)' <=> op = o
               /\ n \in 1 .. n /\ \A j \in 1 .. n : ~Follows(op, n, j)'
<1> DEFINE o == cerr'[n].op
<1>1. /\ Len(cerr) \in Nat /\ DOMAIN cerr = 1 .. Len(cerr) /\ DOMAIN cerr' = 1 .. n
      /\ n \in 1 .. n
  OBVIOUS
<1>2. \A i, j \in 1 .. Len(cerr) : Follows(op, i, j)' <=> Follows(op, i, j)
  <2> SUFFICES ASSUME NEW i \in 1 .. Len(cerr), NEW j \in 1 .. Len(cerr)
               PROVE  Follows(op, i, j)' <=> Follows(op, i, j)
    OBVIOUS
  <2>1. \A k \in i + 1 .. j - 1 : k \in 1 .. Len(cerr)
    BY <1>1
  <2> QED BY <1>1, <2>1 DEF Follows
<1>3. \A i \in 1 .. n : Follows(op, i, n)' <=> (op = o /\ Latest(op, i))
  <2> SUFFICES ASSUME NEW i \in 1 .. n
               PROVE  Follows(op, i, n)' <=> (op = o /\ Latest(op, i))
    OBVIOUS
  <2>1. n - 1 = Len(cerr) /\ (i < n <=> i \in 1 .. Len(cerr))
    BY <1>1
  <2>2. \A k \in i + 1 .. Len(cerr) : k \in 1 .. Len(cerr)
    BY <1>1
  <2> QED BY <1>1, <2>1, <2>2 DEF Follows, Latest
<1>4. \A i \in 1 .. Len(cerr) : Latest(op, i)' <=> (op # o /\ Latest(op, i))
  <2> SUFFICES ASSUME NEW i \in 1 .. Len(cerr)
               PROVE  Latest(op, i)' <=> (op # o /\ Latest(op, i))
    OBVIOUS
  <2>1. i + 1 .. n = (i + 1 .. Len(cerr)) \cup {n} /\ i \in 1 .. n
    BY <1>1
  <2>2. \A k \in i + 1 .. Len(cerr) : k \in 1 .. Len(cerr)
    BY <1>1
  <2> QED BY <1>1, <2>1, <2>2 DEF Latest
<1>5. Latest(op, n)' <=> op = o
  <2>1. n + 1 .. n = {}
    BY <1>1
  <2> QED BY <1>1, <2>1 DEF Latest
<1>6. \A j \in 1 .. n : ~Follows(op, n, j)'
  BY <1>1 DEF Follows
<1> QED BY <1>1, <1>2, <1>3, <1>4, <1>5, <1>6

(* There is one last piece of a function.                                  *)
LEMMA OneLast ==
    ASSUME TypeInv, NEW op, NEW i \in 1 .. Len(cerr), NEW j \in 1 .. Len(cerr),
           Latest(op, i), Latest(op, j)
    PROVE  i = j
<1>1. Len(cerr) \in Nat
  BY DEF TypeInv
<1>2. i < j => j \in i + 1 .. Len(cerr)
  BY <1>1
<1>3. j < i => i \in j + 1 .. Len(cerr)
  BY <1>1
<1> QED BY <1>1, <1>2, <1>3 DEF Latest

(* A head comes after an end, or is the first piece; an end comes after    *)
(* its head.                                                               *)
LEMMA ShowNext ==
    ASSUME TypeInv, OwnInv, ShowInv, NEW t \in Threads,
           NEW part \in {"head", "end"}, NEW pc \in {"end", "unlock"},
           part = "head" <=> pc = "end", Show(t, part, pc)
    PROVE  ShowInv'
<1>1. /\ call[t].op \in {"Print", "SetLogFile"}
      /\ Piece(t, part) \in Pieces /\ Piece(t, part).op = call[t].op
      /\ Piece(t, part).part = part
      /\ cerr \in Seq(Pieces) /\ Len(cerr) \in Nat
      /\ Len(cerr') = Len(cerr) + 1 /\ cerr'[Len(cerr) + 1] = Piece(t, part)
      /\ \A i \in 1 .. Len(cerr) : cerr'[i] = cerr[i]
      /\ call'[t] # None /\ call'[t].op = call[t].op /\ call'[t].pc = pc
      /\ Piece(t, "head")' = Piece(t, "head")
      /\ \A u \in Threads \ {t} : /\ call'[u] = call[u]
                                  /\ Shows(u)' <=> Shows(u)
                                  /\ Shows(u) => call[u].op # call[t].op
  BY ShowShape
<1>2. TypeInv' /\ cerr' \in Seq(Pieces)
  BY ShowKeeps DEF TypeInv
<1>3. PICK n \in Nat : n = Len(cerr) + 1
  BY <1>1
<1>4. PICK o : o = call[t].op
  OBVIOUS
<1>5. \A op :
         /\ \A i, j \in 1 .. Len(cerr) : Follows(op, i, j)' <=> Follows(op, i, j)
         /\ \A i \in 1 .. n : Follows(op, i, n)' <=> (op = o /\ Latest(op, i))
         /\ \A i \in 1 .. Len(cerr) : Latest(op, i)' <=> (op # o /\ Latest(op, i))
         /\ Latest(op, n)' <=> op = o
         /\ n \in 1 .. n /\ \A j \in 1 .. n : ~Follows(op, n, j)'
  BY <1>1, <1>2, <1>3, <1>4, Appended
<1>6. /\ DOMAIN cerr = 1 .. Len(cerr) /\ DOMAIN cerr' = 1 .. n /\ Len(cerr') = n
      /\ \A i \in 1 .. n : i \in 1 .. Len(cerr) \/ i = n
      /\ \A i \in 1 .. Len(cerr) : i \in 1 .. n
      /\ cerr'[n] = Piece(t, part)
  BY <1>1, <1>2, <1>3
<1>7. call[t] # None /\ call[t].pc = part /\ call[t].op # "Write"
  BY DEF Show, Doing
<1>8. \A i \in 1 .. Len(cerr) : Latest(o, i) =>
         IF part = "head" THEN cerr[i].part = "end" ELSE cerr[i] = Piece(t, "head")
  <2>1. CASE part = "head"
    <3>1. \A u \in Threads : Shows(u) => call[u].op # o
      BY <1>1, <1>4, <1>7, <2>1 DEF Shows
    <3> QED BY <1>1, <1>4, <2>1, <3>1 DEF ShowInv
  <2>2. CASE part = "end"
    <3>1. PICK i \in 1 .. Len(cerr) : Latest(o, i) /\ cerr[i] = Piece(t, "head")
      BY <1>4, <1>7, <2>2 DEF ShowInv, Shows
    <3> QED BY <2>2, <3>1, OneLast
  <2> QED BY <2>1, <2>2
<1>9. part = "end" => \E i \in 1 .. Len(cerr) : Latest(o, i)
  BY <1>4, <1>7 DEF ShowInv, Shows
<1>10. ConsoleLinesWhole'
  <2> SUFFICES ASSUME NEW op \in {"Print", "SetLogFile"}
      PROVE  /\ \A i, j \in 1 .. n : Follows(op, i, j)' =>
                   IF cerr'[i].part = "head" THEN cerr'[j] = [cerr'[i] EXCEPT !.part = "end"]
                   ELSE cerr'[j].part = "head"
             /\ \A j \in 1 .. n : cerr'[j].op = op /\ cerr'[j].part = "end" =>
                   \E i \in 1 .. n : Follows(op, i, j)'
    BY <1>6 DEF ConsoleLinesWhole
  <2>1. ASSUME NEW i \in 1 .. n, NEW j \in 1 .. n, Follows(op, i, j)'
        PROVE  IF cerr'[i].part = "head" THEN cerr'[j] = [cerr'[i] EXCEPT !.part = "end"]
               ELSE cerr'[j].part = "head"
    <3>1. i \in 1 .. Len(cerr) /\ cerr'[i] = cerr[i]
      BY <1>1, <1>5, <1>6, <2>1
    <3>2. CASE j \in 1 .. Len(cerr)
      <4>1. Follows(op, i, j) /\ cerr'[j] = cerr[j]
        BY <1>1, <1>5, <2>1, <3>1, <3>2
      <4> QED BY <1>6, <3>1, <3>2, <4>1 DEF ShowInv, ConsoleLinesWhole
    <3>3. CASE j = n
      <4>1. op = o /\ Latest(o, i) /\ cerr'[j] = Piece(t, part)
        BY <1>5, <1>6, <2>1, <3>3
      <4>2. IF part = "head" THEN cerr[i].part = "end" ELSE cerr[i] = Piece(t, "head")
        BY <1>8, <3>1, <4>1
      <4>3. Piece(t, "end") = [Piece(t, "head") EXCEPT !.part = "end"] /\ Piece(t, "head").part = "head"
        BY DEF Piece
      <4>4. CASE part = "head"
        BY <1>1, <3>1, <4>1, <4>2, <4>4
      <4>5. CASE part = "end"
        BY <3>1, <4>1, <4>2, <4>3, <4>5
      <4> QED BY <4>4, <4>5
    <3> QED BY <1>6, <3>2, <3>3
  <2>2. ASSUME NEW j \in 1 .. n, cerr'[j].op = op, cerr'[j].part = "end"
        PROVE  \E i \in 1 .. n : Follows(op, i, j)'
    <3>1. CASE j \in 1 .. Len(cerr)
      <4>1. PICK i \in 1 .. Len(cerr) : Follows(op, i, j)
        BY <1>1, <1>6, <2>2, <3>1 DEF ShowInv, ConsoleLinesWhole
      <4> QED BY <1>5, <1>6, <3>1, <4>1
    <3>2. CASE j = n
      <4>1. part = "end" /\ op = o
        BY <1>1, <1>4, <1>6, <2>2, <3>2
      <4> QED BY <1>5, <1>6, <1>9, <3>2, <4>1
    <3> QED BY <1>6, <3>1, <3>2
  <2> QED BY <2>1, <2>2
<1>11. ASSUME NEW u \in Threads, Shows(u)'
       PROVE  \E i \in 1 .. n : Latest(call[u].op, i)' /\ cerr'[i] = Piece(u, "head")'
  <2>1. CASE u = t
    <3>1. part = "head"
      BY <1>1, <1>11, <2>1 DEF Shows
    <3> QED BY <1>1, <1>4, <1>5, <1>6, <2>1, <3>1
  <2>2. CASE u # t
    <3>1. Shows(u) /\ call'[u] = call[u] /\ call[u].op # o
      BY <1>1, <1>4, <1>11, <2>2
    <3>2. PICK i \in 1 .. Len(cerr) : Latest(call[u].op, i) /\ cerr[i] = Piece(u, "head")
      BY <3>1 DEF ShowInv
    <3>3. Piece(u, "head")' = Piece(u, "head")
      BY <3>1 DEF Piece
    <3>4. PICK op : op = call[u].op
      OBVIOUS
    <3>5. Latest(op, i)' /\ call'[u].op = op
      BY <1>5, <3>1, <3>2, <3>4
    <3> QED BY <1>1, <1>6, <3>2, <3>3, <3>5 DEF Latest
  <2> QED BY <2>1, <2>2
<1>12. ASSUME NEW op \in {"Print", "SetLogFile"}, NEW i \in 1 .. n, Latest(op, i)',
              \A u \in Threads : Shows(u)' => call'[u].op # op
       PROVE  cerr'[i].part = "end"
  <2>1. CASE op = o
    <3>1. i = n /\ part = "end"
      BY <1>1, <1>4, <1>5, <1>6, <1>12, <2>1 DEF Shows
    <3> QED BY <1>1, <1>6, <3>1
  <2>2. CASE op # o
    <3>1. i \in 1 .. Len(cerr) /\ Latest(op, i) /\ cerr'[i] = cerr[i]
      BY <1>1, <1>5, <1>6, <1>12, <2>2
    <3>2. \A u \in Threads : Shows(u) => call[u].op # op
      BY <1>1, <1>4, <1>12, <2>2
    <3> QED BY <3>1, <3>2 DEF ShowInv
  <2> QED BY <2>1, <2>2
<1>13. \A u \in Threads : Shows(u)' => call'[u].op = call[u].op
  BY <1>1
<1> QED BY <1>6, <1>10, <1>11, <1>12, <1>13 DEF ShowInv

(* All other steps leave the console and the calls that have shown a head  *)
(* alone.                                                                  *)
LEMMA ShowInvNext ==
    ASSUME TypeInv, OwnInv, ShowInv, [Next]_vars
    PROVE  ShowInv'
<1>1. CASE \E t \in Threads : Show(t, "head", "end") \/ Show(t, "end", "unlock")
  BY <1>1, ShowNext
<1>2. CASE Crash \/ Exit
  <2>1. cerr' = <<>> /\ \A t \in Threads : call'[t] = None
    BY <1>2 DEF Crash, Exit, NextProcess
  <2> QED BY <2>1 DEF ShowInv, ConsoleLinesWhole, Shows
<1>3. ASSUME ~(Crash \/ Exit),
             \A t \in Threads : ~Show(t, "head", "end") /\ ~Show(t, "end", "unlock")
      PROVE  ShowInv'
  <2>1. /\ cerr' = cerr
        /\ \A u \in Threads : /\ Shows(u)' <=> Shows(u)
                              /\ Shows(u) => call'[u] = call[u]
    BY <1>3, NotShown
  <2>2. ConsoleLinesWhole'
    <3>1. \A op, i, j : Follows(op, i, j)' <=> Follows(op, i, j)
      BY <2>1 DEF Follows
    <3>2. ConsoleLinesWhole
      BY DEF ShowInv
    <3> QED BY <2>1, <3>1, <3>2 DEF ConsoleLinesWhole
  <2>3. \A op, i : Latest(op, i)' <=> Latest(op, i)
    BY <2>1 DEF Latest
  <2>4. ASSUME NEW t \in Threads, Shows(t)'
        PROVE  \E i \in 1 .. Len(cerr') : Latest(call[t].op, i)' /\ cerr'[i] = Piece(t, "head")'
    <3>1. PICK i \in 1 .. Len(cerr) : Latest(call[t].op, i) /\ cerr[i] = Piece(t, "head")
      BY <2>1, <2>4 DEF ShowInv
    <3>2. call'[t] = call[t] /\ Piece(t, "head")' = Piece(t, "head")
      BY <2>1, <2>4 DEF Piece
    <3> QED BY <2>1, <3>1, <3>2 DEF Latest
  <2>5. \A t \in Threads : Shows(t) => call'[t].op = call[t].op
    BY <2>1
  <2> QED BY <2>1, <2>2, <2>3, <2>4, <2>5 DEF ShowInv
<1> QED BY <1>1, <1>2, <1>3

(* ConsoleLinesWhole: a complaint of SetLogFile may stand in a line of     *)
(* Print, but no other line is mixed with another one on std::cerr.        *)
THEOREM ConsoleIsWhole == Spec => []ConsoleLinesWhole
<1>1. Init => ShowInv
  BY DEF Init, ShowInv, ConsoleLinesWhole, Shows
<1>2. TypeInv /\ OwnInv /\ ShowInv /\ [Next]_vars => ShowInv'
  BY ShowInvNext
<1>3. ShowInv => ConsoleLinesWhole
  BY DEF ShowInv
<1> QED BY <1>1, <1>2, <1>3, TextInvariance, PTL DEF Spec

-------------------------------------------------------------------------------
(* The lines of a file, by their newlines.                                 *)

(* Newline(f, n) is chosen from those that have n - 1 others before them.  *)
Ranked(S, n) == {j \in S : Cardinality(S \cap 1 .. j) = n}

(* There is an n-th newline for every n up to their number.                *)
RankInv == \A f \in Files : \A n \in 1 .. Cardinality(Newlines(f)) : Ranked(Newlines(f), n) # {}

(* Another newline after the last one leaves the others where they were.   *)
LEMMA Ranks ==
    ASSUME NEW S, IsFiniteSet(S), NEW x \in Nat \ {0}, \A j \in S : j \in Nat \ {0} /\ j < x
    PROVE  /\ Cardinality(S) \in Nat /\ Cardinality(S \cup {x}) = Cardinality(S) + 1
           /\ \A n \in 1 .. Cardinality(S) : Ranked(S \cup {x}, n) = Ranked(S, n)
           /\ Ranked(S \cup {x}, Cardinality(S) + 1) = {x}
<1>1. x \notin S
  OBVIOUS
<1>2. /\ Cardinality(S) \in Nat /\ IsFiniteSet(S \cup {x})
      /\ Cardinality(S \cup {x}) = Cardinality(S) + 1
  BY <1>1, FS_CardinalityType, FS_AddElement
<1>3. (S \cup {x}) \cap 1 .. x = S \cup {x}
  OBVIOUS
<1>4. ASSUME NEW j \in S
      PROVE  /\ (S \cup {x}) \cap 1 .. j = S \cap 1 .. j
             /\ Cardinality(S \cap 1 .. j) \in Nat /\ Cardinality(S \cap 1 .. j) <= Cardinality(S)
  <2>1. x \notin 1 .. j
    BY <1>4
  <2>2. S \cap 1 .. j \subseteq S
    OBVIOUS
  <2>3. IsFiniteSet(S \cap 1 .. j) /\ Cardinality(S \cap 1 .. j) <= Cardinality(S)
    BY <2>2, FS_Subset
  <2> QED BY <2>1, <2>3, FS_CardinalityType
<1>5. \A n \in 1 .. Cardinality(S) : Ranked(S \cup {x}, n) = Ranked(S, n)
  <2> SUFFICES ASSUME NEW n \in 1 .. Cardinality(S), NEW j
               PROVE  j \in Ranked(S \cup {x}, n) <=> j \in Ranked(S, n)
    OBVIOUS
  <2>1. CASE j = x
    <3>1. Cardinality((S \cup {x}) \cap 1 .. j) = Cardinality(S) + 1
      BY <1>2, <1>3, <2>1
    <3>2. Cardinality(S) + 1 # n
      BY <1>2
    <3> QED BY <1>1, <2>1, <3>1, <3>2 DEF Ranked
  <2>2. CASE j # x
    BY <1>4, <2>2 DEF Ranked
  <2> QED BY <2>1, <2>2
<1>6. Ranked(S \cup {x}, Cardinality(S) + 1) = {x}
  <2>1. ASSUME NEW j \in S PROVE j \notin Ranked(S \cup {x}, Cardinality(S) + 1)
    <3>1. Cardinality((S \cup {x}) \cap 1 .. j) = Cardinality(S \cap 1 .. j)
      BY <1>4
    <3>2. Cardinality(S \cap 1 .. j) # Cardinality(S) + 1
      BY <1>2, <1>4
    <3> QED BY <3>1, <3>2 DEF Ranked
  <2>2. x \in Ranked(S \cup {x}, Cardinality(S) + 1)
    BY <1>2, <1>3 DEF Ranked
  <2> QED BY <2>1, <2>2 DEF Ranked
<1> QED BY <1>2, <1>5, <1>6

(* A function on the first n numbers, which is a sequence.                 *)
IsFcn(s, n) == s = [i \in 1 .. n |-> s[i]]

(* A longer function of the same values is one value more.                 *)
LEMMA FcnAppend ==
    ASSUME NEW c \in Nat, NEW l, IsFcn(l, c), NEW r, IsFcn(r, c + 1),
           \A n \in 1 .. c : r[n] = l[n]
    PROVE  r = Append(l, r[c + 1])
<1> DEFINE T == {r[n] : n \in 1 .. c + 1}
<1>1. c + 1 \in 1 .. c + 1 /\ \A n \in 1 .. c : n \in 1 .. c + 1
  OBVIOUS
<1>2. l \in [1 .. c -> T] /\ r \in [1 .. c + 1 -> T] /\ r[c + 1] \in T
  BY <1>1 DEF IsFcn
<1> HIDE DEF T
<1>3. l \in Seq(T) /\ Len(l) = c /\ r \in Seq(T) /\ Len(r) = c + 1
  BY <1>2
<1>4. /\ Append(l, r[c + 1]) \in Seq(T) /\ Len(Append(l, r[c + 1])) = c + 1
      /\ \A i \in 1 .. c : Append(l, r[c + 1])[i] = l[i]
      /\ Append(l, r[c + 1])[c + 1] = r[c + 1]
  BY <1>2, <1>3, AppendProperties
<1>5. \A i \in 1 .. c + 1 : r[i] = Append(l, r[c + 1])[i]
  BY <1>4
<1> QED BY <1>3, <1>4, <1>5, SeqEqual

(* A file has finitely many newlines.                                      *)
LEMMA NewlinesFinite ==
    ASSUME TypeInv, NEW f \in Files
    PROVE  /\ IsFiniteSet(Newlines(f)) /\ Cardinality(Newlines(f)) \in Nat
           /\ Newlines(f) \subseteq 1 .. Len(disk[f]) /\ Len(disk[f]) \in Nat
<1>1. Len(disk[f]) \in Nat /\ DOMAIN disk[f] = 1 .. Len(disk[f])
  BY DEF TypeInv
<1>2. Newlines(f) \subseteq 1 .. Len(disk[f])
  BY <1>1 DEF Newlines
<1>3. \A n \in Nat : IsFiniteSet(1 .. n)
  BY FS_Interval
<1>4. IsFiniteSet(1 .. Len(disk[f]))
  BY <1>1, <1>3
<1> QED BY <1>1, <1>2, <1>4, FS_Subset, FS_CardinalityType

(* The n-th newline is one.                                                *)
LEMMA NewlineIs ==
    ASSUME RankInv, NEW f \in Files, NEW n \in 1 .. Cardinality(Newlines(f))
    PROVE  Newline(f, n) \in Newlines(f)
<1>1. Ranked(Newlines(f), n) # {}
  BY DEF RankInv
<1> QED BY <1>1 DEF Ranked, Newline

(* No newline comes, or one does.                                          *)
LEMMA LinesStay ==
    ASSUME TypeInv, RankInv, NEW f \in Files, Newlines(f)' = Newlines(f),
           \A i \in 1 .. Len(disk[f]) : disk'[f][i] = disk[f][i]
    PROVE  /\ LinesOf(f)' = LinesOf(f)
           /\ \A n \in 1 .. Cardinality(Newlines(f)') : Ranked(Newlines(f)', n) # {}
<1>1. \A n : Newline(f, n)' = Newline(f, n)
  BY DEF Newline
<1>2. \A n \in 1 .. Cardinality(Newlines(f)) : disk'[f][Newline(f, n)] = disk[f][Newline(f, n)]
  BY NewlineIs, NewlinesFinite
<1>3. LinesOf(f)' = LinesOf(f)
  BY <1>1, <1>2 DEF LinesOf
<1> QED BY <1>3 DEF RankInv

(* A new newline makes a new line at the end.                              *)
LEMMA LinesGrow ==
    ASSUME TypeInv, RankInv, NEW f \in Files,
           NEW x \in Nat, Len(disk[f]) < x, Newlines(f)' = Newlines(f) \cup {x},
           \A i \in 1 .. Len(disk[f]) : disk'[f][i] = disk[f][i]
    PROVE  /\ LinesOf(f)' = Append(LinesOf(f), disk'[f][x].what)
           /\ \A n \in 1 .. Cardinality(Newlines(f)') : Ranked(Newlines(f)', n) # {}
<1>1. PICK S : S = Newlines(f)
  OBVIOUS
<1>2. PICK c \in Nat : c = Cardinality(S) /\ IsFiniteSet(S)
  BY <1>1, NewlinesFinite
<1>3. S \subseteq 1 .. Len(disk[f]) /\ Len(disk[f]) \in Nat
  BY <1>1, NewlinesFinite
<1>4. x \in Nat \ {0} /\ \A j \in S : j \in Nat \ {0} /\ j < x
  <2>1. \A j \in 1 .. Len(disk[f]) : j \in Nat \ {0} /\ j < x
    BY <1>3
  <2>2. x # 0
    BY <1>3
  <2> QED BY <1>3, <2>1, <2>2
<1>5. /\ Cardinality(S \cup {x}) = c + 1
      /\ \A n \in 1 .. c : Ranked(S \cup {x}, n) = Ranked(S, n)
      /\ Ranked(S \cup {x}, c + 1) = {x}
  BY <1>2, <1>4, Ranks
<1>6. \A n : /\ Newline(f, n) = CHOOSE i \in Ranked(S, n) : TRUE
             /\ Newline(f, n)' = CHOOSE i \in Ranked(S \cup {x}, n) : TRUE
  BY <1>1 DEF Newline, Ranked
<1>7. ASSUME NEW n \in 1 .. c PROVE Newline(f, n)' = Newline(f, n)
  <2>1. Ranked(S \cup {x}, n) = Ranked(S, n)
    BY <1>5
  <2>2. /\ Newline(f, n) = CHOOSE i \in Ranked(S, n) : TRUE
        /\ Newline(f, n)' = CHOOSE i \in Ranked(S \cup {x}, n) : TRUE
    BY <1>6
  <2> QED BY <2>1, <2>2
<1>8. Newline(f, c + 1)' = x
  <2>1. (CHOOSE i \in {x} : TRUE) = x
    OBVIOUS
  <2> QED BY <1>5, <1>6, <2>1
<1>9. \A n \in 1 .. c : disk'[f][Newline(f, n)'].what = disk[f][Newline(f, n)].what
  BY <1>1, <1>2, <1>3, <1>7, NewlineIs
<1> DEFINE l == LinesOf(f)
           r == LinesOf(f)'
<1>10. /\ l = [n \in 1 .. c |-> disk[f][Newline(f, n)].what]
       /\ r = [n \in 1 .. c + 1 |-> disk'[f][Newline(f, n)'].what]
  BY <1>1, <1>2, <1>5 DEF LinesOf
<1> HIDE DEF l, r
<1>11. IsFcn(l, c) /\ IsFcn(r, c + 1) /\ \A n \in 1 .. c : r[n] = l[n]
  BY <1>9, <1>10 DEF IsFcn
<1>12. r[c + 1] = disk'[f][x].what
  BY <1>8, <1>10
<1>13. r = Append(l, r[c + 1])
  BY <1>11, FcnAppend
<1>14. \A n \in 1 .. c + 1 : Ranked(S \cup {x}, n) # {}
  <2>1. \A n \in 1 .. c : Ranked(S, n) # {}
    BY <1>1, <1>2 DEF RankInv
  <2> SUFFICES ASSUME NEW n \in 1 .. c + 1 PROVE Ranked(S \cup {x}, n) # {}
    OBVIOUS
  <2>2. n \in 1 .. c \/ n = c + 1
    OBVIOUS
  <2>3. CASE n \in 1 .. c
    BY <1>5, <2>1, <2>3
  <2>4. CASE n = c + 1
    BY <1>5, <2>4
  <2> QED BY <2>2, <2>3, <2>4
<1> QED BY <1>1, <1>5, <1>12, <1>13, <1>14 DEF l, r

-------------------------------------------------------------------------------
(* Messages.                                                               *)

(* A newline of message m at place i of the text of f.                     *)
EndOf(f, i, m) ==
    i \in 1 .. Len(Text(f)) /\ Text(f)[i].part = "end" /\ Text(f)[i].what = m
(* A call of Write before its newline.                                     *)
Early(t) == call[t] # None /\ call[t].op = "Write" /\ call[t].pc \in {"lock", "head", "end"}
(* A call of Print or Write with message m.                                *)
Has(t, m) == call[t] # None /\ call[t].op # "SetLogFile" /\ call[t].what = m

(* Every message is with one call at most, and has one newline at most.    *)
FreshInv ==
    /\ \A m \in unsent : /\ \A t \in Threads : ~Has(t, m)
                         /\ \A f \in Files, i \in Nat : ~EndOf(f, i, m)
    /\ \A t, u \in Threads : Has(t, call[t].what) /\ Has(u, call[t].what) => t = u
    /\ \A t \in Threads : Early(t) => \A f \in Files, i \in Nat : ~EndOf(f, i, call[t].what)
    /\ \A f, g \in Files, i, j \in Nat, m \in Messages \cup Files :
          EndOf(f, i, m) /\ EndOf(g, j, m) => f = g /\ i = j

(* A call goes on, or starts with a message that was unsent.               *)
LEMMA CallsGo ==
    ASSUME TypeInv, OwnInv, [Next]_vars
    PROVE  /\ unsent' \subseteq unsent
           /\ \/ \A u \in Threads : call'[u] # None =>
                    /\ call[u] # None
                    /\ call'[u].op = call[u].op /\ call'[u].what = call[u].what
                    /\ Early(u)' => Early(u)
              \/ \E t \in Threads :
                    /\ \A u \in Threads \ {t} : call'[u] = call[u]
                    /\ call'[t].op # "SetLogFile" => call'[t].what \in unsent \ unsent'
<1>1. CASE UNCHANGED vars
  BY <1>1 DEF vars, Early
<1>2. ASSUME NEW t \in Threads, CallLog(t)
      PROVE  /\ unsent' \subseteq unsent
             /\ \A u \in Threads \ {t} : call'[u] = call[u]
             /\ call'[t].what \in unsent \ unsent'
  <2>1. PICK m, op : m \in unsent /\ unsent' = unsent \ {m} /\ CallWith(t, op, m)
    BY <1>2 DEF CallLog
  <2>2. call'[t].what = m /\ \A u \in Threads \ {t} : call'[u] = call[u]
    BY <2>1 DEF CallWith, TypeInv
  <2> QED BY <2>1, <2>2
<1>3. ASSUME NEW t \in Threads, CallSet(t)
      PROVE  /\ unsent' = unsent
             /\ \A u \in Threads \ {t} : call'[u] = call[u]
             /\ call'[t].op = "SetLogFile"
  BY <1>3 DEF CallSet, CallWith, TypeInv
<1>4. ASSUME NEW t \in Threads, call[t] # None, unsent' = unsent,
             NEW pc \in {"lock", "head", "end", "flush", "close", "open", "unlock"},
             Continue(t, pc), pc \in {"head", "end"} => call[t].pc \in {"lock", "head", "open"},
             pc # "lock", call[t].pc = "open" => call[t].op = "SetLogFile"
      PROVE  /\ unsent' \subseteq unsent
             /\ \A u \in Threads : call'[u] # None =>
                   /\ call[u] # None
                   /\ call'[u].op = call[u].op /\ call'[u].what = call[u].what
                   /\ Early(u)' => Early(u)
  <2>1. /\ call'[t] # None
        /\ call'[t].op = call[t].op /\ call'[t].what = call[t].what /\ call'[t].pc = pc
        /\ \A u \in Threads \ {t} : call'[u] = call[u]
    BY <1>4, Goes
  <2>2. Early(t)' => Early(t)
    BY <1>4, <2>1 DEF Early
  <2>3. \A u \in Threads \ {t} : Early(u)' => Early(u)
    BY <2>1 DEF Early
  <2> QED BY <1>4, <2>1, <2>2, <2>3
<1>5. ASSUME NEW t \in Threads, Lock(t)
      PROVE  /\ unsent' \subseteq unsent
             /\ \A u \in Threads : call'[u] # None =>
                   /\ call[u] # None
                   /\ call'[u].op = call[u].op /\ call'[u].what = call[u].what
                   /\ Early(u)' => Early(u)
  <2>1. /\ call[t] # None /\ call[t] \in Calls /\ call[t].pc = "lock"
        /\ unsent' = unsent /\ Continue(t, FirstStep(call[t].op))
    BY <1>5, InCall DEF Lock, Doing
  <2>2. FirstStep(call[t].op) \in {"head", "unlock", "close"}
    BY <2>1, Zenon DEF Calls, Ops, FirstStep
  <2> QED BY <1>4, <2>1, <2>2
<1>6. ASSUME NEW t \in Threads,
             \/ Show(t, "head", "end") \/ Show(t, "end", "unlock")
             \/ Put(t, "head", "end") \/ Put(t, "end", "flush") \/ Flush(t)
             \/ Close(t) \/ Open(t)
      PROVE  /\ unsent' \subseteq unsent
             /\ \A u \in Threads : call'[u] # None =>
                   /\ call[u] # None
                   /\ call'[u].op = call[u].op /\ call'[u].what = call[u].what
                   /\ Early(u)' => Early(u)
  <2>1. call[t] # None /\ unsent' = unsent
    BY <1>6 DEF Show, Put, Flush, Close, Open, Doing
  <2>2. call[t].pc = "open" => call[t].op = "SetLogFile"
    BY <2>1 DEF OwnInv, Pcs
  <2>3. PICK pc \in {"head", "end", "flush", "open", "unlock"} :
           Continue(t, pc) /\ (pc \in {"head", "end"} => call[t].pc \in {"head", "open"})
    BY <1>6 DEF Show, Put, Flush, Close, Open, Doing
  <2> QED BY <1>4, <2>1, <2>2, <2>3
<1>7. ASSUME NEW t \in Threads, Unlock(t)
      PROVE  unsent' = unsent /\ \A u \in Threads : call'[u] # None => call'[u] = call[u]
  BY <1>7 DEF Unlock, TypeInv
<1>8. ASSUME Crash \/ Exit
      PROVE  unsent' = unsent /\ \A u \in Threads : call'[u] = None
  BY <1>8 DEF Crash, Exit, NextProcess
<1>9. ASSUME NEW t \in Threads, Proceed(t)
      PROVE  /\ unsent' \subseteq unsent
             /\ \A u \in Threads : call'[u] # None =>
                   /\ call[u] # None
                   /\ call'[u].op = call[u].op /\ call'[u].what = call[u].what
                   /\ Early(u)' => Early(u)
  <2>1. CASE Unlock(t)
    BY <1>7, <2>1 DEF Early
  <2> QED BY <1>6, <1>9, <2>1 DEF Proceed
<1> QED BY <1>1, <1>2, <1>3, <1>5, <1>8, <1>9 DEF Next, Elsewhere

(* A newline of a text was there, or is the one put now.                   *)
LEMMA NewEnd ==
    ASSUME TypeInv, OwnInv, LineInv, [Next]_vars, NEW f \in Files, NEW i \in Nat, NEW m,
           EndOf(f, i, m)'
    PROVE  \/ EndOf(f, i, m)
           \/ \E t \in Threads : /\ Ends(t) /\ f = file_ /\ i = Len(Text(file_)) + 1
                                 /\ m = call[t].what
<1>1. TypeInv'
  BY TypeNext
<1>2. /\ Text(f) \in Seq(Pieces) /\ Len(Text(f)) \in Nat /\ Len(disk[f]) \in Nat
      /\ Len(disk[f]) <= Len(Text(f))
      /\ \A j \in 1 .. Len(disk[f]) : Text(f)[j] = disk[f][j]
  BY TextShape
<1>3. i \in 1 .. Len(Text(f)') /\ Text(f)'[i].part = "end" /\ Text(f)'[i].what = m
  BY DEF EndOf
<1>4. CASE Text(f)' = Text(f)
  BY <1>3, <1>4 DEF EndOf
<1>5. CASE Text(f)' = disk[f]
  BY <1>2, <1>3, <1>5 DEF EndOf
<1>6. CASE Quiet
  <2>1. Text(f)' = Text(f)
    BY <1>6 DEF Quiet, Text, Held
  <2> QED BY <1>4, <2>1
<1>7. CASE Reopens
  <2>1. Text(f)' = Text(f)
    BY <1>1, <1>7, TextIsDisk, TextIsDiskNext DEF Reopens
  <2> QED BY <1>4, <2>1
<1>8. CASE Restarts
  <2>1. Text(f)' = disk[f]
    BY <1>1, <1>8, TextIsDiskNext DEF Restarts
  <2> QED BY <1>5, <2>1
<1>9. ASSUME NEW t \in Threads, Starts(t) PROVE EndOf(f, i, m)
  <2>1. CASE f = file_
    <3>1. /\ Text(f)' = Append(Text(f), Piece(t, "head")) /\ Piece(t, "head") \in Pieces
          /\ Piece(t, "head").part = "head"
      BY <1>9, <2>1, StartsShape
    <3>2. /\ Len(Text(f)') = Len(Text(f)) + 1 /\ Text(f)'[Len(Text(f)) + 1] = Piece(t, "head")
          /\ \A j \in 1 .. Len(Text(f)) : Text(f)'[j] = Text(f)[j]
      BY <1>2, <3>1, AppendProperties
    <3>3. i # Len(Text(f)) + 1
      BY <1>3, <3>1, <3>2
    <3>4. i \in 1 .. Len(Text(f))
      BY <1>2, <1>3, <3>2, <3>3
    <3> QED BY <1>3, <3>2, <3>4 DEF EndOf
  <2>2. CASE f # file_
    BY <1>4, <1>9, <2>2, StartsShape
  <2> QED BY <2>1, <2>2
<1>10. ASSUME NEW t \in Threads, Ends(t)
       PROVE  \/ EndOf(f, i, m)
              \/ f = file_ /\ i = Len(Text(file_)) + 1 /\ m = call[t].what
  <2>1. CASE f = file_
    <3>1. Text(f)' = Append(Text(f), Piece(t, "end")) /\ Piece(t, "end") \in Pieces
      BY <1>10, <2>1, EndsShape
    <3>2. /\ Len(Text(f)') = Len(Text(f)) + 1 /\ Text(f)'[Len(Text(f)) + 1] = Piece(t, "end")
          /\ \A j \in 1 .. Len(Text(f)) : Text(f)'[j] = Text(f)[j]
      BY <1>2, <3>1, AppendProperties
    <3>3. i = Len(Text(f)) + 1 => m = call[t].what
      BY <1>3, <3>2 DEF Piece
    <3>4. i \in 1 .. Len(Text(f)) \/ i = Len(Text(f)) + 1
      BY <1>2, <1>3, <3>2
    <3> QED BY <1>3, <2>1, <3>2, <3>3, <3>4 DEF EndOf
  <2>2. CASE f # file_
    BY <1>4, <1>10, <2>2, EndsShape
  <2> QED BY <2>1, <2>2
<1>11. ASSUME NEW t \in Threads, Flushes(t) PROVE EndOf(f, i, m)
  <2>1. Text(f)' = Text(f)
    BY <1>1, <1>11, TextIsDiskNext DEF Flushes
  <2> QED BY <1>3, <2>1 DEF EndOf
<1> QED BY <1>6, <1>7, <1>8, <1>9, <1>10, <1>11, Kinds DEF LineInv

(* All messages are unsent at first.                                       *)
LEMMA FreshInit == TypeInv /\ Init => FreshInv
<1> SUFFICES ASSUME TypeInv, Init PROVE FreshInv
  OBVIOUS
<1>1. \A f \in Files : Text(f) = <<>>
  BY TextIsDisk DEF Init
<1>2. \A f \in Files, i \in Nat : \A m : ~EndOf(f, i, m)
  BY <1>1 DEF EndOf
<1> QED BY <1>2 DEF Init, FreshInv, Has, Early

(* A message goes from unsent to one call, and from it to one text.        *)
LEMMA FreshNext ==
    ASSUME TypeInv, OwnInv, LineInv, FreshInv, [Next]_vars
    PROVE  FreshInv'
<1> DEFINE Continues == \A u \in Threads : call'[u] # None =>
                           /\ call[u] # None
                           /\ call'[u].op = call[u].op /\ call'[u].what = call[u].what
                           /\ Early(u)' => Early(u)
           Begins(t) == /\ \A u \in Threads \ {t} : call'[u] = call[u]
                        /\ call'[t].op # "SetLogFile" => call'[t].what \in unsent \ unsent'
<1>1. unsent' \subseteq unsent /\ (Continues \/ \E t \in Threads : Begins(t))
  BY CallsGo
<1>2. \A f \in Files, i \in Nat : \A m : EndOf(f, i, m)' =>
         \/ EndOf(f, i, m)
         \/ \E t \in Threads : /\ Ends(t) /\ f = file_ /\ i = Len(Text(file_)) + 1
                               /\ m = call[t].what
  BY NewEnd
<1>3. \A t \in Threads : Ends(t) =>
         /\ Writing = {t} /\ Has(t, call[t].what) /\ Early(t)
         /\ call'[t].pc = "flush" /\ call'[t].op = "Write"
  BY DEF Ends, Put, Doing, Has, Early
<1>4. ASSUME NEW u \in Threads, NEW m, Has(u, m)'
      PROVE  Has(u, m) \/ (Begins(u) /\ m \in unsent \ unsent')
  <2>1. CASE Continues
    BY <1>4, <2>1 DEF Has
  <2>2. ASSUME NEW t \in Threads, Begins(t) PROVE Has(u, m) \/ (Begins(u) /\ m \in unsent \ unsent')
    BY <1>4, <2>2 DEF Has
  <2> QED BY <1>1, <2>1, <2>2
<1> HIDE DEF Continues
<1>5. ASSUME NEW m \in unsent'
      PROVE  /\ \A t \in Threads : ~Has(t, m)'
             /\ \A f \in Files, i \in Nat : ~EndOf(f, i, m)'
  <2>1. m \in unsent
    BY <1>1
  <2>2. \A t \in Threads : ~Has(t, m)'
    BY <1>4, <2>1 DEF FreshInv
  <2>3. ASSUME NEW f \in Files, NEW i \in Nat PROVE ~EndOf(f, i, m)'
    BY <1>2, <1>3, <2>1 DEF FreshInv
  <2> QED BY <2>2, <2>3
<1>6. ASSUME NEW t \in Threads, NEW u \in Threads, NEW m, Has(t, m)', Has(u, m)'
      PROVE  t = u
  <2>1. CASE Has(t, m) /\ Has(u, m)
    <3>1. call[t].what = m
      BY <2>1 DEF Has
    <3> QED BY <2>1, <3>1 DEF FreshInv
  <2>2. CASE m \in unsent
    <3>1. Begins(t) /\ Begins(u) /\ ~Has(t, m) /\ ~Has(u, m)
      BY <1>4, <1>6, <2>2 DEF FreshInv
    <3> QED BY <1>6, <3>1 DEF Has
  <2> QED BY <1>4, <1>6, <2>1, <2>2
<1>7. ASSUME NEW t \in Threads, Early(t)', NEW f \in Files, NEW i \in Nat, NEW m, m = call'[t].what
      PROVE  ~EndOf(f, i, m)'
  <2>1. Has(t, m)'
    BY <1>7 DEF Early, Has
  <2>2. \A u \in Threads : Ends(u) => u # t
    BY <1>3, <1>7 DEF Early
  <2>3. CASE m \in unsent
    BY <1>2, <1>3, <2>3 DEF FreshInv
  <2>4. CASE Has(t, m) /\ m \notin unsent
    <3>1. Early(t) /\ call[t].what = m
      <4>1. CASE Continues
        BY <1>7, <2>4, <4>1 DEF Continues, Has, Early
      <4>2. ASSUME NEW u \in Threads, Begins(u) PROVE Early(t)
        <5>1. u # t
          BY <1>7, <2>4, <4>2 DEF Early
        <5> QED BY <1>7, <4>2, <5>1 DEF Early
      <4> QED BY <1>1, <2>4, <4>1, <4>2 DEF Has
    <3>2. ~EndOf(f, i, m)
      BY <3>1 DEF FreshInv
    <3>3. \A u \in Threads : Ends(u) => call[u].what # m
      BY <1>3, <2>2, <3>1, <2>4 DEF FreshInv
    <3> QED BY <1>2, <3>2, <3>3
  <2> QED BY <1>4, <2>1, <2>3, <2>4
<1>8. ASSUME NEW f \in Files, NEW g \in Files, NEW i \in Nat, NEW j \in Nat,
             NEW m \in Messages \cup Files, EndOf(f, i, m)', EndOf(g, j, m)'
      PROVE  f = g /\ i = j
  <2>1. CASE EndOf(f, i, m) /\ EndOf(g, j, m)
    BY <2>1 DEF FreshInv
  <2>2. ASSUME NEW t \in Threads, Ends(t), m = call[t].what
        PROVE  f = g /\ i = j
    <3>1. \A h \in Files, k \in Nat : ~EndOf(h, k, m)
      BY <1>3, <2>2 DEF FreshInv
    <3> QED BY <1>2, <1>8, <3>1
  <2> QED BY <1>2, <1>8, <2>1, <2>2
<1>9. ASSUME NEW t \in Threads, NEW u \in Threads,
             Has(t, call[t].what)', Has(u, call[t].what)'
      PROVE  t = u
  <2>1. PICK m : m = call'[t].what
    OBVIOUS
  <2>2. Has(t, m)' /\ Has(u, m)'
    BY <1>9, <2>1 DEF Has
  <2> QED BY <1>6, <2>2
<1>10. ASSUME NEW t \in Threads, Early(t)', NEW f \in Files, NEW i \in Nat
       PROVE  ~EndOf(f, i, call[t].what)'
  <2>1. PICK m : m = call'[t].what
    OBVIOUS
  <2>2. ~EndOf(f, i, m)'
    BY <1>7, <1>10, <2>1
  <2> QED BY <2>1, <2>2 DEF EndOf
<1> QED BY <1>5, <1>8, <1>9, <1>10 DEF FreshInv

-------------------------------------------------------------------------------
(* A file is an append-only log of lines.                                  *)

(* A newline that comes to the disk is the last of the text of the open    *)
(* file, which is the end of the line that is being written.               *)
LEMMA NewNewline ==
    ASSUME TypeInv, OwnInv, LineInv, [Next]_vars, NEW f \in Files,
           NEW i \in Newlines(f)', i \notin Newlines(f)
    PROVE  /\ f = file_ /\ file_' = file_ /\ i = Len(Text(f)') /\ Len(disk[f]) < i
           /\ \E t \in Threads :
                 /\ Ends(t) \/ Flushes(t)
                 /\ call[t].op = "Write" /\ call[t] # None /\ disk'[f][i].what = call[t].what
<1>1. TypeInv'
  BY TypeNext
<1>2. /\ disk[f] \in Seq(Pieces) /\ Text(f) \in Seq(Pieces)
      /\ Len(disk[f]) \in Nat /\ Len(Text(f)) \in Nat /\ Len(disk[f]) <= Len(Text(f))
      /\ Len(Text(f)) = Len(disk[f]) + Len(Held(f)) /\ Len(Held(f)) \in Nat
      /\ f # file_ => Text(f) = disk[f]
  <2>1. /\ disk[f] \in Seq(Pieces) /\ Text(f) \in Seq(Pieces)
        /\ Len(disk[f]) \in Nat /\ Len(Text(f)) \in Nat /\ Len(Held(f)) \in Nat
        /\ Len(Text(f)) = Len(disk[f]) + Len(Held(f))
        /\ f # file_ => Text(f) = disk[f]
    BY TextShape
  <2> QED BY <2>1
<1>3. /\ disk'[f] \in Seq(Pieces) /\ Len(disk'[f]) \in Nat /\ Len(Text(f)') \in Nat
      /\ Len(disk'[f]) <= Len(Text(f)')
      /\ \A j \in 1 .. Len(disk'[f]) : Text(f)'[j] = disk'[f][j]
  BY <1>1, TextShapeNext
<1>4. /\ Len(disk[f]) <= Len(disk'[f])
      /\ \A j \in 1 .. Len(disk[f]) : disk'[f][j] = disk[f][j]
  BY DiskGrows
<1>5. i \in 1 .. Len(disk'[f]) /\ disk'[f][i].part = "end"
  <2>1. DOMAIN disk'[f] = 1 .. Len(disk'[f])
    BY <1>3
  <2> QED BY <2>1 DEF Newlines
<1>6. Len(disk[f]) < i
  <2>1. i \in 1 .. Len(disk[f]) => i \in Newlines(f)
    <3>1. DOMAIN disk[f] = 1 .. Len(disk[f])
      BY <1>2
    <3> QED BY <1>4, <1>5, <3>1 DEF Newlines
  <2> QED BY <1>2, <1>3, <1>5, <2>1
<1>7. disk'[f] # disk[f]
  BY <1>5, <1>6, <1>2
<1>8. ASSUME NEW t \in Threads, Starts(t) PROVE FALSE
  <2>1. f = file_
    BY <1>7, <1>8, StartsShape
  <2>2. /\ disk[f] = Text(f) /\ Text(f)' = Append(Text(f), Piece(t, "head"))
        /\ Piece(t, "head") \in Pieces /\ Piece(t, "head").part = "head"
    BY <1>8, <2>1, StartsShape
  <2>3. Len(Text(f)') = Len(Text(f)) + 1 /\ Text(f)'[Len(Text(f)) + 1] = Piece(t, "head")
    BY <1>2, <2>2, AppendProperties
  <2>4. i = Len(Text(f)) + 1
    BY <1>2, <1>3, <1>5, <1>6, <2>2, <2>3
  <2> QED BY <1>3, <1>5, <2>2, <2>3, <2>4
<1>9. ASSUME NEW t \in Threads, Ends(t)
      PROVE  /\ f = file_ /\ file_' = file_ /\ i = Len(Text(f)')
             /\ call[t].op = "Write" /\ call[t] # None /\ disk'[f][i].what = call[t].what
  <2>1. f = file_
    BY <1>7, <1>9, EndsShape
  <2>2. /\ file_' = file_ /\ Text(f)' = Append(Text(f), Piece(t, "end"))
        /\ Piece(t, "end") \in Pieces
        /\ Len(Text(f)) >= 1 /\ Text(f)[Len(Text(f))] = Piece(t, "head")
        /\ Len(buffer) <= 1
    BY <1>9, <2>1, EndsShape
  <2>3. /\ Len(Text(f)') = Len(Text(f)) + 1 /\ Text(f)'[Len(Text(f)) + 1] = Piece(t, "end")
        /\ \A j \in 1 .. Len(Text(f)) : Text(f)'[j] = Text(f)[j]
    BY <1>2, <2>2, AppendProperties
  <2>4. Len(Held(f)) <= 1
    BY <2>1, <2>2 DEF Held
  <2>5. i # Len(Text(f))
    <3>1. Len(Text(f)) \in 1 .. Len(Text(f))
      BY <1>2, <2>2
    <3> QED BY <1>3, <1>5, <2>2, <2>3, <3>1 DEF Piece
  <2>6. i = Len(Text(f)) + 1
    BY <1>2, <1>3, <1>5, <1>6, <2>3, <2>4, <2>5
  <2>7. disk'[f][i].what = call[t].what
    BY <1>3, <1>5, <2>3, <2>6 DEF Piece
  <2>8. call[t] # None /\ call[t].op = "Write"
    BY <1>9 DEF Ends, Put, Doing
  <2> QED BY <2>1, <2>2, <2>3, <2>6, <2>7, <2>8
<1>10. ASSUME NEW t \in Threads, Flushes(t)
       PROVE  /\ f = file_ /\ file_' = file_ /\ i = Len(Text(f)')
              /\ call[t].op = "Write" /\ call[t] # None /\ disk'[f][i].what = call[t].what
  <2>1. disk'[f] = Text(f) /\ buffer' = <<>> /\ file_' = file_ /\ t \in Writing
    BY <1>10 DEF Flushes
  <2>2. f = file_
    BY <1>2, <1>7, <2>1
  <2>3. /\ Len(buffer) <= 2 /\ Len(Text(f)) >= 2 /\ Text(f)[Len(Text(f))] = Piece(t, "end")
        /\ Text(f)[Len(Text(f)) - 1] = Piece(t, "head")
    BY <1>10, <2>1, <2>2 DEF Flushes, LineInv, Begun
  <2>4. Len(Held(f)) <= 2
    BY <2>2, <2>3 DEF Held
  <2>5. i # Len(Text(f)) - 1
    BY <1>5, <2>1, <2>3 DEF Piece
  <2>6. i = Len(Text(f))
    BY <1>2, <1>5, <1>6, <2>1, <2>3, <2>4, <2>5
  <2>7. Text(f)' = Text(f)
    BY <1>1, <2>1, TextIsDiskNext
  <2>8. disk'[f][i].what = call[t].what
    BY <2>1, <2>3, <2>6 DEF Piece
  <2> QED BY <2>1, <2>2, <2>6, <2>7, <2>8 DEF Writing
<1> QED BY <1>6, <1>7, <1>8, <1>9, <1>10, Kinds DEF LineInv, Quiet, Reopens, Restarts

(* No newline on disk has its message.                                     *)
LEMMA NewMessage ==
    ASSUME TypeInv, OwnInv, LineInv, FreshInv, [Next]_vars, NEW f \in Files,
           NEW i \in Newlines(f)', i \notin Newlines(f)
    PROVE  /\ disk'[f][i].what \in Messages
           /\ \A g \in Files : \A j \in Newlines(g) : disk[g][j].what # disk'[f][i].what
<1>1. /\ f = file_ /\ i = Len(Text(f)') /\ Len(disk[f]) < i
      /\ \E t \in Threads :
            /\ Ends(t) \/ Flushes(t)
            /\ call[t].op = "Write" /\ call[t] # None /\ disk'[f][i].what = call[t].what
  BY NewNewline
<1>2. PICK t \in Threads : /\ Ends(t) \/ Flushes(t)
                           /\ call[t].op = "Write" /\ call[t] # None
                           /\ disk'[f][i].what = call[t].what
  BY <1>1
<1>3. PICK m : m = call[t].what
  OBVIOUS
<1>4. m \in Messages
  BY <1>2, <1>3 DEF OwnInv
<1>5. \A g \in Files : \A j \in Newlines(g) : j \in Nat /\ EndOf(g, j, disk[g][j].what)
  <2> SUFFICES ASSUME NEW g \in Files, NEW j \in Newlines(g)
               PROVE  j \in Nat /\ EndOf(g, j, disk[g][j].what)
    OBVIOUS
  <2>1. /\ Len(disk[g]) \in Nat /\ Len(Text(g)) \in Nat
        /\ Len(Text(g)) = Len(disk[g]) + Len(Held(g)) /\ Len(Held(g)) \in Nat
        /\ \A k \in 1 .. Len(disk[g]) : Text(g)[k] = disk[g][k]
    BY TextShape
  <2>2. j \in 1 .. Len(disk[g]) /\ disk[g][j].part = "end"
    BY NewlinesFinite DEF Newlines
  <2>3. j \in 1 .. Len(Text(g))
    BY <2>1, <2>2
  <2> QED BY <2>1, <2>2, <2>3 DEF EndOf
<1>6. CASE Ends(t)
  <2>1. Early(t)
    BY <1>6 DEF Ends, Put, Doing, Early
  <2> QED BY <1>2, <1>3, <1>4, <1>5, <2>1 DEF FreshInv
<1>7. CASE Flushes(t)
  <2>1. TypeInv'
    BY TypeNext
  <2>2. Text(f)' = Text(f) /\ t \in Writing /\ call[t].pc = "flush"
    BY <1>7, <2>1, TextIsDiskNext DEF Flushes
  <2>3. EndOf(f, i, m) /\ i \in Nat
    <3>1. /\ Len(Text(f)) >= 2 /\ Text(f)[Len(Text(f))] = Piece(t, "end")
      BY <1>1, <2>2 DEF LineInv, Begun
    <3>2. Len(Text(f)) \in Nat
      BY TextShape
    <3>3. i = Len(Text(f)) /\ i \in 1 .. Len(Text(f))
      BY <1>1, <2>2, <3>1, <3>2
    <3> QED BY <1>3, <3>1, <3>2, <3>3 DEF EndOf, Piece
  <2>4. ASSUME NEW g \in Files, NEW j \in Newlines(g), disk[g][j].what = m PROVE FALSE
    <3>1. g = f /\ j = i
      BY <1>4, <1>5, <2>3, <2>4 DEF FreshInv
    <3>2. j \in 1 .. Len(disk[f]) /\ Len(disk[f]) \in Nat
      BY <3>1, NewlinesFinite
    <3> QED BY <1>1, <3>1, <3>2
  <2> QED BY <1>2, <1>3, <1>4, <2>4
<1> QED BY <1>2, <1>6, <1>7

(* What a step does to the lines: they stay, or one is added to one file.  *)
LEMMA LinesNext ==
    ASSUME TypeInv, OwnInv, LineInv, FreshInv, RankInv, [Next]_vars
    PROVE  /\ RankInv'
           /\ \/ \A f \in Files : LinesOf(f)' = LinesOf(f)
              \/ \E f \in Files, m \in Messages :
                    /\ \A g \in Files : m \notin ToSet(LinesOf(g))
                    /\ LinesOf(f)' = Append(LinesOf(f), m)
                    /\ \A g \in Files \ {f} : LinesOf(g)' = LinesOf(g)
<1>1. \A f \in Files : \A i \in 1 .. Len(disk[f]) : disk'[f][i] = disk[f][i]
  BY DiskGrows
<1>2. \A f \in Files : Newlines(f) \subseteq Newlines(f)'
  <2> SUFFICES ASSUME NEW f \in Files, NEW i \in Newlines(f) PROVE i \in Newlines(f)'
    OBVIOUS
  <2>1. /\ disk[f] \in Seq(Pieces) /\ disk'[f] \in Seq(Pieces)
        /\ Len(disk[f]) \in Nat /\ Len(disk'[f]) \in Nat
        /\ Len(disk[f]) <= Len(disk'[f])
    BY DiskGrows
  <2>2. /\ DOMAIN disk[f] = 1 .. Len(disk[f]) /\ DOMAIN disk'[f] = 1 .. Len(disk'[f])
        /\ 1 .. Len(disk[f]) \subseteq 1 .. Len(disk'[f])
    BY <2>1
  <2> QED BY <1>1, <2>2 DEF Newlines
<1>3. ASSUME NEW f \in Files, Newlines(f)' = Newlines(f)
      PROVE  /\ LinesOf(f)' = LinesOf(f)
             /\ \A n \in 1 .. Cardinality(Newlines(f)') : Ranked(Newlines(f)', n) # {}
  BY <1>1, <1>3, LinesStay
<1>4. CASE \A f \in Files : Newlines(f)' = Newlines(f)
  BY <1>3, <1>4 DEF RankInv
<1>5. ASSUME NEW f \in Files, NEW x \in Newlines(f)', x \notin Newlines(f)
      PROVE  /\ RankInv'
             /\ \E m \in Messages :
                   /\ \A g \in Files : m \notin ToSet(LinesOf(g))
                   /\ LinesOf(f)' = Append(LinesOf(f), m)
                   /\ \A g \in Files \ {f} : LinesOf(g)' = LinesOf(g)
  <2>1. f = file_ /\ x = Len(Text(f)') /\ Len(disk[f]) < x
    BY <1>5, NewNewline
  <2>2. \A g \in Files : \A i \in Newlines(g)' : i \notin Newlines(g) => g = f /\ i = x
    BY <2>1, NewNewline
  <2>3. Newlines(f)' = Newlines(f) \cup {x}
    BY <1>2, <1>5, <2>2
  <2>4. \A g \in Files \ {f} : Newlines(g)' = Newlines(g)
    BY <1>2, <2>2
  <2>5. x \in Nat
    <3>1. TypeInv'
      BY TypeNext
    <3> QED BY <2>1, <3>1, TextShapeNext
  <2>6. PICK m : m = disk'[f][x].what
    OBVIOUS
  <2>7. /\ LinesOf(f)' = Append(LinesOf(f), m)
        /\ \A n \in 1 .. Cardinality(Newlines(f)') : Ranked(Newlines(f)', n) # {}
    BY <1>1, <2>1, <2>3, <2>5, <2>6, LinesGrow
  <2>8. m \in Messages /\ \A g \in Files : \A j \in Newlines(g) : disk[g][j].what # m
    BY <1>5, <2>6, NewMessage
  <2>9. ASSUME NEW g \in Files PROVE m \notin ToSet(LinesOf(g))
    <3> SUFFICES ASSUME NEW n \in 1 .. Cardinality(Newlines(g)), LinesOf(g)[n] = m PROVE FALSE
      BY DEF ToSet, LinesOf
    <3>1. Newline(g, n) \in Newlines(g) /\ LinesOf(g)[n] = disk[g][Newline(g, n)].what
      BY NewlineIs DEF LinesOf
    <3> QED BY <2>8, <3>1
  <2>10. RankInv'
    BY <1>3, <2>4, <2>7 DEF RankInv
  <2> QED BY <1>3, <2>4, <2>7, <2>8, <2>9, <2>10
<1>6. (\A f \in Files : Newlines(f)' = Newlines(f))
        \/ \E f \in Files : \E x \in Newlines(f)' : x \notin Newlines(f)
  BY <1>2
<1> QED BY <1>4, <1>5, <1>6

(* ImplementsLineLog: a newline comes to the disk after all others of its  *)
(* file, one at a time and once for its message, and none goes.            *)
THEOREM LogImplementsLineLog == Spec => ImplementsLineLog
<1>1. TypeInv /\ Init => RankInv /\ Lines!Init
  <2> SUFFICES ASSUME TypeInv, Init PROVE RankInv /\ Lines!Init
    OBVIOUS
  <2>1. \A f \in Files : Newlines(f) = {}
    BY DEF Init, Newlines
  <2>2. \A f \in Files : Cardinality(Newlines(f)) = 0
    BY <2>1, FS_EmptySet
  <2>3. RankInv
    BY <2>2 DEF RankInv
  <2>4. \A f \in Files : LinesOf(f) = <<>>
    BY <2>2 DEF LinesOf
  <2> QED BY <2>3, <2>4 DEF Lines!Init
<1>2. TypeInv /\ OwnInv /\ LineInv /\ FreshInv /\ [Next]_vars => FreshInv'
  BY FreshNext
<1>3. TypeInv /\ OwnInv /\ LineInv /\ FreshInv /\ RankInv /\ [Next]_vars
        => RankInv' /\ [Lines!Next]_([f \in Files |-> LinesOf(f)])
  <2> SUFFICES ASSUME TypeInv, OwnInv, LineInv, FreshInv, RankInv, [Next]_vars
               PROVE  RankInv' /\ [Lines!Next]_([f \in Files |-> LinesOf(f)])
    OBVIOUS
  <2>1. CASE \A f \in Files : LinesOf(f)' = LinesOf(f)
    BY <2>1, LinesNext
  <2>2. ASSUME NEW f \in Files, NEW m \in Messages,
               \A g \in Files : m \notin ToSet(LinesOf(g)),
               LinesOf(f)' = Append(LinesOf(f), m),
               \A g \in Files \ {f} : LinesOf(g)' = LinesOf(g)
        PROVE  Lines!AppendLine(f, m)
    <3> DEFINE l == [g \in Files |-> LinesOf(g)]
    <3>1. \A g \in Files : m \notin ToSet(l[g])
      BY <2>2
    <3>2. l[f] = LinesOf(f) /\ \A g \in Files : l'[g] = LinesOf(g)'
      OBVIOUS
    <3>3. l' = [l EXCEPT ![f] = Append(l[f], m)]
      BY <2>2, <3>2
    <3> QED BY <3>1, <3>3 DEF Lines!AppendLine, ToSet, Lines!ToSet
  <2> QED BY <2>1, <2>2, LinesNext DEF Lines!Next
<1> QED BY <1>1, <1>2, <1>3, FreshInit, TypeInit, TextInvariance, PTL
    DEF Spec, ImplementsLineLog, Lines!Spec

===============================================================================
