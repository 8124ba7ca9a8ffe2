-------------------------------- MODULE LineLog -------------------------------
(***************************************************************************)
(* What a log file promises, whatever happens to the processes that write  *)
(* it: lines are added at its end, each message at most once, and no line  *)
(* ever changes or goes away.  Class Log (module Log) implements this.     *)
(***************************************************************************)
EXTENDS Sequences, SequencesExt

CONSTANTS Files, Messages

VARIABLE lines      \* lines[f]: the messages whose lines f has

Init == lines = [f \in Files |-> <<>>]

AppendLine(f, m) ==
    /\ \A g \in Files : m \notin ToSet(lines[g])
    /\ lines' = [lines EXCEPT ![f] = Append(@, m)]

Next == \E f \in Files, m \in Messages : AppendLine(f, m)

Spec == Init /\ [][Next]_lines
===============================================================================
