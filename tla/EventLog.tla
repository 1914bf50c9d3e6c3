------------------------------ MODULE EventLog -------------------------------
(***************************************************************************)
(* What a session log promises: the events a reader will find are those    *)
(* that were accepted, in order, and of these a prefix is safe.  A failure *)
(* may cost events at the end, never safe ones and never one in between.   *)
(***************************************************************************)
EXTENDS Naturals, Sequences

CONSTANT Events

VARIABLES log,    \* the accepted events that are not lost
          safe    \* how many of them, from the first, no failure can take

Init == log = <<>> /\ safe = 0

Accept == \E e \in Events : log' = Append(log, e) /\ UNCHANGED safe

Harden == safe' \in safe..Len(log) /\ UNCHANGED log

Lose == /\ \E n \in safe..Len(log) : log' = SubSeq(log, 1, n)
        /\ safe' \in safe..Len(log')

Next == Accept \/ Harden \/ Lose

Spec == Init /\ [][Next]_<<log, safe>>
=============================================================================
