--------------------------- MODULE PingPongRules ---------------------------
(***************************************************************************)
(* The game of 13_pthreads_basics/2 as its output shows it: a number goes  *)
(* to and fro, loses 3 and gains 5 in turn, and stops at 0 or above 100.   *)
(***************************************************************************)
EXTENDS Integers, Sequences

CONSTANT Limit
VARIABLES start,  \* the number the game starts with
          out     \* the numbers printed

Final(n) == n = 0 \/ n > Limit

(* The first thread moves when the number of moves so far is even.         *)
Mover == IF Len(out) % 2 = 0 THEN 1 ELSE 2
Delta(t) == IF t = 1 THEN -3 ELSE 5
Last == IF out = <<>> THEN start ELSE out[Len(out)]
Over == out # <<>> /\ Final(Last)

Init == start \in 1..Limit /\ out = <<>>

Move == /\ ~Over
        /\ out' = Append(out, Last + Delta(Mover))
        /\ UNCHANGED start

Spec == Init /\ [][Move]_<<start, out>>
=============================================================================
