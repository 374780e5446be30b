------------------------------ MODULE PingPong ------------------------------
(***************************************************************************)
(* 13_pthreads_basics/2_ping-pong-threads-socketpair: two threads pass a   *)
(* number over a socket pair.  Besides the sockets they share the flag     *)
(* finished, which is set by one and tested by both without any lock:      *)
(* every access to it, every read and every write is a step.               *)
(***************************************************************************)
EXTENDS Integers, Sequences

CONSTANTS Limit,   \* the game ends above this number: 100
          Starts   \* values of the argument

LimitAssumption == Limit \in Nat \ {0}
StartsAssumption == Starts \subseteq 1..Limit

Threads == {1, 2}      \* first_fun and second_fun
Peer(t) == 3 - t

VARIABLES
  start,     \* starting_num
  started,
  finished,
  sock,      \* sock[t]: numbers thread t has still to read
  pc,
  num,       \* the threads' own N
  printed

vars == <<start, started, finished, sock, pc, num, printed>>

Rules == INSTANCE PingPongRules WITH out <- printed

(* Before the first step; and when it is not the program that runs.        *)
Fresh ==
  /\ started = FALSE /\ finished = FALSE
  /\ sock = [t \in Threads |-> <<>>]
  /\ pc = [t \in Threads |-> "loop"]
  /\ num = [t \in Threads |-> 0]
  /\ printed = <<>>

Init == start \in Starts /\ Fresh
Unmounted == start = 1 /\ Fresh

Goto(t, l) == pc' = [pc EXCEPT ![t] = l]

(* while (!st->finished), and for the first thread if (!st->started).      *)
Loop(t) ==
  /\ pc[t] = "loop"
  /\ Goto(t, IF finished THEN "returned"
             ELSE IF t = 1 /\ ~started THEN "begin" ELSE "read")
  /\ UNCHANGED <<start, started, finished, sock, num, printed>>

Begin(t) ==
  /\ pc[t] = "begin"
  /\ started' = TRUE
  /\ num' = [num EXCEPT ![t] = start]
  /\ Goto(t, "compute")
  /\ UNCHANGED <<start, finished, sock, printed>>

Read(t) ==
  /\ pc[t] = "read" /\ sock[t] # <<>>
  /\ num' = [num EXCEPT ![t] = Head(sock[t])]
  /\ sock' = [sock EXCEPT ![t] = Tail(@)]
  /\ Goto(t, "recheck")
  /\ UNCHANGED <<start, started, finished, printed>>

(* The test after the read, and the mutant without it.                     *)
NotRechecked == FALSE
Rechecked == finished

Recheck(t) ==
  /\ pc[t] = "recheck"
  /\ Goto(t, IF Rechecked THEN "returned" ELSE "compute")
  /\ UNCHANGED <<start, started, finished, sock, num, printed>>

EndsAtZero(n) == n = 0
Ends(n) == n = 0 \/ n > Limit

Compute(t) ==
  /\ pc[t] = "compute"
  /\ num' = [num EXCEPT ![t] = IF t = 1 THEN @ - 3 ELSE @ + 5]
  /\ finished' = (finished \/ Ends(num'[t]))
  /\ Goto(t, "print")
  /\ UNCHANGED <<start, started, sock, printed>>

PrintNum(t) ==
  /\ pc[t] = "print"
  /\ printed' = Append(printed, num[t])
  /\ Goto(t, "write")
  /\ UNCHANGED <<start, started, finished, sock, num>>

SentUnlessFinished(t) ==
  IF finished THEN sock ELSE [sock EXCEPT ![Peer(t)] = Append(@, num[t])]
Sent(t) == [sock EXCEPT ![Peer(t)] = Append(@, num[t])]

Write(t) ==
  /\ pc[t] = "write"
  /\ sock' = Sent(t)
  /\ Goto(t, "loop")
  /\ UNCHANGED <<start, started, finished, num, printed>>

(* main joins both threads and returns.                                    *)
Joined == \A t \in Threads : pc[t] = "returned"

Step(t) == Loop(t) \/ Begin(t) \/ Read(t) \/ Recheck(t) \/ Compute(t)
             \/ PrintNum(t) \/ Write(t)

Next == (\E t \in Threads : Step(t)) \/ (Joined /\ UNCHANGED vars)

Spec == Init /\ [][Next]_vars

(* Both threads run; read blocks only while its socket is empty.           *)
FairSpec == Spec /\ \A t \in Threads : WF_vars(Step(t))

-----------------------------------------------------------------------------
(* Properties.                                                             *)

(* Every variable has its type; a socket never holds two numbers.          *)
TypeOK ==
  /\ start \in Starts /\ started \in BOOLEAN /\ finished \in BOOLEAN
  /\ sock \in [Threads -> Seq(Int)] /\ num \in [Threads -> Int]
  /\ \A t \in Threads : Len(sock[t]) <= 1
  /\ pc \in [Threads -> {"loop", "begin", "read", "recheck", "compute",
                          "print", "write", "returned"}]
  /\ printed \in Seq(Int)

Idle == {"loop", "read", "returned"}
Last == Rules!Last
Mover == Rules!Mover

(* There is one number in the game.  Either one thread holds it, the one   *)
(* whose move is next or the one that has just printed, or it lies in the  *)
(* mover's socket; meanwhile the other thread neither holds nor finds one. *)
OneBall ==
  /\ \A t \in Threads :
       /\ pc[t] \notin Idle => /\ pc[Peer(t)] \in Idle
                               /\ \A u \in Threads : sock[u] = <<>>
                               /\ (t = Mover <=> pc[t] # "write")
       /\ sock[t] # <<>> => t = Mover /\ sock[t] = <<Last>>
                              /\ sock[Peer(t)] = <<>>
       /\ pc[t] \in {"recheck", "compute", "write"} => num[t] = Last
       /\ pc[t] = "print" => num[t] = Last + Rules!Delta(t) /\ ~Rules!Over
       /\ pc[t] = "begin" => t = 1 /\ ~started
       /\ pc[t] \in {"begin", "compute"} => ~finished
  /\ ~started => /\ printed = <<>> /\ \A t \in Threads : sock[t] = <<>>
                 /\ pc[1] \in {"loop", "begin"} /\ pc[2] \in {"loop", "read"}
  /\ started /\ printed = <<>> => pc[1] \in {"compute", "print"}

(* The flag is up exactly when the final number has been computed, and no  *)
(* thread leaves before that.                                              *)
FinishedAgrees ==
  /\ finished <=> \/ Rules!Over
                  \/ \E t \in Threads : pc[t] = "print" /\ Rules!Final(num[t])
  /\ \A t \in Threads : pc[t] = "returned" => finished

(* The output is that of the game: each move once, none after the last.    *)
PlaysTheGame == Rules!Spec

(* Both threads return, and the last number printed is the final one.      *)
Terminates == <>(Joined /\ Rules!Over)
=============================================================================
