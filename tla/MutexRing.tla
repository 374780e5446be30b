----------------------------- MODULE MutexRing -----------------------------
(***************************************************************************)
(* 14_sync/0_mutex: k threads, each adding N times to its own cell of an   *)
(* array and to both neighbours, the array taken as a ring.  With one cell *)
(* or two the neighbours coincide.  A += is a load and a store.  Values    *)
(* are in hundredths: 0.99, 1 and 1.01 are 99, 100 and 101.                *)
(***************************************************************************)
EXTENDS Integers, Sequences

CONSTANTS MaxN, MaxK  \* bounds on the arguments

BoundsAssumption == MaxN \in Nat \ {0} /\ MaxK \in Nat \ {0}

VARIABLES
  N, k,      \* the arguments
  numbers, mutex,
  pc, j,     \* the threads: where they are, their loop variable
  arm,       \* the neighbour to update next: -1, 0, 1
  reg,       \* the value a += has loaded
  main, created, joined, printed

threadVars == <<numbers, mutex, pc, j, arm, reg>>
vars == <<N, k, threadVars, main, created, joined, printed>>

Threads == 0..k - 1
Free == -1

(* Before the first step; and when it is not the program that runs.        *)
Fresh ==
  /\ numbers = [e \in Threads |-> 0] /\ mutex = Free
  /\ pc = [t \in Threads |-> "none"]
  /\ j = [t \in Threads |-> 0] /\ arm = [t \in Threads |-> -1]
  /\ reg = [t \in Threads |-> 0]
  /\ main = "create" /\ created = 0 /\ joined = 0 /\ printed = <<>>

Init == N \in 1..MaxN /\ k \in 1..MaxK /\ Fresh
Unmounted == N = 0 /\ k = 0 /\ Fresh

-----------------------------------------------------------------------------
(* A thread.                                                               *)

Enter(t) ==
  /\ mutex' = t
  /\ pc' = [pc EXCEPT ![t] = "loop"]
  /\ UNCHANGED <<N, k, numbers, j, arm, reg, main, created, joined, printed>>

Barge(t) == pc[t] = "lock" /\ Enter(t)
Lock(t) == pc[t] = "lock" /\ mutex = Free /\ Enter(t)

Target(t, a) == (t + a + k) % k

Step(a) == 100 + a

NextArm(a) == IF a = 1 THEN -1 ELSE a + 1

Load(t) ==
  /\ pc[t] = "loop" /\ j[t] < N
  /\ reg' = [reg EXCEPT ![t] = numbers[Target(t, arm[t])]]
  /\ pc' = [pc EXCEPT ![t] = "store"]
  /\ UNCHANGED <<N, k, numbers, mutex, j, arm, main, created, joined, printed>>

Store(t) ==
  /\ pc[t] = "store"
  /\ numbers' = [numbers EXCEPT ![Target(t, arm[t])] = reg[t] + Step(arm[t])]
  /\ arm' = [arm EXCEPT ![t] = NextArm(@)]
  /\ j' = [j EXCEPT ![t] = IF arm[t] = 1 THEN @ + 1 ELSE @]
  /\ pc' = [pc EXCEPT ![t] = "loop"]
  /\ UNCHANGED <<N, k, mutex, reg, main, created, joined, printed>>

ForgetUnlock(t) ==
  /\ pc[t] = "loop" /\ j[t] = N
  /\ pc' = [pc EXCEPT ![t] = "returned"]
  /\ UNCHANGED <<N, k, numbers, mutex, j, arm, reg, main, created, joined, printed>>

Unlock(t) ==
  /\ pc[t] = "loop" /\ j[t] = N
  /\ mutex' = Free
  /\ pc' = [pc EXCEPT ![t] = "returned"]
  /\ UNCHANGED <<N, k, numbers, j, arm, reg, main, created, joined, printed>>

-----------------------------------------------------------------------------
(* main                                                                    *)

Create ==
  /\ main = "create"
  /\ pc' = [pc EXCEPT ![created] = "lock"]
  /\ created' = created + 1
  /\ main' = IF created' = k THEN "join" ELSE "create"
  /\ UNCHANGED <<N, k, numbers, mutex, j, arm, reg, joined, printed>>

Joinable == {t \in Threads : pc[t] = "returned"}

Join ==
  /\ main = "join" /\ joined \in Joinable
  /\ joined' = joined + 1
  /\ main' = IF joined' = k THEN "print" ELSE "join"
  /\ UNCHANGED <<N, k, threadVars, created, printed>>

PrintCell ==
  /\ main = "print"
  /\ printed' = Append(printed, numbers[Len(printed)])
  /\ main' = IF Len(printed') = k THEN "returned" ELSE "print"
  /\ UNCHANGED <<N, k, threadVars, created, joined>>

-----------------------------------------------------------------------------
Work(t) == Lock(t) \/ Load(t) \/ Store(t) \/ Unlock(t)
Main == Create \/ Join \/ PrintCell

Next == \/ \E t \in Threads : Work(t)
        \/ Main
        \/ main = "returned" /\ UNCHANGED vars

Spec == Init /\ [][Next]_vars

(* Every thread runs.  The mutex is taken once by each thread, so that a   *)
(* waiter is never overtaken for ever.                                     *)
FairSpec == /\ Spec /\ WF_vars(Main)
            /\ \A t \in 0..MaxK - 1 : WF_vars(t \in Threads /\ Work(t))

-----------------------------------------------------------------------------
(* Properties.                                                             *)

(* Every variable has its type.                                            *)
TypeOK ==
  /\ N \in 1..MaxN /\ k \in 1..MaxK
  /\ numbers \in [Threads -> Nat] /\ mutex \in Threads \cup {Free}
  /\ pc \in [Threads -> {"none", "lock", "loop", "store", "returned"}]
  /\ j \in [Threads -> 0..N] /\ arm \in [Threads -> -1..1]
  /\ reg \in [Threads -> Nat]
  /\ main \in {"create", "join", "print", "returned"}
  /\ created \in 0..k /\ joined \in 0..k /\ printed \in Seq(Nat)

(* How often thread t has added to its neighbour a, from its position in   *)
(* the loop: its full rounds, and the current one if a is done in it.      *)
Rounds(t, a) == j[t] + IF a < arm[t] THEN 1 ELSE 0

(* Every cell holds exactly what its neighbours and its own thread have    *)
(* added: no addition is lost or made twice.  The ring is even: what main  *)
(* prints is N * 3 for every cell, whatever the number of threads.         *)
Accounted ==
  /\ \A e \in Threads :
       numbers[e] = 99 * Rounds(Target(e, 1), -1) + 100 * Rounds(e, 0)
                      + 101 * Rounds(Target(e, -1), 1)
  /\ \A n \in 1..Len(printed) : printed[n] = 300 * N

(* Between the load and the store of a += the cell keeps its value, and    *)
(* the thread that is there holds the mutex.                               *)
Exclusive ==
  \A t \in Threads : pc[t] \in {"loop", "store"} =>
    /\ mutex = t
    /\ pc[t] = "store" => reg[t] = numbers[Target(t, arm[t])]

(* The program ends, with all cells printed.                               *)
Terminates == <>(main = "returned" /\ Len(printed) = k)
=============================================================================
