------------------------------ MODULE CondVar ------------------------------
(***************************************************************************)
(* 14_sync/1_condvar: a producer thread finds primes from A on and hands   *)
(* them one by one to the main thread, which prints N of them.  The two    *)
(* pass one mutex and two condition variables; neither tests a predicate   *)
(* around pthread_cond_wait.  Everything between two releases of the mutex *)
(* is one step.                                                            *)
(***************************************************************************)
EXTENDS Integers, Sequences

CONSTANTS A, B, N   \* the arguments; main reads B (line 54) and nothing uses it

ArgsAssumption == A \in Nat /\ B \in Nat /\ N \in Nat

VARIABLES
  main,      \* where the main thread is
  producer,  \* where the producer thread is
  owner,     \* the thread that holds the mutex
  value,     \* state->value
  printed,   \* what the program wrote
  current,   \* producer's candidate
  counter,   \* numbers the producer handed over and got an answer for
  quiet      \* history: every wait so far returned because of a signal

vars == <<main, producer, owner, value, printed, current, counter, quiet>>

Uninitialised == -1

(* Trial division by 2, 3, ... as long as i * i <= x: 0 and 1 pass.        *)
is_prime(x) == \A i \in 2..x : i * i <= x => x % i # 0

Init ==
  /\ main = "start" /\ producer = "none" /\ owner = "none"
  /\ value = Uninitialised /\ printed = <<>> /\ current = A /\ counter = 0
  /\ quiet = TRUE

(* When it is not the program that runs.                                   *)
Unmounted == Init

got_numbers == Len(printed)

(* pthread_cond_signal moves the one possible waiter on; without a waiter  *)
(* it is lost.                                                             *)
SignalLost(pc) == pc
Signalled(pc) == IF pc = "asleep" THEN "woken" ELSE pc

-----------------------------------------------------------------------------
(* The main thread.                                                        *)

MainStartUnlocked ==
  /\ main = "start"
  /\ main' = "consume" /\ owner' = "none" /\ producer' = "lock"
  /\ UNCHANGED <<quiet, value, printed, current, counter>>

MainStart ==
  /\ main = "start"
  /\ main' = "consume" /\ owner' = "main" /\ producer' = "lock"
  /\ UNCHANGED <<quiet, value, printed, current, counter>>

ConsumerWait ==
  /\ main = "consume" /\ got_numbers < N
  /\ main' = "asleep" /\ owner' = "none"
  /\ UNCHANGED <<quiet, producer, value, printed, current, counter>>

ConsumerGet ==
  /\ main = "woken" /\ owner = "none"
  /\ owner' = "main"
  /\ printed' = Append(printed, value)
  /\ producer' = Signalled(producer)
  /\ main' = "consume"
  /\ UNCHANGED <<quiet, value, current, counter>>

ConsumerDone ==
  /\ main = "consume" /\ got_numbers >= N
  /\ owner' = "none" /\ main' = "join"
  /\ UNCHANGED <<quiet, producer, value, printed, current, counter>>

Join ==
  /\ main = "join" /\ producer = "returned"
  /\ main' = "returned"
  /\ UNCHANGED <<quiet, producer, owner, value, printed, current, counter>>

-----------------------------------------------------------------------------
(* The producer thread.                                                    *)

ProducerLock ==
  /\ producer = "lock" /\ owner = "none"
  /\ owner' = "producer" /\ producer' = "loop"
  /\ UNCHANGED <<quiet, main, value, printed, current, counter>>

ProducerSearch ==
  /\ producer = "loop" /\ counter < N
  /\ ~is_prime(current)
  /\ current' = current + 1
  /\ UNCHANGED <<quiet, main, producer, owner, value, printed, counter>>

ProducerHand ==
  /\ producer = "loop" /\ counter < N
  /\ is_prime(current)
  /\ value' = current
  /\ main' = Signalled(main)
  /\ producer' = "asleep" /\ owner' = "none"
  /\ UNCHANGED <<quiet, printed, current, counter>>

ProducerResumeTwice ==
  /\ producer = "woken" /\ owner = "none"
  /\ owner' = "producer" /\ producer' = "loop"
  /\ current' = current + 2 /\ counter' = counter + 1
  /\ UNCHANGED <<quiet, main, value, printed>>

ProducerResume ==
  /\ producer = "woken" /\ owner = "none"
  /\ owner' = "producer" /\ producer' = "loop"
  /\ current' = current + 1 /\ counter' = counter + 1
  /\ UNCHANGED <<quiet, main, value, printed>>

(* The producer returns with the mutex locked.                             *)
ProducerReturn ==
  /\ producer = "loop" /\ counter >= N
  /\ producer' = "returned"
  /\ UNCHANGED <<quiet, main, owner, value, printed, current, counter>>

WakeSpuriously ==
  /\ quiet' = FALSE
  /\ \/ main = "asleep" /\ main' = "woken" /\ UNCHANGED producer
     \/ producer = "asleep" /\ producer' = "woken" /\ UNCHANGED main
  /\ UNCHANGED <<owner, value, printed, current, counter>>

-----------------------------------------------------------------------------
MainStep == MainStart \/ ConsumerWait \/ ConsumerGet \/ ConsumerDone \/ Join
ProducerStep == ProducerLock \/ ProducerSearch \/ ProducerHand
                  \/ ProducerResume \/ ProducerReturn
Done == main = "returned" /\ UNCHANGED vars

Next == MainStep \/ ProducerStep \/ WakeSpuriously \/ Done

Spec == Init /\ [][Next]_vars

(* Both threads run; a thread waits only for the mutex, for a signal or in *)
(* pthread_join, and the mutex is handed to whoever asks.                  *)
FairSpec == Spec /\ WF_vars(MainStep) /\ WF_vars(ProducerStep)

-----------------------------------------------------------------------------
(* Properties.                                                             *)

(* Every variable has its type.                                            *)
TypeOK ==
  /\ main \in {"start", "consume", "asleep", "woken", "join", "returned"}
  /\ producer \in {"none", "lock", "loop", "asleep", "woken", "returned"}
  /\ owner \in {"none", "main", "producer"}
  /\ value \in Nat \cup {Uninitialised}
  /\ printed \in Seq(Nat \cup {Uninitialised})
  /\ current \in Nat /\ counter \in Nat /\ quiet \in BOOLEAN

(* Until a wait returns without a signal, what is printed is every number  *)
(* from A on that is_prime takes, in order: each once, none skipped,       *)
(* although nothing but the alternation of the two signals keeps the       *)
(* producer from overwriting a value before it is read.                    *)
InOrder ==
  /\ \A i \in 1..Len(printed) : printed[i] >= A /\ is_prime(printed[i])
  /\ \A i, j \in 1..Len(printed) : i < j => printed[i] < printed[j]
  /\ \A i \in 1..Len(printed) : \A x \in A..printed[i] :
       is_prime(x) => \E j \in 1..i : printed[j] = x

(* However the threads are woken: no number is printed that is_prime does  *)
(* not take, once one was handed over, and none after a greater one.       *)
NeverBack ==
  /\ \A i \in 1..Len(printed) :
       printed[i] = Uninitialised \/ (printed[i] >= A /\ is_prime(printed[i]))
  /\ \A i, j \in 1..Len(printed) : i < j => printed[i] <= printed[j]

(* The output under all wakeups, and under those by a signal only.  This   *)
(* is less than problem.md asks: the primes from A to B (:5), where B has  *)
(* no effect (line 54) and is_prime takes 0 and 1; and each number that    *)
(* was received (:8), which a wait that returned by itself may print twice *)
(* or skip.                                                                *)
EveryPrimeOnce == NeverBack /\ (quiet => InOrder)

(* Whatever wakes the threads, they never both run between taking the      *)
(* mutex and giving it back: value is never read while it is written.      *)
NoRace == ~(main = "consume" /\ producer = "loop")

(* A thread sleeps only while the other one has still to signal it: the    *)
(* producer after handing over a value not printed yet, the main thread    *)
(* before the next one is handed over; and who holds the mutex runs.       *)
Alternation ==
  /\ main = "start" <=> producer = "none"
  /\ producer \in {"none", "lock"} =>
       main \in {"start", "consume", "asleep", "join"} /\ counter = 0
  /\ producer = "loop" => main \in {"asleep", "join"}
  /\ producer = "asleep" => main = "woken" /\ value = current
                              /\ is_prime(current)
  /\ producer = "woken" => main \in {"consume", "asleep", "join"}
  /\ producer = "returned" => main \in {"join", "returned"}
  /\ got_numbers = counter + (IF producer = "woken" THEN 1 ELSE 0)
  /\ main \in {"asleep", "woken"} => got_numbers < N
  /\ main \in {"join", "returned"} => got_numbers = N
  /\ got_numbers <= N

(* The producer's candidate is the frontier of the search: every prime     *)
(* below it has been printed, and no number from it on has, except the one *)
(* just printed while the producer is about to move on.                    *)
Frontier ==
  LET reached == IF producer = "woken" THEN current + 1 ELSE current IN
  /\ current >= A
  /\ \A i \in 1..Len(printed) : printed[i] \in A..reached - 1
  /\ \A x \in A..reached - 1 :
       is_prime(x) => \E i \in 1..Len(printed) : printed[i] = x

(* The program prints N numbers and ends, if no wait returns without a     *)
(* signal.                                                                 *)
TerminatesIfQuiet == <>(~quiet \/ (main = "returned" /\ got_numbers = N))
=============================================================================
