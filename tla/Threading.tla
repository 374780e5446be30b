------------------------------ MODULE Threading ------------------------------
(* Programs whose threads share memory or sockets: each in behaviours of   *)
(* its own.                                                                *)
EXTENDS Integers

CONSTANTS
  A, B, Wanted,   \* of CondVar: its three arguments
  Limit, Starts,  \* of PingPong
  MaxN, MaxK      \* of MutexRing

VARIABLES
  part,
  main, producer, owner, value, printed, current, counter, quiet,   \* of CondVar
  start, started, finished, sock, pc, num, moves,                   \* of PingPong
  rounds, size, numbers, mutex, at, turn, arm, reg,                 \* of MutexRing
  creator, created, joined, cells

primes == <<main, producer, owner, value, printed, current, counter, quiet>>
game == <<start, started, finished, sock, pc, num, moves>>
ring == <<rounds, size, numbers, mutex, at, turn, arm, reg, creator, created, joined, cells>>
vars == <<part, primes, game, ring>>

Cond == INSTANCE CondVar WITH N <- Wanted
Ball == INSTANCE PingPong WITH printed <- moves
Ring == INSTANCE MutexRing WITH N <- rounds, k <- size, pc <- at, j <- turn,
                                main <- creator, printed <- cells

(* What the modules assume of their parameters.                            *)
ASSUME ThreadingAssumption ==
  /\ Cond!ArgsAssumption /\ Ball!LimitAssumption /\ Ball!StartsAssumption
  /\ Ring!BoundsAssumption

Init ==
  /\ part \in {"condvar", "ping_pong", "mutex"}
  /\ IF part = "condvar" THEN Cond!Init ELSE Cond!Unmounted
  /\ IF part = "ping_pong" THEN Ball!Init ELSE Ball!Unmounted
  /\ IF part = "mutex" THEN Ring!Init ELSE Ring!Unmounted

CondVar == part = "condvar" /\ UNCHANGED <<part, game, ring>>
PingPong == part = "ping_pong" /\ UNCHANGED <<part, primes, ring>>
MutexRing == part = "mutex" /\ UNCHANGED <<part, primes, game>>

Next == \/ CondVar /\ Cond!Next
        \/ PingPong /\ Ball!Next
        \/ MutexRing /\ Ring!Next

Spec == Init /\ [][Next]_vars

(* The threads of each program run; see the modules' own FairSpec.         *)
FairSpec ==
  /\ Spec
  /\ WF_vars(CondVar /\ Cond!MainStep) /\ WF_vars(CondVar /\ Cond!ProducerStep)
  /\ \A t \in {1, 2} : WF_vars(PingPong /\ Ball!Step(t))
  /\ WF_vars(MutexRing /\ Ring!Main)
  /\ \A t \in 0..MaxK - 1 : WF_vars(MutexRing /\ t \in Ring!Threads /\ Ring!Work(t))

-----------------------------------------------------------------------------
(* The value the threads of 14_sync/1 pass is never read while it is       *)
(* written, and the output is the list of the primes, however they run:    *)
(* see CondVar.                                                            *)
NoRace == Cond!NoRace
EveryPrimeOnce == Cond!EveryPrimeOnce
TerminatesIfQuiet == part = "condvar" => Cond!TerminatesIfQuiet

(* The two threads of 13_pthreads_basics/2 have one number between them,   *)
(* their output is the sequential game's, and both return: see PingPong.   *)
OneBall == Ball!OneBall
PlaysTheGame == Ball!PlaysTheGame
GameEnds == part = "ping_pong" => Ball!Terminates

(* No addition to a cell of 14_sync/0 is lost, every cell ends at three    *)
(* times N, and the program ends: see MutexRing.                           *)
Accounted == Ring!Accounted
RingEnds == part = "mutex" => Ring!Terminates
=============================================================================
