--------------------------- MODULE ThreadingProofs ---------------------------
(***************************************************************************)
(* What the programs with threads guarantee for every value of their       *)
(* arguments.  The hand-over of 14_sync/1_condvar: mutual exclusion under  *)
(* any wakeups, and the right output as long as a wait returns only when   *)
(* it was signalled.  The two threads of 13_pthreads_basics/2 play the     *)
(* game although they share a flag without a lock.  The threads of         *)
(* 14_sync/0 lose no addition, whatever their number.                      *)
(***************************************************************************)
EXTENDS Threading, Sequences, TLAPS

LEMMA Args == A \in Nat /\ Wanted \in Nat
BY ThreadingAssumption DEF Cond!ArgsAssumption

LEMMA Limits == Limit \in Nat \ {0} /\ Starts \subseteq 1..Limit
BY ThreadingAssumption DEF Ball!LimitAssumption, Ball!StartsAssumption

LEMMA Bounds == MaxN \in Nat \ {0} /\ MaxK \in Nat \ {0}
BY ThreadingAssumption DEF Ring!BoundsAssumption

-----------------------------------------------------------------------------
(* 14_sync/1_condvar.                                                      *)

(* The mutex belongs to the thread that is past its lock and before its    *)
(* next release.                                                           *)
Ownership ==
  /\ main = "start" => producer = "none" /\ owner = "none"
  /\ main = "consume" => owner = "main"
  /\ producer = "loop" => owner = "producer"

LEMMA OwnershipStep == Ownership /\ [Cond!Next]_(Cond!vars) => Ownership'
BY DEF Ownership, Cond!Next, Cond!vars, Cond!MainStep, Cond!ProducerStep,
   Cond!WakeSpuriously, Cond!Done,
   Cond!MainStart, Cond!ConsumerWait, Cond!ConsumerGet, Cond!ConsumerDone,
      Cond!Join, Cond!ProducerLock,
   Cond!ProducerSearch, Cond!ProducerHand, Cond!ProducerResume,
      Cond!ProducerReturn, Cond!Signalled


-----------------------------------------------------------------------------
Strict == Cond!Alternation /\ Cond!Frontier

(* What holds until a wait returns without a signal.                       *)
QuietInv == Cond!TypeOK /\ Ownership /\ Strict /\ Cond!InOrder

USE Args DEF Cond!got_numbers

(* What holds however the threads are woken: the value is one the producer *)
(* has found, not above its candidate, and nothing above it was printed.   *)
Handed ==
  /\ Cond!NeverBack
  /\ current >= A /\ value <= current
  /\ value = Cond!Uninitialised \/ (value >= A /\ Cond!is_prime(value))
  /\ \A i \in 1..Len(printed) : printed[i] <= value

LEMMA HandedInit == Cond!Init => Handed
BY DEF Cond!Init, Handed, Cond!NeverBack, Cond!Uninitialised

LEMMA CondInit == Cond!Init => QuietInv
BY DEF Cond!Init, QuietInv, Ownership, Cond!TypeOK, Strict, Cond!Alternation,
   Cond!Frontier, Cond!InOrder,
   Cond!Uninitialised

(* A printed number is the frontier itself: everything smaller is there.   *)
LEMMA ConsumerGetInv ==
  ASSUME QuietInv, Cond!ConsumerGet PROVE Cond!TypeOK' /\ Strict' /\ Cond!InOrder'
<1>1. /\ producer = "asleep" /\ main = "woken" /\ value = current
      /\ Cond!is_prime(current) /\ Len(printed) = counter /\ counter < Wanted
      /\ main' = "consume" /\ producer' = "woken"
      /\ UNCHANGED <<value, current, counter>>
      /\ printed' = Append(printed, current)
      /\ printed \in Seq(Nat \cup {Cond!Uninitialised}) /\ current \in Nat
      /\ counter \in Nat
  BY DEF Cond!ConsumerGet, Cond!Signalled, QuietInv, Strict, Cond!Alternation,
     Cond!TypeOK
<1>2. /\ Len(printed') = Len(printed) + 1
      /\ printed'[Len(printed) + 1] = current
      /\ \A i \in 1..Len(printed) : printed'[i] = printed[i]
  BY <1>1
<1>3. /\ current >= A
      /\ \A i \in 1..Len(printed) : printed[i] \in A..current - 1
      /\ \A x \in A..current - 1 :
           Cond!is_prime(x) => \E i \in 1..Len(printed) : printed[i] = x
      /\ Cond!InOrder
  BY <1>1 DEF QuietInv, Strict, Cond!Frontier
<1> HIDE DEF Cond!is_prime
<1>4. Cond!TypeOK'
  BY <1>1 DEF QuietInv, Cond!TypeOK, Cond!ConsumerGet
<1>5. Cond!Alternation'
  BY <1>1, <1>2 DEF QuietInv, Strict, Cond!Alternation
<1>6. \A x \in A..current :
        Cond!is_prime(x) => \E i \in 1..Len(printed') : printed'[i] = x
  BY <1>1, <1>2, <1>3
<1>7. Cond!Frontier'
  BY <1>1, <1>2, <1>3, <1>6 DEF Cond!Frontier
<1>8. Cond!InOrder'
  <2>1. \A i \in 1..Len(printed') : printed'[i] >= A /\ Cond!is_prime(printed'[i])
    BY <1>1, <1>2, <1>3 DEF Cond!InOrder
  <2>2. \A i, j \in 1..Len(printed') : i < j => printed'[i] < printed'[j]
    BY <1>1, <1>2, <1>3 DEF Cond!InOrder
  <2>3. ASSUME NEW i \in 1..Len(printed'), NEW x \in A..printed'[i], Cond!is_prime(x)
        PROVE  \E j \in 1..i : printed'[j] = x
    <3>1. CASE i = Len(printed) + 1
      BY <1>1, <1>2, <1>6, <2>3, <3>1
    <3>2. CASE i \in 1..Len(printed)
      <4>1. PICK j \in 1..i : printed[j] = x
        BY <1>2, <1>3, <2>3, <3>2 DEF Cond!InOrder
      <4> QED
        BY <1>2, <3>2, <4>1
    <3> QED
      BY <1>1, <1>2, <3>1, <3>2
  <2> QED
    BY <2>1, <2>2, <2>3 DEF Cond!InOrder
<1> QED
  BY <1>4, <1>5, <1>7, <1>8 DEF QuietInv, Strict

(* The other steps print nothing.                                          *)
SilentStep ==
  \/ Cond!MainStart \/ Cond!ConsumerWait \/ Cond!ConsumerDone \/ Cond!Join \/ Cond!ProducerLock
  \/ Cond!ProducerSearch \/ Cond!ProducerHand \/ Cond!ProducerResume \/ Cond!ProducerReturn
  \/ UNCHANGED Cond!vars

LEMMA SilentType == ASSUME QuietInv, SilentStep PROVE Cond!TypeOK' /\ printed' = printed
BY DEF SilentStep, Cond!MainStart, Cond!ConsumerWait, Cond!ConsumerDone, Cond!Join,
   Cond!ProducerLock,
   Cond!ProducerSearch, Cond!ProducerHand, Cond!ProducerResume,
      Cond!ProducerReturn, Cond!vars,
   Cond!Signalled, QuietInv, Cond!TypeOK

LEMMA SilentAlternation == ASSUME QuietInv, SilentStep PROVE Cond!Alternation'
<1>1. Cond!TypeOK /\ Ownership /\ Cond!Alternation /\ printed' = printed
  BY SilentType DEF QuietInv, Strict
<1> USE DEF Cond!TypeOK, Ownership, Cond!Alternation
<1>2. CASE Cond!MainStart BY <1>1, <1>2 DEF Cond!MainStart
<1>3. CASE Cond!ConsumerWait BY <1>1, <1>3 DEF Cond!ConsumerWait
<1>4. CASE Cond!ConsumerDone BY <1>1, <1>4 DEF Cond!ConsumerDone
<1>5. CASE Cond!Join BY <1>1, <1>5 DEF Cond!Join
<1>6. CASE Cond!ProducerLock BY <1>1, <1>6 DEF Cond!ProducerLock
<1>7. CASE Cond!ProducerSearch BY <1>1, <1>7 DEF Cond!ProducerSearch
<1>8. CASE Cond!ProducerHand BY <1>1, <1>8 DEF Cond!ProducerHand, Cond!Signalled,
   Cond!is_prime
<1>9. CASE Cond!ProducerResume BY <1>1, <1>9 DEF Cond!ProducerResume
<1>10. CASE Cond!ProducerReturn BY <1>1, <1>10 DEF Cond!ProducerReturn
<1>11. CASE UNCHANGED Cond!vars BY <1>1, <1>11 DEF Cond!vars
<1> QED
  BY <1>2, <1>3, <1>4, <1>5, <1>6, <1>7, <1>8, <1>9, <1>10, <1>11 DEF SilentStep

(* The frontier moves over a number only if it is no prime, or was printed. *)
LEMMA SilentFrontier == ASSUME QuietInv, SilentStep PROVE Cond!Frontier'
<1> DEFINE reached == IF producer = "woken" THEN current + 1 ELSE current
           reachedNext == IF producer' = "woken" THEN current' + 1 ELSE current'
<1>1. /\ current \in Nat /\ current >= A /\ reached \in Nat
      /\ \A i \in 1..Len(printed) : printed[i] \in A..reached - 1
      /\ \A x \in A..reached - 1 :
           Cond!is_prime(x) => \E i \in 1..Len(printed) : printed[i] = x
      /\ printed' = printed
  BY SilentType DEF QuietInv, Strict, Cond!TypeOK, Cond!Frontier
<1> HIDE DEF reached, reachedNext, Cond!is_prime
<1>2. CASE Cond!ProducerSearch
  <2>1. ~Cond!is_prime(current) /\ current' = current + 1 /\ reached = current
        /\ reachedNext = current + 1
    BY <1>2 DEF Cond!ProducerSearch, reached, reachedNext
  <2>2. \A x \in A..current : x = current \/ x \in A..current - 1
    BY <1>1
  <2>3. \A x \in A..reachedNext - 1 :
          Cond!is_prime(x) => \E i \in 1..Len(printed) : printed[i] = x
    BY <1>1, <2>1, <2>2
  <2> QED
    BY <1>1, <2>1, <2>3 DEF Cond!Frontier, reachedNext
<1>3. CASE ~Cond!ProducerSearch
  <2>1. CASE Cond!ProducerResume
    BY <1>1, <2>1 DEF Cond!ProducerResume, Cond!Frontier, reached
  <2>2. CASE ~Cond!ProducerResume
    <3>1. current' = current /\ (producer' = "woken" <=> producer = "woken")
      BY <1>3, <2>2 DEF SilentStep, Cond!MainStart, Cond!ConsumerWait,
         Cond!ConsumerDone,
         Cond!Join, Cond!ProducerLock, Cond!ProducerHand, Cond!ProducerReturn,
            Cond!vars, QuietInv, Strict,
         Cond!Alternation
    <3> QED
      BY <1>1, <3>1 DEF Cond!Frontier, reached
  <2> QED
    BY <2>1, <2>2
<1> QED
  BY <1>2, <1>3

LEMMA QuietStep == ASSUME QuietInv, [Cond!Next]_(Cond!vars), quiet' PROVE QuietInv'
<1>0. Ownership'
  BY OwnershipStep DEF QuietInv
<1>1. Cond!ConsumerGet \/ SilentStep
  BY DEF Cond!Next, Cond!MainStep, Cond!ProducerStep, Cond!WakeSpuriously,
     Cond!Done, SilentStep
<1>2. CASE Cond!ConsumerGet
  BY <1>0, <1>2, ConsumerGetInv DEF QuietInv
<1>3. CASE SilentStep
  <2>1. Cond!InOrder'
    BY <1>3, SilentType DEF QuietInv, Cond!InOrder
  <2> QED
    BY <1>0, <1>3, <2>1, SilentType, SilentAlternation, SilentFrontier
       DEF QuietInv, Strict
<1> QED
  BY <1>1, <1>2, <1>3

CondInv == Cond!TypeOK /\ Ownership /\ Handed /\ (quiet => QuietInv)

(* The types hold however the threads are woken.                           *)
LEMMA CondType == ASSUME Cond!TypeOK, [Cond!Next]_(Cond!vars) PROVE Cond!TypeOK'
<1> USE DEF Cond!TypeOK
<1>1. CASE Cond!MainStep
  BY <1>1 DEF Cond!MainStep, Cond!MainStart, Cond!ConsumerWait, Cond!ConsumerGet,
     Cond!ConsumerDone, Cond!Join,
     Cond!Signalled
<1>2. CASE Cond!ProducerStep
  BY <1>2 DEF Cond!ProducerStep, Cond!ProducerLock, Cond!ProducerSearch,
     Cond!ProducerHand,
     Cond!ProducerResume, Cond!ProducerReturn, Cond!Signalled
<1>3. CASE Cond!WakeSpuriously
  BY <1>3 DEF Cond!WakeSpuriously
<1>4. CASE UNCHANGED Cond!vars
  BY <1>4 DEF Cond!vars
<1> QED BY <1>1, <1>2, <1>3, <1>4 DEF Cond!Next, Cond!Done

(* Once a wait has returned without a signal, it has.                      *)
LEMMA QuietFalls == ASSUME Cond!TypeOK, [Cond!Next]_(Cond!vars), quiet' PROVE quiet
BY DEF Cond!TypeOK, Cond!Next, Cond!vars, Cond!MainStep, Cond!ProducerStep,
   Cond!WakeSpuriously, Cond!Done,
   Cond!MainStart, Cond!ConsumerWait, Cond!ConsumerGet, Cond!ConsumerDone,
      Cond!Join, Cond!ProducerLock,
   Cond!ProducerSearch, Cond!ProducerHand, Cond!ProducerResume, Cond!ProducerReturn


(* What is printed was handed over before, and what is handed over grows.  *)
LEMMA HandedStep ==
  ASSUME Cond!TypeOK, Handed, [Cond!Next]_(Cond!vars) PROVE Handed'
<1> USE DEF Cond!TypeOK, Handed, Cond!NeverBack, Cond!Uninitialised
<1> HIDE DEF Cond!is_prime
<1>1. CASE Cond!ConsumerGet
  <2>1. /\ printed' = Append(printed, value) /\ UNCHANGED <<value, current>>
        /\ printed \in Seq(Nat \cup {-1})
    BY <1>1 DEF Cond!ConsumerGet
  <2>2. /\ Len(printed') = Len(printed) + 1
        /\ printed'[Len(printed) + 1] = value
        /\ \A i \in 1..Len(printed) : printed'[i] = printed[i]
    BY <2>1
  <2>3. \A i \in 1..Len(printed') : i \in 1..Len(printed) \/ i = Len(printed) + 1
    BY <2>1, <2>2
  <2>4. \A i \in 1..Len(printed') :
          /\ printed'[i] = -1 \/ (printed'[i] >= A /\ Cond!is_prime(printed'[i]))
          /\ printed'[i] <= value
    BY <2>1, <2>2, <2>3
  <2>5. ASSUME NEW i \in 1..Len(printed'), NEW j \in 1..Len(printed'), i < j
        PROVE  printed'[i] <= printed'[j]
    BY <2>1, <2>2, <2>3, <2>5
  <2> QED
    BY <2>1, <2>4, <2>5
<1>2. CASE Cond!ProducerHand
  BY <1>2 DEF Cond!ProducerHand
<1>3. CASE UNCHANGED <<value, printed>> /\ current' \in {current, current + 1}
  BY <1>3
<1>4. Cond!ConsumerGet \/ Cond!ProducerHand
        \/ (UNCHANGED <<value, printed>> /\ current' \in {current, current + 1})
  BY DEF Cond!Next, Cond!vars, Cond!MainStep, Cond!ProducerStep,
     Cond!WakeSpuriously, Cond!Done, Cond!MainStart, Cond!ConsumerWait,
     Cond!ConsumerDone, Cond!Join, Cond!ProducerLock, Cond!ProducerSearch,
     Cond!ProducerResume, Cond!ProducerReturn
<1> QED
  BY <1>1, <1>2, <1>3, <1>4

-----------------------------------------------------------------------------
(* 13_pthreads_basics/2_ping-pong-threads-socketpair.                      *)

HIDE Args DEF Cond!got_numbers

BallInv == Ball!TypeOK /\ Ball!OneBall /\ Ball!FinishedAgrees

USE DEF Ball!Threads, Ball!Peer, Ball!Idle, Ball!Goto

LEMMA LastType == Ball!TypeOK => Ball!Last \in Int /\ Ball!Mover \in Ball!Threads
BY Limits
   DEF Ball!TypeOK, Ball!Last, Ball!Mover, Ball!Rules!Last, Ball!Rules!Mover

LEMMA BallInit == Ball!Init => BallInv
<1> SUFFICES ASSUME Ball!Init PROVE BallInv
  OBVIOUS
<1>1. Ball!TypeOK
  <2>1. <<>> \in Seq(Int) /\ Len(<<>>) = 0
    OBVIOUS
  <2>2. started \in BOOLEAN /\ finished \in BOOLEAN
    BY DEF Ball!Init, Ball!Fresh
  <2>3. sock \in [Ball!Threads -> Seq(Int)] /\ \A t \in Ball!Threads : sock[t] = <<>>
    BY <2>1 DEF Ball!Init, Ball!Fresh
  <2>4. \A t \in Ball!Threads : Len(sock[t]) <= 1
    BY <2>1, <2>3
  <2>5. /\ num \in [Ball!Threads -> Int] /\ moves \in Seq(Int) /\ start \in Starts
        /\ pc \in [Ball!Threads -> {"loop", "begin", "read", "recheck", "compute",
                                "print", "write", "returned"}]
    BY <2>1 DEF Ball!Init, Ball!Fresh
  <2> QED BY <2>2, <2>3, <2>4, <2>5 DEF Ball!TypeOK
<1>2. Ball!OneBall BY DEF Ball!Init, Ball!Fresh, Ball!OneBall
<1>3. Ball!FinishedAgrees BY DEF Ball!Init, Ball!Fresh, Ball!FinishedAgrees,
   Ball!Rules!Over
<1> QED BY <1>1, <1>2, <1>3 DEF BallInv

(* A step that prints nothing leaves the last number and the mover alone.  *)
LEMMA SilentFacts ==
  ASSUME UNCHANGED <<start, moves>>
  PROVE  /\ Ball!Last' = Ball!Last /\ Ball!Mover' = Ball!Mover /\ (Ball!Rules!Over)' = Ball!Rules!Over
BY DEF Ball!Last, Ball!Mover, Ball!Rules!Last, Ball!Rules!Mover, Ball!Rules!Over,
   Ball!Rules!Final

LEMMA LoopInv == ASSUME BallInv, NEW t \in Ball!Threads, Ball!Loop(t) PROVE BallInv'
<1>1. Ball!TypeOK' BY DEF Ball!Loop, BallInv, Ball!TypeOK
<1>2. Ball!OneBall'
  <2>1. finished => started
    BY DEF BallInv, Ball!OneBall, Ball!FinishedAgrees, Ball!Rules!Over
  <2>2. pc' \in [Ball!Threads -> {"loop", "begin", "read", "recheck", "compute",
                             "print", "write", "returned"}]
        /\ \A u \in Ball!Threads : u # t => pc'[u] = pc[u]
    BY DEF Ball!Loop, BallInv, Ball!TypeOK
  <2>3. \/ pc'[t] = "returned" /\ finished
        \/ pc'[t] = "begin" /\ ~finished /\ ~started /\ t = 1
        \/ pc'[t] = "read" /\ (t = 1 => started)
    <3>1. pc'[t] = IF finished THEN "returned"
                   ELSE IF t = 1 /\ ~started THEN "begin" ELSE "read"
      BY DEF Ball!Loop, BallInv, Ball!TypeOK
    <3> QED
      BY <3>1
  <2>4. /\ UNCHANGED <<start, started, finished, sock, num, moves>>
        /\ Ball!Last' = Ball!Last /\ Ball!Mover' = Ball!Mover /\ pc[t] = "loop"
    BY SilentFacts DEF Ball!Loop
  <2>5. ~started => Ball!Mover = 1 /\ ~finished
    BY <2>1 DEF BallInv, Ball!OneBall, Ball!Mover, Ball!Rules!Mover
  <2>6. Ball!OneBall /\ (Ball!Rules!Over)' = Ball!Rules!Over
    BY <2>4, SilentFacts DEF BallInv
  <2>7. t = 1 /\ moves = <<>> => ~started
    BY <2>4, <2>6 DEF Ball!OneBall
  <2>8. CASE pc'[t] = "returned" /\ finished
    BY <2>1, <2>2, <2>4, <2>5, <2>6, <2>7, <2>8 DEF Ball!OneBall
  <2>9. CASE pc'[t] = "begin" /\ ~finished /\ ~started /\ t = 1
    BY <2>1, <2>2, <2>4, <2>5, <2>6, <2>9 DEF Ball!OneBall
  <2>10. CASE pc'[t] = "read" /\ (t = 1 => started)
    BY <2>1, <2>2, <2>4, <2>5, <2>6, <2>7, <2>10 DEF Ball!OneBall
  <2> QED
    BY <2>3, <2>8, <2>9, <2>10
<1>3. Ball!FinishedAgrees' BY SilentFacts DEF Ball!Loop, BallInv, Ball!TypeOK,
   Ball!FinishedAgrees
<1> QED BY <1>1, <1>2, <1>3 DEF BallInv

LEMMA BeginInv == ASSUME BallInv, NEW t \in Ball!Threads, Ball!Begin(t) PROVE BallInv'
<1>1. Ball!TypeOK'
  BY Limits DEF Ball!Begin, BallInv, Ball!TypeOK
<1>2. Ball!OneBall'
  BY SilentFacts, Limits
     DEF Ball!Begin, BallInv, Ball!TypeOK, Ball!OneBall, Ball!Last, Ball!Rules!Last
<1>3. Ball!FinishedAgrees' BY SilentFacts DEF Ball!Begin, BallInv, Ball!TypeOK,
   Ball!FinishedAgrees
<1> QED BY <1>1, <1>2, <1>3 DEF BallInv

LEMMA ReadInv == ASSUME BallInv, NEW t \in Ball!Threads, Ball!Read(t) PROVE BallInv'
<1>1. Ball!TypeOK' BY DEF Ball!Read, BallInv, Ball!TypeOK
<1>2. Ball!OneBall'
  <2>1. /\ pc[t] = "read" /\ sock[t] = <<Ball!Last>> /\ t = Ball!Mover /\ started
        /\ pc' = [pc EXCEPT ![t] = "recheck"] /\ pc[Ball!Peer(t)] \in Ball!Idle
        /\ num' = [num EXCEPT ![t] = Ball!Last] /\ sock' = [sock EXCEPT ![t] = <<>>]
        /\ sock[Ball!Peer(t)] = <<>> /\ UNCHANGED <<start, started, finished, moves>>
        /\ Ball!Last' = Ball!Last /\ Ball!Mover' = Ball!Mover /\ (Ball!Rules!Over)' = Ball!Rules!Over
    <3>1. /\ pc[t] = "read" /\ sock[t] = <<Ball!Last>> /\ t = Ball!Mover /\ started
          /\ pc[Ball!Peer(t)] \in Ball!Idle /\ sock[Ball!Peer(t)] = <<>>
      BY DEF Ball!Read, BallInv, Ball!TypeOK, Ball!OneBall
    <3>2. Head(<<Ball!Last>>) = Ball!Last /\ Tail(<<Ball!Last>>) = <<>>
      OBVIOUS
    <3> QED
      BY <3>1, <3>2, SilentFacts DEF Ball!Read
  <2>2. \A u \in Ball!Threads : sock'[u] = <<>>
    BY <2>1 DEF BallInv, Ball!TypeOK
  <2>3. moves # <<>>
    BY <2>1 DEF BallInv, Ball!OneBall
  <2> QED
    BY <2>1, <2>2, <2>3 DEF Ball!OneBall, BallInv, Ball!TypeOK
<1>3. Ball!FinishedAgrees' BY SilentFacts DEF Ball!Read, BallInv, Ball!TypeOK,
   Ball!FinishedAgrees
<1> QED BY <1>1, <1>2, <1>3 DEF BallInv

LEMMA RecheckInv == ASSUME BallInv, NEW t \in Ball!Threads, Ball!Recheck(t) PROVE BallInv'
<1>1. Ball!TypeOK' BY DEF Ball!Recheck, Ball!Rechecked, BallInv, Ball!TypeOK
<1>2. Ball!OneBall' BY SilentFacts DEF Ball!Recheck, Ball!Rechecked, BallInv,
   Ball!TypeOK, Ball!OneBall
<1>3. Ball!FinishedAgrees'
  BY SilentFacts DEF Ball!Recheck, Ball!Rechecked, BallInv, Ball!TypeOK,
     Ball!FinishedAgrees
<1> QED BY <1>1, <1>2, <1>3 DEF BallInv

LEMMA ComputeInv == ASSUME BallInv, NEW t \in Ball!Threads, Ball!Compute(t) PROVE BallInv'
<1>1. Ball!TypeOK' BY DEF Ball!Compute, BallInv, Ball!TypeOK
<1>2. Ball!OneBall'
  <2>1. ~Ball!Rules!Over /\ num[t] = Ball!Last /\ t = Ball!Mover
    BY DEF Ball!Compute, BallInv, Ball!OneBall, Ball!FinishedAgrees
  <2> QED
    BY SilentFacts, LastType, <2>1 DEF Ball!Compute, BallInv, Ball!TypeOK,
       Ball!OneBall, Ball!Rules!Delta
<1>3. Ball!FinishedAgrees'
  BY SilentFacts
     DEF Ball!Compute, Ball!Ends, BallInv, Ball!TypeOK, Ball!OneBall,
        Ball!FinishedAgrees, Ball!Rules!Final
<1> QED BY <1>1, <1>2, <1>3 DEF BallInv

(* A number is printed by the mover, and is the last one plus its delta.   *)
LEMMA PrintFacts ==
  ASSUME BallInv, NEW t \in Ball!Threads, Ball!PrintNum(t)
  PROVE  /\ num[t] = Ball!Last + Ball!Rules!Delta(Ball!Mover) /\ t = Ball!Mover
         /\ Ball!Last' = num[t] /\ Ball!Mover' = Ball!Peer(Ball!Mover) /\ ~Ball!Rules!Over
         /\ (Ball!Rules!Over)' = Ball!Rules!Final(num[t]) /\ moves' # <<>>
<1>1. /\ pc[t] = "print" /\ moves' = Append(moves, num[t])
      /\ UNCHANGED start /\ moves \in Seq(Int) /\ num[t] \in Int
  BY DEF Ball!PrintNum, BallInv, Ball!TypeOK
<1>2. t = Ball!Mover /\ num[t] = Ball!Last + Ball!Rules!Delta(t)
  BY <1>1 DEF BallInv, Ball!OneBall
<1>3. /\ Len(moves') = Len(moves) + 1 /\ moves'[Len(moves')] = num[t]
      /\ moves' # <<>>
  BY <1>1
<1>4. Ball!Last' = num[t]
  BY <1>3 DEF Ball!Last, Ball!Rules!Last
<1>5. Ball!Mover' = Ball!Peer(Ball!Mover)
  <2>1. Len(moves) \in Nat /\ Len(moves') = Len(moves) + 1
    BY <1>1, <1>3
  <2> QED
    BY <2>1 DEF Ball!Mover, Ball!Rules!Mover
<1>6. (Ball!Rules!Over)' = Ball!Rules!Final(num[t])
  BY <1>3, <1>4 DEF Ball!Last, Ball!Rules!Last, Ball!Rules!Over, Ball!Rules!Final
<1>7. ~Ball!Rules!Over
  BY <1>1 DEF BallInv, Ball!OneBall
<1> QED
  BY <1>2, <1>3, <1>4, <1>5, <1>6, <1>7

LEMMA PrintInv == ASSUME BallInv, NEW t \in Ball!Threads, Ball!PrintNum(t) PROVE BallInv'
<1>1. Ball!TypeOK' BY DEF Ball!PrintNum, BallInv, Ball!TypeOK
<1>2. Ball!OneBall'
  <2>1. /\ pc[t] = "print" /\ pc' = [pc EXCEPT ![t] = "write"]
        /\ UNCHANGED <<start, started, finished, sock, num>>
        /\ pc[Ball!Peer(t)] \in Ball!Idle /\ \A u \in Ball!Threads : sock[u] = <<>>
        /\ t = Ball!Mover /\ Ball!Last' = num[t] /\ Ball!Mover' = Ball!Peer(t) /\ moves' # <<>>
    BY PrintFacts DEF Ball!PrintNum, BallInv, Ball!TypeOK, Ball!OneBall
  <2>2. pc[Ball!Peer(t)]' = pc[Ball!Peer(t)] /\ pc'[t] = "write" /\ started
    BY <2>1 DEF BallInv, Ball!TypeOK, Ball!OneBall
  <2> QED
    BY <2>1, <2>2 DEF Ball!OneBall, BallInv, Ball!TypeOK
<1>3. Ball!FinishedAgrees'
  BY PrintFacts DEF Ball!PrintNum, BallInv, Ball!TypeOK, Ball!OneBall,
     Ball!FinishedAgrees, Ball!Rules!Final
<1> QED BY <1>1, <1>2, <1>3 DEF BallInv

LEMMA WriteInv == ASSUME BallInv, NEW t \in Ball!Threads, Ball!Write(t) PROVE BallInv'
<1>1. Ball!TypeOK' BY DEF Ball!Write, Ball!Sent, BallInv, Ball!TypeOK, Ball!OneBall
<1>2. Ball!OneBall'
  <2>1. /\ pc[t] = "write" /\ pc' = [pc EXCEPT ![t] = "loop"]
        /\ UNCHANGED <<start, started, finished, num, moves>>
        /\ Ball!Last' = Ball!Last /\ Ball!Mover' = Ball!Mover /\ Ball!Mover = Ball!Peer(t)
        /\ (Ball!Rules!Over)' = Ball!Rules!Over
        /\ pc[Ball!Peer(t)] \in Ball!Idle /\ \A u \in Ball!Threads : sock[u] = <<>>
    BY SilentFacts, LastType DEF Ball!Write, BallInv, Ball!TypeOK, Ball!OneBall
  <2>3. sock' = [sock EXCEPT ![Ball!Peer(t)] = <<Ball!Last>>]
    <3>1. sock' = [sock EXCEPT ![Ball!Peer(t)] = Append(sock[Ball!Peer(t)], num[t])]
      BY DEF Ball!Write, Ball!Sent
    <3>2. sock[Ball!Peer(t)] = <<>> /\ num[t] = Ball!Last /\ Append(<<>>, Ball!Last) = <<Ball!Last>>
      BY <2>1 DEF BallInv, Ball!OneBall
    <3> QED
      BY <3>1, <3>2
  <2>2. started /\ moves # <<>>
    BY <2>1 DEF BallInv, Ball!TypeOK, Ball!OneBall, Ball!Mover, Ball!Rules!Mover
  <2> QED
    BY <2>1, <2>2, <2>3, LastType DEF Ball!OneBall, BallInv, Ball!TypeOK
<1>3. Ball!FinishedAgrees'
  BY SilentFacts DEF Ball!Write, Ball!Sent, BallInv, Ball!TypeOK,
     Ball!FinishedAgrees
<1> QED BY <1>1, <1>2, <1>3 DEF BallInv

LEMMA BallStutter == ASSUME BallInv, UNCHANGED Ball!vars PROVE BallInv'
BY SilentFacts DEF Ball!vars, BallInv, Ball!TypeOK, Ball!OneBall,
   Ball!FinishedAgrees

LEMMA BallStep == ASSUME BallInv, [Ball!Next]_(Ball!vars) PROVE BallInv'
BY LoopInv, BeginInv, ReadInv, RecheckInv, ComputeInv, PrintInv, WriteInv,
   BallStutter DEF Ball!Next, Ball!Step


-----------------------------------------------------------------------------
(* 14_sync/0_mutex.                                                        *)

HIDE DEF Ball!Threads, Ball!Peer, Ball!Idle, Ball!Goto

(* What a thread's position says of its loop.                              *)
Phases ==
  \A t \in Ring!Threads :
    /\ at[t] \in {"none", "lock"} => turn[t] = 0 /\ arm[t] = -1
    /\ at[t] = "returned" => turn[t] = rounds
    /\ at[t] = "store" \/ arm[t] # -1 => turn[t] < rounds

(* What main's position says of the threads and of the output.             *)
MainKnows ==
  /\ creator = "create" => created < size /\ \A t \in Ring!Threads : t >= created => at[t] = "none"
  /\ \A t \in Ring!Threads : t < joined => at[t] = "returned"
  /\ creator = "join" => joined < size
  /\ creator \in {"print", "returned"} => joined = size
  /\ creator \in {"create", "join"} => cells = <<>>
  /\ creator = "print" => Len(cells) < size

RingInv == Ring!TypeOK /\ Ring!Exclusive /\ Phases /\ MainKnows /\ Ring!Accounted

-----------------------------------------------------------------------------
(* Arithmetic of the ring: a neighbour is a cell, and a is the way there   *)
(* when -a is the way back.                                                *)
LEMMA ModFacts ==
  ASSUME NEW m \in Nat \ {0}
  PROVE  /\ \A x \in 0..m - 1 : x % m = x
         /\ \A x \in m..2 * m - 1 : x % m = x - m
         /\ \A x \in 2 * m..3 * m - 1 : x % m = x - 2 * m
<1>1. ASSUME NEW x \in 0..m - 1 PROVE x % m = x
  OBVIOUS
<1>2. ASSUME NEW x \in m..2 * m - 1 PROVE x % m = x - m
  OBVIOUS
<1>3. ASSUME NEW x \in 2 * m..3 * m - 1 PROVE x % m = x - 2 * m
  OBVIOUS
<1> QED
  BY <1>1, <1>2, <1>3

LEMMA TargetIs ==
  ASSUME size \in Nat \ {0}, NEW e \in Ring!Threads, NEW a \in -1..1
  PROVE  Ring!Target(e, a) = IF e + a < 0 THEN e + a + size
                        ELSE IF e + a >= size THEN e + a - size ELSE e + a
<1> DEFINE x == e + a + size
<1>1. x \in Int /\ 0 <= x /\ x <= 2 * size
  BY DEF Ring!Threads
<1>2. CASE e + a < 0
  <2>1. x \in 0..size - 1
    BY <1>1, <1>2 DEF Ring!Threads
  <2>2. x % size = x
    BY <2>1, ModFacts
  <2> QED
    BY <2>2, <1>2 DEF Ring!Target, Ring!Threads
<1>3. CASE e + a >= 0 /\ e + a < size
  <2>1. x \in size..2 * size - 1
    BY <1>1, <1>3 DEF Ring!Threads
  <2>2. x % size = x - size
    BY <2>1, ModFacts
  <2> QED
    BY <2>2, <1>3 DEF Ring!Target, Ring!Threads
<1>4. CASE e + a >= size
  <2>1. x \in 2 * size..3 * size - 1
    BY <1>1, <1>4 DEF Ring!Threads
  <2>2. x % size = x - 2 * size
    BY <2>1, ModFacts
  <2> QED
    BY <2>2, <1>4 DEF Ring!Target, Ring!Threads
<1> QED
  BY <1>2, <1>3, <1>4 DEF Ring!Threads

LEMMA TargetFacts ==
  ASSUME size \in Nat \ {0}, NEW e \in Ring!Threads, NEW u \in Ring!Threads
  PROVE  /\ \A a \in -1..1 : Ring!Target(e, a) \in Ring!Threads
         /\ Ring!Target(e, 1) = u <=> e = Ring!Target(u, -1)
         /\ Ring!Target(e, -1) = u <=> e = Ring!Target(u, 1)
         /\ Ring!Target(e, 0) = e
<1>1. \A a \in -1..1, c \in Ring!Threads :
        Ring!Target(c, a) = IF c + a < 0 THEN c + a + size
                       ELSE IF c + a >= size THEN c + a - size ELSE c + a
  BY TargetIs
<1>2. ASSUME NEW a \in -1..1 PROVE Ring!Target(e, a) \in Ring!Threads
  BY <1>1, <1>2 DEF Ring!Threads
<1>3. /\ Ring!Target(e, 1) = IF e + 1 >= size THEN e + 1 - size ELSE e + 1
      /\ Ring!Target(e, -1) = IF e - 1 < 0 THEN e - 1 + size ELSE e - 1
      /\ Ring!Target(u, 1) = IF u + 1 >= size THEN u + 1 - size ELSE u + 1
      /\ Ring!Target(u, -1) = IF u - 1 < 0 THEN u - 1 + size ELSE u - 1
      /\ Ring!Target(e, 0) = e
  BY <1>1 DEF Ring!Threads
<1> QED
  BY <1>2, <1>3 DEF Ring!Threads

-----------------------------------------------------------------------------
LEMMA RingInit == Ring!Init => RingInv
<1> SUFFICES ASSUME Ring!Init PROVE RingInv
  OBVIOUS
<1>1. size \in Nat \ {0} /\ rounds \in Nat \ {0}
  BY Bounds DEF Ring!Init, Ring!Fresh
<1>2. Ring!TypeOK
  <2>1. <<>> \in Seq(Nat)
    OBVIOUS
  <2>2. /\ numbers \in [Ring!Threads -> Nat] /\ reg \in [Ring!Threads -> Nat]
        /\ turn \in [Ring!Threads -> 0..rounds] /\ arm \in [Ring!Threads -> -1..1]
        /\ at \in [Ring!Threads -> {"none", "lock", "loop", "store", "returned"}]
    BY <1>1 DEF Ring!Init, Ring!Fresh
  <2> QED
    BY <1>1, <2>1, <2>2 DEF Ring!Init, Ring!Fresh, Ring!TypeOK
<1>3. Ring!Exclusive /\ Phases
  BY DEF Ring!Init, Ring!Fresh, Ring!Exclusive, Phases
<1>4. MainKnows
  BY <1>1 DEF Ring!Init, Ring!Fresh, MainKnows, Ring!Threads
<1>5. Ring!Accounted
  <2>1. ASSUME NEW e \in Ring!Threads, NEW a \in -1..1 PROVE Ring!Rounds(e, a) = 0
    BY DEF Ring!Init, Ring!Fresh, Ring!Rounds
  <2>2. ASSUME NEW e \in Ring!Threads
        PROVE  numbers[e] = 99 * Ring!Rounds(Ring!Target(e, 1), -1) + 100 * Ring!Rounds(e, 0)
                              + 101 * Ring!Rounds(Ring!Target(e, -1), 1)
    <3>1. Ring!Target(e, 1) \in Ring!Threads /\ Ring!Target(e, -1) \in Ring!Threads
      BY <1>1, TargetFacts
    <3>2. Ring!Rounds(Ring!Target(e, 1), -1) = 0 /\ Ring!Rounds(e, 0) = 0 /\ Ring!Rounds(Ring!Target(e, -1), 1) = 0
      BY <2>1, <3>1
    <3> QED
      BY <3>2 DEF Ring!Init, Ring!Fresh
  <2>3. 1..Len(cells) = {}
    BY DEF Ring!Init, Ring!Fresh
  <2> QED
    BY <2>2, <2>3 DEF Ring!Accounted
<1> QED
  BY <1>2, <1>3, <1>4, <1>5 DEF RingInv

-----------------------------------------------------------------------------
(* Steps that leave the cells, the loop variables and the output alone.    *)
LEMMA AccountedKept ==
  ASSUME RingInv, UNCHANGED <<rounds, size, numbers, turn, arm, cells>>
  PROVE  Ring!Accounted'
BY DEF RingInv, Ring!Accounted, Ring!Rounds, Ring!Target, Ring!Threads

LEMMA LockInv == ASSUME RingInv, NEW t \in Ring!Threads, Ring!Lock(t) PROVE RingInv'
<1>1. /\ at[t] = "lock" /\ mutex = Ring!Free /\ mutex' = t /\ at' = [at EXCEPT ![t] = "loop"]
      /\ UNCHANGED <<rounds, size, numbers, turn, arm, reg, creator, created, joined, cells>>
  BY DEF Ring!Lock, Ring!Enter
<1>2. Ring!TypeOK'
  BY <1>1 DEF RingInv, Ring!TypeOK, Ring!Threads
<1>3. Ring!Exclusive'
  <2>1. \A u \in Ring!Threads : at[u] \notin {"loop", "store"}
    BY <1>1 DEF RingInv, Ring!Exclusive, Ring!Free, Ring!Threads
  <2> QED
    BY <1>1, <2>1 DEF RingInv, Ring!TypeOK, Ring!Exclusive, Ring!Threads
<1>4. Phases'
  BY <1>1 DEF RingInv, Ring!TypeOK, Phases, Ring!Threads
<1>5. MainKnows'
  BY <1>1 DEF RingInv, Ring!TypeOK, MainKnows, Ring!Threads
<1> QED
  BY <1>1, <1>2, <1>3, <1>4, <1>5, AccountedKept DEF RingInv

LEMMA LoadInv == ASSUME RingInv, NEW t \in Ring!Threads, Ring!Load(t) PROVE RingInv'
<1>1. /\ at[t] = "loop" /\ turn[t] < rounds /\ at' = [at EXCEPT ![t] = "store"]
      /\ reg' = [reg EXCEPT ![t] = numbers[Ring!Target(t, arm[t])]]
      /\ UNCHANGED <<rounds, size, numbers, mutex, turn, arm, creator, created, joined, cells>>
  BY DEF Ring!Load
<1>2. numbers[Ring!Target(t, arm[t])] \in Nat
  <2>1. size \in Nat \ {0} /\ arm[t] \in -1..1 /\ numbers \in [Ring!Threads -> Nat]
    BY Bounds DEF RingInv, Ring!TypeOK
  <2>2. Ring!Target(t, arm[t]) \in Ring!Threads
    BY <2>1, TargetFacts
  <2> QED
    BY <2>1, <2>2
<1>3. Ring!TypeOK'
  BY <1>1, <1>2 DEF RingInv, Ring!TypeOK, Ring!Threads
<1>4. Ring!Exclusive'
  BY <1>1 DEF RingInv, Ring!TypeOK, Ring!Exclusive, Ring!Threads, Ring!Target
<1>5. Phases'
  BY <1>1 DEF RingInv, Ring!TypeOK, Phases, Ring!Threads
<1>6. MainKnows'
  BY <1>1 DEF RingInv, Ring!TypeOK, MainKnows, Ring!Threads
<1> QED
  BY <1>1, <1>3, <1>4, <1>5, <1>6, AccountedKept DEF RingInv

LEMMA UnlockInv == ASSUME RingInv, NEW t \in Ring!Threads, Ring!Unlock(t) PROVE RingInv'
<1>1. /\ at[t] = "loop" /\ turn[t] = rounds /\ mutex' = Ring!Free /\ at' = [at EXCEPT ![t] = "returned"]
      /\ UNCHANGED <<rounds, size, numbers, turn, arm, reg, creator, created, joined, cells>>
  BY DEF Ring!Unlock
<1>2. Ring!TypeOK'
  BY <1>1 DEF RingInv, Ring!TypeOK, Ring!Threads, Ring!Free
<1>3. Ring!Exclusive'
  <2>1. \A u \in Ring!Threads : u # t => at[u] \notin {"loop", "store"}
    BY <1>1 DEF RingInv, Ring!Exclusive
  <2> QED
    BY <1>1, <2>1 DEF RingInv, Ring!TypeOK, Ring!Exclusive, Ring!Threads
<1>4. Phases'
  BY <1>1 DEF RingInv, Ring!TypeOK, Phases, Ring!Threads
<1>5. MainKnows'
  BY <1>1 DEF RingInv, Ring!TypeOK, MainKnows, Ring!Threads
<1> QED
  BY <1>1, <1>2, <1>3, <1>4, <1>5, AccountedKept DEF RingInv

-----------------------------------------------------------------------------
(* A store counts for one arm of one thread.                               *)
LEMMA RoundsStored ==
  ASSUME RingInv, NEW t \in Ring!Threads, Ring!Store(t), NEW u \in Ring!Threads, NEW a \in -1..1
  PROVE  Ring!Rounds(u, a)' = Ring!Rounds(u, a) + IF u = t /\ a = arm[t] THEN 1 ELSE 0
<1>1. /\ arm' = [arm EXCEPT ![t] = Ring!NextArm(arm[t])]
      /\ turn' = [turn EXCEPT ![t] = IF arm[t] = 1 THEN turn[t] + 1 ELSE turn[t]]
      /\ arm \in [Ring!Threads -> -1..1] /\ turn \in [Ring!Threads -> 0..rounds] /\ rounds \in Nat
  BY Bounds DEF Ring!Store, RingInv, Ring!TypeOK
<1>2. CASE u # t
  BY <1>1, <1>2 DEF Ring!Rounds
<1>3. CASE u = t
  <2>1. arm'[t] = Ring!NextArm(arm[t]) /\ turn'[t] = IF arm[t] = 1 THEN turn[t] + 1 ELSE turn[t]
    BY <1>1
  <2>2. arm[t] \in -1..1 /\ turn[t] \in Int
    BY <1>1
  <2> QED
    BY <2>1, <2>2, <1>3 DEF Ring!Rounds, Ring!NextArm
<1> QED
  BY <1>2, <1>3

LEMMA StoreInv == ASSUME RingInv, NEW t \in Ring!Threads, Ring!Store(t) PROVE RingInv'
<1> DEFINE e0 == Ring!Target(t, arm[t])
<1>1. /\ at[t] = "store" /\ numbers' = [numbers EXCEPT ![e0] = reg[t] + Ring!Step(arm[t])]
      /\ arm' = [arm EXCEPT ![t] = Ring!NextArm(arm[t])]
      /\ turn' = [turn EXCEPT ![t] = IF arm[t] = 1 THEN turn[t] + 1 ELSE turn[t]]
      /\ at' = [at EXCEPT ![t] = "loop"]
      /\ UNCHANGED <<rounds, size, mutex, reg, creator, created, joined, cells>>
  BY DEF Ring!Store
<1>2. /\ size \in Nat \ {0} /\ rounds \in Nat /\ arm[t] \in -1..1 /\ turn[t] \in 0..rounds /\ turn[t] < rounds
      /\ reg[t] = numbers[e0] /\ mutex = t
  BY <1>1, Bounds DEF RingInv, Ring!TypeOK, Ring!Exclusive, Phases
<1>3. e0 \in Ring!Threads /\ numbers[e0] \in Nat
  BY <1>2, TargetFacts DEF RingInv, Ring!TypeOK
<1>4. Ring!TypeOK'
  <2>1. reg[t] + Ring!Step(arm[t]) \in Nat /\ Ring!NextArm(arm[t]) \in -1..1
    BY <1>2, <1>3 DEF Ring!Step, Ring!NextArm
  <2>2. (IF arm[t] = 1 THEN turn[t] + 1 ELSE turn[t]) \in 0..rounds
    BY <1>2
  <2>3. /\ numbers' \in [Ring!Threads -> Nat] /\ arm' \in [Ring!Threads -> -1..1]
        /\ turn' \in [Ring!Threads -> 0..rounds]
    BY <1>1, <2>1, <2>2 DEF RingInv, Ring!TypeOK
  <2> QED
    BY <1>1, <2>3 DEF RingInv, Ring!TypeOK, Ring!Threads
<1>5. Ring!Exclusive'
  <2>1. \A u \in Ring!Threads : u # t => at[u] \notin {"loop", "store"}
    BY <1>2 DEF RingInv, Ring!Exclusive
  <2> QED
    BY <1>1, <1>2, <2>1 DEF RingInv, Ring!TypeOK, Ring!Exclusive, Ring!Threads
<1>6. Phases'
  <2>1. \A u \in Ring!Threads : u # t => at'[u] = at[u] /\ arm'[u] = arm[u] /\ turn'[u] = turn[u]
    BY <1>1 DEF RingInv, Ring!TypeOK
  <2>2. /\ at'[t] = "loop"
        /\ arm'[t] = Ring!NextArm(arm[t]) /\ turn'[t] = IF arm[t] = 1 THEN turn[t] + 1 ELSE turn[t]
    BY <1>1 DEF RingInv, Ring!TypeOK
  <2>3. arm'[t] # -1 => turn'[t] < rounds
    BY <1>2, <2>2 DEF Ring!NextArm
  <2> QED
    BY <1>1, <2>1, <2>2, <2>3 DEF RingInv, Phases, Ring!Threads
<1>7. MainKnows'
  BY <1>1 DEF RingInv, Ring!TypeOK, MainKnows, Ring!Threads
<1>8. Ring!Accounted'
  <2>1. ASSUME NEW e \in Ring!Threads
        PROVE  numbers'[e] = 99 * Ring!Rounds(Ring!Target(e, 1), -1)' + 100 * Ring!Rounds(e, 0)'
                               + 101 * Ring!Rounds(Ring!Target(e, -1), 1)'
    <3> DEFINE before == Ring!Target(e, 1)
               after == Ring!Target(e, -1)
    <3>1. /\ before \in Ring!Threads /\ after \in Ring!Threads
          /\ before = t <=> e = Ring!Target(t, -1)
          /\ after = t <=> e = Ring!Target(t, 1)
          /\ Ring!Target(t, 0) = t
      BY <1>2, TargetFacts
    <3>2. UNCHANGED <<before, after>>
      BY <1>1 DEF Ring!Target
    <3>3. /\ Ring!Rounds(before, -1)' = Ring!Rounds(before, -1) + IF before = t /\ arm[t] = -1 THEN 1 ELSE 0
          /\ Ring!Rounds(e, 0)' = Ring!Rounds(e, 0) + IF e = t /\ arm[t] = 0 THEN 1 ELSE 0
          /\ Ring!Rounds(after, 1)' = Ring!Rounds(after, 1) + IF after = t /\ arm[t] = 1 THEN 1 ELSE 0
      BY <3>1, <3>2, RoundsStored
    <3>4. numbers[e] = 99 * Ring!Rounds(before, -1) + 100 * Ring!Rounds(e, 0) + 101 * Ring!Rounds(after, 1)
      BY DEF RingInv, Ring!Accounted
    <3>5. numbers'[e] = numbers[e] + IF e = e0 THEN 100 + arm[t] ELSE 0
      BY <1>1, <1>2, <1>3 DEF RingInv, Ring!TypeOK, Ring!Step
    <3>6. /\ Ring!Rounds(before, -1) \in Int /\ Ring!Rounds(e, 0) \in Int /\ Ring!Rounds(after, 1) \in Int
          /\ numbers[e] \in Int
      <4>1. \A u \in Ring!Threads : turn[u] \in Int /\ arm[u] \in Int /\ numbers[u] \in Int
        BY <1>2 DEF RingInv, Ring!TypeOK
      <4> QED
        BY <3>1, <4>1 DEF Ring!Rounds
    <3>7. CASE arm[t] = -1
      BY <3>1, <3>3, <3>4, <3>5, <3>6, <3>7
    <3>8. CASE arm[t] = 0
      BY <3>1, <3>3, <3>4, <3>5, <3>6, <3>8
    <3>9. CASE arm[t] = 1
      BY <3>1, <3>3, <3>4, <3>5, <3>6, <3>9
    <3> QED
      BY <1>2, <3>7, <3>8, <3>9
  <2> QED
    BY <1>1, <2>1 DEF RingInv, Ring!Accounted, Ring!Threads
<1> QED
  BY <1>4, <1>5, <1>6, <1>7, <1>8 DEF RingInv

-----------------------------------------------------------------------------
LEMMA CreateInv == ASSUME RingInv, Ring!Create PROVE RingInv'
<1>1. /\ creator = "create" /\ at' = [at EXCEPT ![created] = "lock"] /\ created' = created + 1
      /\ creator' = IF created' = size THEN "join" ELSE "create"
      /\ UNCHANGED <<rounds, size, numbers, mutex, turn, arm, reg, joined, cells>>
  BY DEF Ring!Create
<1>2. /\ created \in Ring!Threads /\ at[created] = "none" /\ created \in Nat /\ size \in Nat
      /\ joined <= created
  <2>1. created \in Ring!Threads /\ created \in Nat /\ size \in Nat /\ joined \in 0..size
    BY <1>1, Bounds DEF RingInv, Ring!TypeOK, MainKnows, Ring!Threads
  <2>2. at[created] = "none"
    BY <1>1, <2>1 DEF RingInv, MainKnows
  <2> QED
    BY <2>1, <2>2 DEF RingInv, MainKnows
<1>3. Ring!TypeOK'
  <2>1. created + 1 \in 0..size
    BY <1>2 DEF Ring!Threads
  <2>2. at' \in [Ring!Threads -> {"none", "lock", "loop", "store", "returned"}]
    BY <1>1, <1>2 DEF RingInv, Ring!TypeOK
  <2> QED
    BY <1>1, <2>1, <2>2 DEF RingInv, Ring!TypeOK, Ring!Threads
<1>4. Ring!Exclusive'
  BY <1>1, <1>2 DEF RingInv, Ring!TypeOK, Ring!Exclusive, Ring!Threads, Ring!Target
<1>5. Phases'
  BY <1>1, <1>2 DEF RingInv, Ring!TypeOK, Phases, Ring!Threads
<1>6. MainKnows'
  <2>1. created' = size => joined < size
    BY <1>1, <1>2 DEF RingInv, Ring!TypeOK
  <2> QED
    BY <1>1, <1>2, <2>1 DEF RingInv, Ring!TypeOK, MainKnows, Ring!Threads
<1> QED
  BY <1>1, <1>3, <1>4, <1>5, <1>6, AccountedKept DEF RingInv

LEMMA JoinInv == ASSUME RingInv, Ring!Join PROVE RingInv'
<1>1. /\ creator = "join" /\ joined \in Ring!Threads /\ at[joined] = "returned" /\ joined' = joined + 1
      /\ creator' = IF joined' = size THEN "print" ELSE "join"
      /\ UNCHANGED <<rounds, size, numbers, mutex, at, turn, arm, reg, created, cells>>
  BY DEF Ring!Join, Ring!Joinable, Ring!threadVars
<1>2. size \in Nat \ {0} /\ cells = <<>> /\ joined \in 0..size
  BY <1>1, Bounds DEF RingInv, Ring!TypeOK, MainKnows
<1>3. Ring!TypeOK'
  <2>1. joined + 1 \in 0..size
    BY <1>1, <1>2 DEF Ring!Threads
  <2> QED
    BY <1>1, <2>1 DEF RingInv, Ring!TypeOK, Ring!Threads
<1>4. Ring!Exclusive' /\ Phases'
  BY <1>1 DEF RingInv, Ring!Exclusive, Phases, Ring!Threads, Ring!Target
<1>5. MainKnows'
  BY <1>1, <1>2 DEF RingInv, MainKnows, Ring!Threads
<1> QED
  BY <1>1, <1>3, <1>4, <1>5, AccountedKept DEF RingInv

(* All threads have returned: a cell holds 99 N + 100 N + 101 N.           *)
LEMMA PrintCellInv == ASSUME RingInv, Ring!PrintCell PROVE RingInv'
<1> DEFINE n == Len(cells)
<1>1. /\ creator = "print" /\ cells' = Append(cells, numbers[n])
      /\ creator' = IF Len(cells') = size THEN "returned" ELSE "print"
      /\ UNCHANGED <<rounds, size, numbers, mutex, at, turn, arm, reg, created, joined>>
  BY DEF Ring!PrintCell, Ring!threadVars
<1>2. /\ n \in Ring!Threads /\ size \in Nat \ {0} /\ rounds \in Nat /\ joined = size
      /\ cells \in Seq(Nat) /\ numbers[n] \in Nat
  BY <1>1, Bounds DEF RingInv, Ring!TypeOK, MainKnows, Ring!Threads
<1>3. Len(cells') = n + 1 /\ cells' \in Seq(Nat)
  BY <1>1, <1>2
<1>4. Ring!TypeOK'
  BY <1>1, <1>3 DEF RingInv, Ring!TypeOK, Ring!Threads
<1>5. Ring!Exclusive' /\ Phases'
  BY <1>1 DEF RingInv, Ring!Exclusive, Phases, Ring!Threads, Ring!Target
<1>6. MainKnows'
  BY <1>1, <1>2, <1>3 DEF RingInv, MainKnows, Ring!Threads
<1>7. numbers[n] = 300 * rounds
  <2>1. ASSUME NEW t \in Ring!Threads, NEW a \in -1..1 PROVE Ring!Rounds(t, a) = rounds
    <3>1. at[t] = "returned" /\ turn[t] = rounds
      BY <1>2 DEF RingInv, MainKnows, Phases, Ring!Threads
    <3>2. arm[t] = -1
      BY <3>1, <1>2 DEF RingInv, Phases
    <3> QED
      BY <3>1, <3>2, <1>2 DEF Ring!Rounds
  <2>2. /\ Ring!Rounds(Ring!Target(n, 1), -1) = rounds /\ Ring!Rounds(n, 0) = rounds
        /\ Ring!Rounds(Ring!Target(n, -1), 1) = rounds
    BY <1>2, <2>1, TargetFacts
  <2>3. numbers[n] = 99 * rounds + 100 * rounds + 101 * rounds
    BY <1>2, <2>2 DEF RingInv, Ring!Accounted
  <2> QED
    BY <2>3, <1>2
<1>8. Ring!Accounted'
  <2>1. \A e \in Ring!Threads' :
          (numbers[e] = 99 * Ring!Rounds(Ring!Target(e, 1), -1) + 100 * Ring!Rounds(e, 0)
                          + 101 * Ring!Rounds(Ring!Target(e, -1), 1))'
    BY <1>1 DEF RingInv, Ring!Accounted, Ring!Rounds, Ring!Target, Ring!Threads
  <2>2. \A m \in 1..Len(cells') : cells'[m] = 300 * rounds
    BY <1>1, <1>2, <1>3, <1>7 DEF RingInv, Ring!Accounted
  <2> QED
    BY <1>1, <2>1, <2>2 DEF Ring!Accounted
<1> QED
  BY <1>4, <1>5, <1>6, <1>8 DEF RingInv

LEMMA RingStutter == ASSUME RingInv, UNCHANGED Ring!vars PROVE RingInv'
<1>1. Ring!TypeOK'
  BY DEF Ring!vars, Ring!threadVars, RingInv, Ring!TypeOK, Ring!Threads
<1>2. Ring!Exclusive' /\ Phases'
  BY DEF Ring!vars, Ring!threadVars, RingInv, Ring!Exclusive, Phases, Ring!Target,
     Ring!Threads
<1>3. MainKnows'
  BY DEF Ring!vars, Ring!threadVars, RingInv, MainKnows, Ring!Threads
<1>4. Ring!Accounted'
  BY AccountedKept DEF Ring!vars, Ring!threadVars
<1> QED
  BY <1>1, <1>2, <1>3, <1>4 DEF RingInv

LEMMA RingStep == ASSUME RingInv, [Ring!Next]_(Ring!vars) PROVE RingInv'
BY LockInv, LoadInv, StoreInv, UnlockInv, CreateInv, JoinInv, PrintCellInv,
   RingStutter
   DEF Ring!Next, Ring!Work, Ring!Main

-----------------------------------------------------------------------------
(* Each program in its own behaviours, the others as they were.            *)
Steps ==
  \/ CondVar /\ [Cond!Next]_(Cond!vars)
  \/ PingPong /\ [Ball!Next]_(Ball!vars)
  \/ MutexRing /\ [Ring!Next]_(Ring!vars)
  \/ UNCHANGED vars

LEMMA StepsOnly == [Next]_vars => Steps
BY DEF Next, Steps

PartsInv ==
  /\ IF part = "condvar" THEN CondInv ELSE Cond!Unmounted
  /\ IF part = "ping_pong" THEN BallInv ELSE Ball!Unmounted
  /\ IF part = "mutex" THEN RingInv ELSE Ring!Unmounted

LEMMA PartsInit == Init => PartsInv
<1> SUFFICES ASSUME Init PROVE PartsInv
  OBVIOUS
<1>1. part = "condvar" => CondInv
  BY CondInit, HandedInit DEF Init, CondInv, QuietInv
<1>2. part = "ping_pong" => BallInv
  BY BallInit DEF Init
<1>3. part = "mutex" => RingInv
  BY RingInit DEF Init
<1> QED
  BY <1>1, <1>2, <1>3 DEF Init, PartsInv

LEMMA CondStep == ASSUME CondInv, [Cond!Next]_(Cond!vars) PROVE CondInv'
BY QuietStep, CondType, QuietFalls, OwnershipStep, HandedStep DEF CondInv

(* A program that does not run keeps its state.                            *)
LEMMA CondRest == ASSUME Cond!Unmounted, UNCHANGED primes PROVE Cond!Unmounted'
BY DEF primes, Cond!Unmounted, Cond!Init, Cond!Uninitialised

LEMMA BallRest == ASSUME Ball!Unmounted, UNCHANGED game PROVE Ball!Unmounted'
BY DEF game, Ball!Unmounted, Ball!Fresh

LEMMA RingRest == ASSUME Ring!Unmounted, UNCHANGED ring PROVE Ring!Unmounted'
BY DEF ring, Ring!Unmounted, Ring!Fresh, Ring!Threads, Ring!Free

LEMMA SameVars ==
  /\ UNCHANGED primes => UNCHANGED Cond!vars
  /\ UNCHANGED game => UNCHANGED Ball!vars
  /\ UNCHANGED ring => UNCHANGED Ring!vars
BY DEF primes, game, ring, Cond!vars, Ball!vars, Ring!vars, Ring!threadVars

LEMMA PartsStep == ASSUME PartsInv, [Next]_vars PROVE PartsInv'
<1>1. CASE CondVar /\ [Cond!Next]_(Cond!vars)
  BY <1>1, CondStep, BallRest, RingRest DEF CondVar, PartsInv
<1>2. CASE PingPong /\ [Ball!Next]_(Ball!vars)
  BY <1>2, BallStep, CondRest, RingRest DEF PingPong, PartsInv
<1>3. CASE MutexRing /\ [Ring!Next]_(Ring!vars)
  BY <1>3, RingStep, CondRest, BallRest DEF MutexRing, PartsInv
<1>4. CASE UNCHANGED vars
  <2>1. UNCHANGED part /\ UNCHANGED primes /\ UNCHANGED game /\ UNCHANGED ring
    BY <1>4 DEF vars
  <2> QED
    BY <2>1, SameVars, CondStep, BallStep, RingStep, CondRest, BallRest, RingRest
       DEF PartsInv
<1> QED
  BY <1>1, <1>2, <1>3, <1>4, StepsOnly DEF Steps

LEMMA PartsAlways == Spec => []PartsInv
<1> QED
  BY PartsInit, PartsStep, PTL DEF Spec

-----------------------------------------------------------------------------
(* However the threads of 14_sync/1 are woken, they are never both inside  *)
(* the mutex.                                                              *)
THEOREM MutualExclusion == Spec => []NoRace
<1>1. PartsInv => NoRace
  <2>1. CondInv => NoRace
    BY DEF CondInv, Ownership, NoRace, Cond!NoRace
  <2>2. Cond!Unmounted => NoRace
    BY DEF Cond!Unmounted, Cond!Init, NoRace, Cond!NoRace
  <2> QED
    BY <2>1, <2>2 DEF PartsInv
<1> QED
  BY <1>1, PartsAlways, PTL

(* As long as every wait returned on a signal the output of 14_sync/1 is   *)
(* the increasing list of the numbers from A on that is_prime takes; and   *)
(* whatever wakes the threads it holds no other number and never falls.    *)
THEOREM PrimesInOrder == Spec => []EveryPrimeOnce
<1>1. PartsInv => EveryPrimeOnce
  <2>1. CondInv => EveryPrimeOnce
    BY DEF CondInv, QuietInv, Handed, EveryPrimeOnce, Cond!EveryPrimeOnce
  <2>2. Cond!Unmounted => EveryPrimeOnce
    <3>1. Cond!Init => QuietInv /\ Handed
      BY CondInit, HandedInit
    <3> QED
      BY <3>1 DEF Cond!Unmounted, QuietInv, Handed, EveryPrimeOnce, Cond!EveryPrimeOnce
  <2> QED
    BY <2>1, <2>2 DEF PartsInv
<1> QED
  BY <1>1, PartsAlways, PTL

(* Until a wait returns without a signal, the threads of 14_sync/1 sleep    *)
(* in turn, and every prime below the candidate has been printed.          *)
THEOREM HandOverKept ==
  Spec => [](part = "condvar" =>
               Cond!TypeOK /\ (quiet => Cond!Alternation /\ Cond!Frontier))
<1>1. PartsInv => (part = "condvar" =>
                     Cond!TypeOK /\ (quiet => Cond!Alternation /\ Cond!Frontier))
  BY DEF PartsInv, CondInv, QuietInv, Strict
<1> QED
  BY <1>1, PartsAlways, PTL

(* For every limit and every start one number is in the game, held by one  *)
(* thread or lying in the mover's socket.                                  *)
THEOREM OneBallAlways == Spec => []OneBall
<1>1. PartsInv => OneBall
  <2>1. BallInv => OneBall
    BY DEF BallInv, OneBall
  <2>2. Ball!Unmounted => OneBall
    BY DEF Ball!Unmounted, Ball!Fresh, OneBall, Ball!OneBall, Ball!Threads,
       Ball!Peer, Ball!Idle
  <2> QED
    BY <2>1, <2>2 DEF PartsInv
<1> QED
  BY <1>1, PartsAlways, PTL

(* The flag of 13_pthreads_basics/2 tells the state of the game.           *)
THEOREM FlagTellsState ==
  Spec => [](part = "ping_pong" => Ball!TypeOK /\ Ball!FinishedAgrees)
<1>1. PartsInv => (part = "ping_pong" => Ball!TypeOK /\ Ball!FinishedAgrees)
  BY DEF PartsInv, BallInv
<1> QED
  BY <1>1, PartsAlways, PTL

(* The threads of 13_pthreads_basics/2 print exactly the moves of the game. *)
THEOREM Refines == Spec => PlaysTheGame
<1>1. Init => Ball!Rules!Init
  <2>1. Ball!Init => Ball!Rules!Init
    BY Limits DEF Ball!Init, Ball!Fresh, Ball!Rules!Init
  <2>2. Ball!Unmounted => Ball!Rules!Init
    BY Limits DEF Ball!Unmounted, Ball!Fresh, Ball!Rules!Init
  <2> QED
    BY <2>1, <2>2 DEF Init
<1>2. ASSUME PartsInv, [Next]_vars PROVE [Ball!Rules!Move]_<<start, moves>>
  <2>1. ASSUME BallInv, NEW t \in Ball!Threads, Ball!PrintNum(t)
        PROVE Ball!Rules!Move
    BY <2>1, PrintFacts DEF Ball!PrintNum, Ball!Rules!Move, Ball!Last, Ball!Mover
  <2>2. ASSUME NEW t \in Ball!Threads, Ball!Step(t), ~Ball!PrintNum(t)
        PROVE  UNCHANGED <<start, moves>>
    BY <2>2 DEF Ball!Step, Ball!Loop, Ball!Begin, Ball!Read, Ball!Recheck,
       Ball!Compute, Ball!Write
  <2>3. CASE PingPong /\ [Ball!Next]_(Ball!vars)
    <3>1. BallInv
      BY <1>2, <2>3 DEF PingPong, PartsInv
    <3> QED
      BY <2>3, <3>1, <2>1, <2>2 DEF Ball!Next, Ball!vars
  <2>4. CASE UNCHANGED game
    BY <2>4 DEF game
  <2> QED
    BY <1>2, <2>3, <2>4, StepsOnly DEF Steps, CondVar, MutexRing, vars
<1> QED
  BY <1>1, <1>2, PartsAlways, PTL DEF Spec, PlaysTheGame, Ball!PlaysTheGame,
     Ball!Rules!Spec

(* For any number of threads and of rounds, no addition to a cell is lost  *)
(* or made twice, and main prints 3 N for every cell.                      *)
THEOREM NothingLostInRing == Spec => []Accounted
<1>1. PartsInv => Accounted
  <2>1. RingInv => Accounted
    BY DEF RingInv, Accounted
  <2>2. Ring!Unmounted => Accounted
    BY DEF Ring!Unmounted, Ring!Fresh, Accounted, Ring!Accounted, Ring!Threads
  <2> QED
    BY <2>1, <2>2 DEF PartsInv
<1> QED
  BY <1>1, PartsAlways, PTL

(* No two threads of 14_sync/0 are between lock and unlock, and the value  *)
(* a thread has loaded is the cell's until it is stored.                   *)
THEOREM RingExclusive == Spec => [](part = "mutex" => Ring!TypeOK /\ Ring!Exclusive)
<1>1. PartsInv => (part = "mutex" => Ring!TypeOK /\ Ring!Exclusive)
  BY DEF PartsInv, RingInv
<1> QED
  BY <1>1, PartsAlways, PTL
=============================================================================
