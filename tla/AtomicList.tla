---------------------------- MODULE AtomicList ----------------------------
(***************************************************************************)
(* 14_sync/2_atomic: N threads push K elements each on one singly linked   *)
(* list.  A push swaps itself into head->next atomically and only then     *)
(* stores the old successor in its own next: in between, the list is cut   *)
(* behind the new element.  Main joins all threads and walks the list,     *)
(* printing and freeing it.                                                *)
(***************************************************************************)
EXTENDS Integers, Sequences

CONSTANTS N, K,  \* the arguments
          Word   \* values of uint32_t: 2^32

ASSUME ArgsAssumption == N \in Nat /\ K \in Nat /\ Word \in Nat \ {0}

Threads == 0..N - 1

(* Elements are named by the thread that allocates them and their value.   *)
head == <<-1, 0>>
end  == <<-1, 1>>
null == <<-1, 2>>
Node == Threads \X Nat

VARIABLES
  next,     \* the next field of every allocated element
  freed,    \* elements given back to free
  pc, i,    \* the inserters: where they are, their loop variable
  old,      \* what the exchange returned, still to be stored in new->next
  main, created, prev, pointer, printed,
  order     \* history: the elements in the order of their exchanges

inserterVars == <<next, pc, i, old, order>>
mainVars == <<main, created, prev, pointer, printed, freed>>
vars == <<inserterVars, mainVars>>

(* i * k and k * (i + 1) are computed in uint32_t, then widened.           *)
From(t) == (t * K) % Word
ToExclusive(t) == (K * (t + 1) - 1) % Word
To(t) == (K * (t + 1)) % Word

Init ==
  /\ next = [e \in {head, end} |-> IF e = head THEN end ELSE null]
  /\ freed = {} /\ order = <<>>
  /\ pc = [t \in Threads |-> "none"]
  /\ i = [t \in Threads |-> From(t)]
  /\ old = [t \in Threads |-> null]
  /\ main = "create" /\ created = 0
  /\ prev = null /\ pointer = null /\ printed = <<>>

New(t) == <<t, i[t]>>

-----------------------------------------------------------------------------
(* An inserter.                                                            *)

(* calloc: new->next starts as a null pointer.                             *)
Allocate(t) ==
  /\ pc[t] = "loop" /\ i[t] < To(t)
  /\ next' = [e \in DOMAIN next \cup {New(t)} |->
                IF e = New(t) THEN null ELSE next[e]]
  /\ pc' = [pc EXCEPT ![t] = "exchange"]
  /\ UNCHANGED <<i, old, order, mainVars>>

Exchange(t) ==
  /\ pc[t] = "exchange"
  /\ old' = [old EXCEPT ![t] = next[head]]
  /\ next' = [next EXCEPT ![head] = New(t)]
  /\ order' = Append(order, New(t))
  /\ pc' = [pc EXCEPT ![t] = "link"]
  /\ UNCHANGED <<i, mainVars>>

(* Loading head->next after the exchange instead of before.                *)
LinkedLate(t) == [next EXCEPT ![New(t)] = next[head]]
Linked(t) == [next EXCEPT ![New(t)] = old[t]]

Link(t) ==
  /\ pc[t] = "link"
  /\ next' = Linked(t)
  /\ i' = [i EXCEPT ![t] = @ + 1]
  /\ pc' = [pc EXCEPT ![t] = "loop"]
  /\ UNCHANGED <<old, order, mainVars>>

Return(t) ==
  /\ pc[t] = "loop" /\ i[t] >= To(t)
  /\ pc' = [pc EXCEPT ![t] = "returned"]
  /\ UNCHANGED <<next, i, old, order, mainVars>>

-----------------------------------------------------------------------------
(* main                                                                    *)

Create ==
  /\ main = "create" /\ created < N
  /\ pc' = [pc EXCEPT ![created] = "loop"]
  /\ created' = created + 1
  /\ UNCHANGED <<next, i, old, order, main, prev, pointer, printed, freed>>

JoinableSome == \E t \in Threads : pc[t] = "returned"
Joinable == \A t \in Threads : pc[t] = "returned"

(* All joins return; the walk starts.                                      *)
StartWalk ==
  /\ main = "create" /\ created = N /\ Joinable
  /\ main' = "walk" /\ prev' = head /\ pointer' = next[head]
  /\ UNCHANGED <<inserterVars, created, printed, freed>>

FreedEarly == freed \cup {pointer}
Freed == freed \cup {prev}

(* The walk goes on only while pointer is still an element.                *)
Walk ==
  /\ main = "walk" /\ pointer # end
  /\ pointer \in DOMAIN next \ freed
  /\ freed' = Freed
  /\ printed' = Append(printed, pointer[2])
  /\ prev' = pointer /\ pointer' = next[pointer]
  /\ UNCHANGED <<inserterVars, main, created>>

FinishWalk ==
  /\ main = "walk" /\ pointer = end
  /\ freed' = freed \cup {prev, end}
  /\ main' = "returned"
  /\ UNCHANGED <<inserterVars, created, prev, pointer, printed>>

-----------------------------------------------------------------------------
Insert(t) == Allocate(t) \/ Exchange(t) \/ Link(t) \/ Return(t)
Main == Create \/ StartWalk \/ Walk \/ FinishWalk

Next == \/ \E t \in Threads : Insert(t)
        \/ Main
        \/ main = "returned" /\ UNCHANGED vars

Spec == Init /\ [][Next]_vars

(* Every thread runs; only main waits, in pthread_join.                    *)
FairSpec == Spec /\ WF_vars(Main) /\ \A t \in Threads : WF_vars(Insert(t))

-----------------------------------------------------------------------------
(* Properties.                                                             *)

(* Every variable has its type.                                            *)
TypeOK ==
  /\ {head, end} \subseteq DOMAIN next /\ DOMAIN next \subseteq Node \cup {head, end}
  /\ next \in [DOMAIN next -> Node \cup {end, null}]
  /\ freed \subseteq DOMAIN next
  /\ pc \in [Threads -> {"none", "loop", "exchange", "link", "returned"}]
  /\ i \in [Threads -> Nat] /\ old \in [Threads -> Node \cup {end, null}]
  /\ main \in {"create", "walk", "returned"} /\ created \in 0..N
  /\ {prev, pointer} \subseteq Node \cup {head, end, null}
  /\ printed \in Seq(Nat) /\ order \in Seq(Node)

(* The element pushed j-th points to the one pushed before it, or its      *)
(* thread is about to store that pointer; head points to the newest one.   *)
At(j) == IF j = 0 THEN end ELSE order[j]
Pending == {New(t) : t \in {u \in Threads : pc[u] = "link"}}

ListIsOrder ==
  /\ next[head] = At(Len(order))
  /\ \A j \in 1..Len(order) :
       /\ order[j] \in DOMAIN next
       /\ order[j] \notin Pending => next[order[j]] = At(j - 1)
       /\ \A t \in Threads : pc[t] = "link" /\ order[j] = New(t) =>
                               old[t] = At(j - 1)
  /\ \A j, k \in 1..Len(order) : order[j] = order[k] => j = k

(* Every element a thread is done with has been exchanged in.              *)
AllPushed ==
  \A t \in Threads : \A v \in From(t)..i[t] - 1 :
    \E j \in 1..Len(order) : order[j] = <<t, v>>

(* What follows an element in memory, or will once its thread has stored   *)
(* the pointer it holds; and the sets that contain whatever one comes to   *)
(* by following these pointers from head.                                  *)
Successor(e) == IF e \in Pending THEN old[e[1]] ELSE next[e]
HoldsList(S) ==
  head \in S /\ \A e \in (S \ {end}) \cap DOMAIN next : Successor(e) \in S

(* Every element a thread is done with is in the list: one comes to it     *)
(* from head, where the list is cut by the pointers about to be stored.    *)
NothingLost ==
  \A S \in SUBSET (DOMAIN next \cup {null}) :
    HoldsList(S) => \A t \in Threads : \A v \in From(t)..i[t] - 1 : <<t, v>> \in S

(* While main walks, neither the element it reads nor the one it is about  *)
(* to free has been freed, and the elements printed so far are the newest  *)
(* ones, newest first.                                                     *)
WalkSafe ==
  main \in {"walk", "returned"} =>
    /\ Len(printed) <= Len(order)
    /\ pointer = At(Len(order) - Len(printed))
    /\ \A j \in 1..Len(printed) : printed[j] = order[Len(order) + 1 - j][2]
    /\ main = "walk" => {prev, pointer} \subseteq DOMAIN next \ freed

(* When main returns, every value from 0 to N*K-1 was printed once, the    *)
(* values of one thread in falling order, and no element is left unfreed.  *)
PrintsAll ==
  main = "returned" =>
    /\ Len(printed) = N * K
    /\ \A v \in 0..N * K - 1 : \E j \in 1..Len(printed) : printed[j] = v
    /\ \A j, k \in 1..Len(printed) :
         j < k /\ printed[j] \div K = printed[k] \div K => printed[j] > printed[k]
    /\ freed = DOMAIN next

(* The program ends.                                                       *)
Terminates == <>(main = "returned")
=============================================================================
