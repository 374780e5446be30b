-------------------------- MODULE AtomicListProofs --------------------------
(***************************************************************************)
(* For every number of threads and elements, the list of 14_sync/2_atomic  *)
(* is the sequence of its pushes, no push is lost, main's walk touches no  *)
(* freed element, and while the values fit into 32 bits all are printed.   *)
(***************************************************************************)
EXTENDS AtomicList, FiniteSetTheorems, TLAPS

(* An element in the list has been exchanged in: its thread is past it, or *)
(* is about to link it.                                                    *)
Owned ==
  /\ \A j \in 1..Len(order) :
       LET t == order[j][1] IN
         order[j][2] < i[t] \/ (pc[t] = "link" /\ order[j][2] = i[t])
  /\ \A t \in Threads :
       /\ pc[t] \in {"exchange", "link"} => New(t) \in DOMAIN next
       /\ pc[t] = "link" => \E j \in 1..Len(order) : order[j] = New(t)

(* Main starts its walk when no thread runs.                               *)
Phase ==
  /\ \A t \in Threads : t >= created => pc[t] = "none"
  /\ main = "create" => freed = {} /\ printed = <<>>
  /\ main # "create" => \A t \in Threads : pc[t] = "returned"

(* The walk has freed the elements it is past, all but the last.           *)
Behind ==
  main = "walk" =>
    LET m == Len(order) - Len(printed) IN
      /\ prev = IF printed = <<>> THEN head ELSE order[m + 1]
      /\ freed \subseteq {head} \cup {order[j] : j \in m + 2..Len(order)}
      /\ printed = <<>> => freed = {}

Inv == /\ TypeOK /\ ListIsOrder /\ Owned /\ AllPushed
       /\ Phase /\ WalkSafe /\ Behind

(* Division by the elements per thread.                                    *)
LEMMA Quotient ==
  ASSUME NEW k \in Nat \ {0}, NEW v \in Nat
  PROVE  /\ v \div k \in Nat /\ (v \div k) * k <= v /\ v < (v \div k) * k + k
OBVIOUS

LEMMA QuotientIs ==
  ASSUME NEW k \in Nat \ {0}, NEW v \in Nat, NEW t \in Nat, t * k <= v, v < t * k + k
  PROVE  v \div k = t
<1> DEFINE q == v \div k
<1>1. q \in Nat /\ q * k <= v /\ v < q * k + k
  BY Quotient
<1> HIDE DEF q
<1>2. ASSUME NEW a \in Nat, NEW b \in Nat, a < b PROVE a * k + k <= b * k
  <2>1. b - a - 1 \in Nat
    BY <1>2
  <2>2. (b - a - 1) * k \in Nat
    BY <2>1
  <2>3. (b - a - 1) * k = b * k - a * k - k
    BY <1>2
  <2>4. a * k \in Nat /\ b * k \in Nat
    OBVIOUS
  <2> QED
    BY <2>2, <2>3, <2>4
<1>3. t * k \in Nat /\ q * k \in Nat
  BY <1>1
<1>4. ~(q < t)
  BY <1>1, <1>2, <1>3
<1>5. ~(t < q)
  BY <1>1, <1>2, <1>3
<1>6. q = t
  BY <1>1, <1>4, <1>5
<1> QED
  BY <1>6 DEF q

LEMMA BoundsInNat == \A t \in Threads : From(t) \in Nat /\ To(t) \in Nat
<1> SUFFICES ASSUME NEW t \in Threads PROVE From(t) \in Nat /\ To(t) \in Nat
  OBVIOUS
<1>1. t \in Nat /\ t + 1 \in Nat
  BY ArgsAssumption DEF Threads
<1>2. t * K \in Nat /\ K * (t + 1) \in Nat
  BY <1>1, ArgsAssumption
<1>3. \A x \in Nat : x % Word \in Nat
  BY ArgsAssumption
<1> QED BY <1>2, <1>3 DEF From, To

LEMMA Names == /\ head \notin Node /\ end \notin Node /\ null \notin Node
               /\ head # end /\ head # null /\ end # null
BY ArgsAssumption DEF head, end, null, Node, Threads

LEMMA NewInNode == TypeOK => \A t \in Threads : New(t) \in Node
BY DEF TypeOK, Node, New

LEMMA NewParts == \A t \in Threads : New(t)[1] = t /\ New(t)[2] = i[t]
BY DEF New

LEMMA NewDiffers ==
  ASSUME NEW t \in Threads, NEW u \in Threads, t # u
  PROVE  New(t) # New(u)
BY DEF New

(* Steps that leave the linked elements and the pending links alone.       *)
LEMMA ListFrame ==
  ASSUME ListIsOrder, UNCHANGED <<order, old>>, next'[head] = next[head],
         \A j \in 1..Len(order) : /\ order[j] \in DOMAIN next'
                                  /\ next'[order[j]] = next[order[j]],
         \A u \in Threads : New(u)' = New(u) /\ (pc'[u] = "link" <=> pc[u] = "link")
  PROVE  ListIsOrder'
<1>1. \A j \in 0..Len(order) : At(j)' = At(j)
  BY DEF At
<1>2. Pending' = Pending
  BY DEF Pending
<1>3. ASSUME NEW j \in 1..Len(order), order[j] \notin Pending'
      PROVE  next'[order[j]] = At(j - 1)'
  BY <1>1, <1>2, <1>3 DEF ListIsOrder
<1>4. ASSUME NEW j \in 1..Len(order), NEW u \in Threads,
             pc'[u] = "link", order[j] = New(u)'
      PROVE  old'[u] = At(j - 1)'
  BY <1>1, <1>4 DEF ListIsOrder
<1>5. next'[head] = At(Len(order))'
  BY <1>1 DEF ListIsOrder, At
<1>6. order' = order
  OBVIOUS
<1> HIDE DEF At, Pending
<1>7. ASSUME NEW j \in 1..Len(order') PROVE order'[j] \notin Pending' => next'[order'[j]] = At(j - 1)'
  BY <1>3, <1>6
<1> QED BY <1>3, <1>4, <1>5, <1>6, <1>7 DEF ListIsOrder

LEMMA InitInv == Init => Inv
<1> SUFFICES ASSUME Init PROVE Inv
  OBVIOUS
<1>1. <<>> \in Seq(Nat) /\ <<>> \in Seq(Node) /\ Len(<<>>) = 0
  OBVIOUS
<1>2. TypeOK
  BY <1>1, Names, BoundsInNat, ArgsAssumption DEF Init, TypeOK
<1>3. ListIsOrder
  BY Names DEF Init, ListIsOrder, At
<1>4. Owned /\ AllPushed
  BY BoundsInNat DEF Init, Owned, AllPushed
<1> QED BY <1>2, <1>3, <1>4 DEF Inv, Init, Phase, WalkSafe, Behind

(* While threads run, main has neither walked nor freed.                   *)
LEMMA InsertPhase ==
  ASSUME Inv, NEW t \in Threads, pc[t] \notin {"none", "returned"},
         UNCHANGED mainVars, \A u \in Threads : u # t => pc'[u] = pc[u]
  PROVE  main = "create" /\ Phase' /\ WalkSafe' /\ Behind'
BY DEF Inv, Phase, WalkSafe, Behind, mainVars

LEMMA AllocateInv == ASSUME Inv, NEW t \in Threads, Allocate(t) PROVE Inv'
<1>1. /\ pc[t] = "loop" /\ UNCHANGED <<i, old, order, mainVars>>
      /\ New(t) \in Node /\ UNCHANGED New(t)
      /\ pc' = [pc EXCEPT ![t] = "exchange"]
  BY NewInNode DEF Allocate, Inv, New
<1>2. /\ DOMAIN next' = DOMAIN next \cup {New(t)} /\ next'[New(t)] = null
      /\ \A e \in DOMAIN next : e # New(t) => next'[e] = next[e]
      /\ next' \in [DOMAIN next \cup {New(t)} -> Node \cup {end, null}]
  BY DEF Allocate, Inv, TypeOK
<1>3. pc' \in [Threads -> {"none", "loop", "exchange", "link", "returned"}]
      /\ \A u \in Threads : pc'[u] = IF u = t THEN "exchange" ELSE pc[u]
  BY <1>1 DEF Inv, TypeOK
<1>4. \A j \in 1..Len(order) : order[j] # New(t)
  BY <1>1, NewParts DEF Inv, TypeOK, Owned
<1>5. TypeOK'
  BY <1>1, <1>2, <1>3 DEF Inv, TypeOK, mainVars
<1>6. ListIsOrder'
  <2>1. next'[head] = next[head]
    BY <1>1, <1>2, Names DEF Inv, TypeOK
  <2>2. \A u \in Threads : New(u)' = New(u) /\ (pc'[u] = "link" <=> pc[u] = "link")
    BY <1>1, <1>3 DEF New
  <2>3. \A j \in 1..Len(order) : order[j] \in DOMAIN next
                                 /\ next'[order[j]] = next[order[j]]
    BY <1>2, <1>4 DEF Inv, ListIsOrder
  <2> QED
    BY <1>1, <1>2, <2>1, <2>2, <2>3, ListFrame DEF Inv
<1>7. Owned'
  <2>1. \A j \in 1..Len(order) :
          LET u == order[j][1] IN
            order[j][2] < i[u] \/ (pc'[u] = "link" /\ order[j][2] = i[u])
    <3> SUFFICES ASSUME NEW j \in 1..Len(order)
                 PROVE  \/ order[j][2] < i[order[j][1]]
                        \/ pc'[order[j][1]] = "link" /\ order[j][2] = i[order[j][1]]
      OBVIOUS
    <3>1. order[j] \in Node /\ order[j][1] \in Threads
      BY DEF Inv, TypeOK, Node
    <3>2. \/ order[j][2] < i[order[j][1]]
          \/ pc[order[j][1]] = "link" /\ order[j][2] = i[order[j][1]]
      BY DEF Inv, Owned
    <3> QED
      BY <1>1, <1>3, <3>1, <3>2
  <2>2. \A u \in Threads : UNCHANGED New(u)
    BY <1>1 DEF New
  <2> QED
    BY <1>1, <1>2, <1>3, <2>1, <2>2 DEF Inv, Owned
<1>8. AllPushed'
  BY <1>1 DEF Inv, AllPushed
<1> QED BY <1>1, <1>5, <1>6, <1>7, <1>8, InsertPhase DEF Inv

LEMMA ExchangeInv == ASSUME Inv, NEW t \in Threads, Exchange(t) PROVE Inv'
<1>1. /\ pc[t] = "exchange" /\ UNCHANGED <<i, mainVars>>
      /\ New(t) \in Node /\ New(t) \in DOMAIN next
      /\ \A u \in Threads : UNCHANGED New(u)
      /\ pc' = [pc EXCEPT ![t] = "link"]
      /\ order' = Append(order, New(t)) /\ order \in Seq(Node)
  BY NewInNode DEF Exchange, Inv, New, Owned, TypeOK
<1>2. /\ DOMAIN next' = DOMAIN next /\ next'[head] = New(t)
      /\ \A e \in DOMAIN next : e # head => next'[e] = next[e]
      /\ next' \in [DOMAIN next -> Node \cup {end, null}]
  BY <1>1 DEF Exchange, Inv, TypeOK
<1>3. pc' \in [Threads -> {"none", "loop", "exchange", "link", "returned"}]
      /\ \A u \in Threads : pc'[u] = IF u = t THEN "link" ELSE pc[u]
  BY <1>1 DEF Inv, TypeOK
<1>4. /\ old' \in [Threads -> Node \cup {end, null}]
      /\ old'[t] = At(Len(order))
      /\ \A u \in Threads : u # t => old'[u] = old[u]
  BY DEF Exchange, Inv, TypeOK, ListIsOrder
<1>5. /\ Len(order') = Len(order) + 1 /\ order'[Len(order) + 1] = New(t)
      /\ \A j \in 1..Len(order) : order'[j] = order[j]
      /\ order' \in Seq(Node) /\ Len(order) \in Nat
  BY <1>1
<1>0. PICK n \in Nat : n = Len(order)
  BY <1>5
<1>6. \A j \in 1..Len(order) : order[j] # New(t)
  BY <1>1 DEF Inv, TypeOK, Owned, New
<1>7. \A j \in 0..Len(order) : At(j)' = At(j)
  BY <1>5 DEF At
<1>8. TypeOK'
  BY <1>1, <1>2, <1>3, <1>4, <1>5 DEF Inv, TypeOK, mainVars
<1>9. ListIsOrder'
  <2>1. next'[head] = At(Len(order))'
    BY <1>2, <1>5 DEF At
  <2>2. ASSUME NEW j \in 1..Len(order)
        PROVE  /\ order'[j] \in DOMAIN next'
               /\ order'[j] \notin Pending' => next'[order'[j]] = At(j - 1)'
               /\ \A u \in Threads : pc'[u] = "link" /\ order'[j] = New(u)'
                                        => old'[u] = At(j - 1)'
    <3>1. order'[j] = order[j] /\ order[j] \in Node /\ order[j] \in DOMAIN next
      BY <1>5 DEF Inv, TypeOK, ListIsOrder
    <3>2. next'[order[j]] = next[order[j]]
      BY <1>2, <3>1, Names
    <3>3. order[j] \notin Pending' => order[j] \notin Pending
      BY <1>1, <1>3, <1>6 DEF Pending
    <3>4. At(j - 1)' = At(j - 1)
      BY <1>5, <1>7
    <3>5. order'[j] \notin Pending' => next'[order'[j]] = At(j - 1)'
      BY <3>1, <3>2, <3>3, <3>4 DEF Inv, ListIsOrder
    <3>6. ASSUME NEW u \in Threads, pc'[u] = "link", order'[j] = New(u)'
          PROVE  old'[u] = At(j - 1)'
      <4>1. u # t /\ order[j] = New(u)
        BY <1>1, <1>6, <3>1, <3>6
      <4>2. pc[u] = "link" /\ old'[u] = old[u]
        BY <1>3, <1>4, <3>6, <4>1
      <4> QED BY <3>4, <4>1, <4>2 DEF Inv, ListIsOrder
    <3> QED
      BY <1>2, <3>1, <3>5, <3>6
  <2>3. /\ New(t) \in DOMAIN next' /\ New(t) \in Pending'
        /\ \A u \in Threads : New(t) = New(u)' => u = t
        /\ old'[t] = At(n)'
    <3>1. New(t) \in DOMAIN next' /\ New(t)' = New(t)
      BY <1>1, <1>2
    <3>2. New(t) \in Pending'
      BY <1>1, <1>3 DEF Pending
    <3>3. \A u \in Threads : New(t) = New(u)' => u = t
      BY <1>1, NewDiffers
    <3>4. At(n)' = At(n)
      BY <1>0, <1>5, <1>7
    <3> QED BY <1>0, <1>4, <3>1, <3>2, <3>3, <3>4
  <2>4. \A j, k \in 1..Len(order') : order'[j] = order'[k] => j = k
    BY <1>5, <1>6 DEF Inv, ListIsOrder
  <2>5. ASSUME NEW j \in 1..Len(order')
        PROVE  /\ order'[j] \in DOMAIN next'
               /\ order'[j] \notin Pending' => next'[order'[j]] = At(j - 1)'
               /\ \A u \in Threads : pc'[u] = "link" /\ order'[j] = New(u)'
                                        => old'[u] = At(j - 1)'
    <3>1. CASE j \in 1..Len(order)
      BY <2>2, <3>1
    <3>2. CASE j = Len(order) + 1
      <4>1. order'[j] = New(t) /\ j - 1 = Len(order)
        BY <1>5, <3>2
      <4>2. order'[j] \in Pending'
        BY <1>1, <1>3, <4>1 DEF Pending
      <4>3. At(j - 1)' = At(n)'
        BY <1>0, <4>1
      <4> QED
        BY <2>3, <4>1, <4>2, <4>3
    <3> QED
      BY <1>5, <3>1, <3>2
  <2> QED
    BY <2>1, <2>4, <2>5 DEF ListIsOrder
<1>10. Owned'
  <2>1. \A j \in 1..Len(order') :
          \/ j \in 1..Len(order) /\ order'[j] = order[j]
          \/ order'[j] = New(t)
    BY <1>5
  <2>2. New(t)[1] = t /\ New(t)[2] = i[t]
    BY DEF New
  <2>3. ASSUME NEW j \in 1..Len(order')
        PROVE  \/ order'[j][2] < i'[order'[j][1]]
               \/ pc'[order'[j][1]] = "link" /\ order'[j][2] = i'[order'[j][1]]
    <3>1. CASE order'[j] = New(t)
      BY <1>1, <1>3, <2>2, <3>1
    <3>2. CASE j \in 1..Len(order) /\ order'[j] = order[j]
      <4>1. order[j] \in Node /\ order[j][1] \in Threads
        BY <3>2 DEF Inv, TypeOK, Node
      <4>2. \/ order[j][2] < i[order[j][1]]
            \/ pc[order[j][1]] = "link" /\ order[j][2] = i[order[j][1]]
        BY <3>2 DEF Inv, Owned
      <4> QED
        BY <1>1, <1>3, <3>2, <4>1, <4>2
    <3> QED
      BY <2>1, <3>1, <3>2
  <2>4. \A u \in Threads : pc'[u] \in {"exchange", "link"} => New(u)' \in DOMAIN next'
    BY <1>1, <1>2, <1>3 DEF Inv, Owned
  <2>5. \A u \in Threads : pc'[u] = "link" =>
          \E j \in 1..Len(order') : order'[j] = New(u)'
    BY <1>1, <1>3, <1>5 DEF Inv, Owned
  <2> QED BY <2>3, <2>4, <2>5 DEF Owned
<1>11. AllPushed'
  <2>1. ASSUME NEW u \in Threads, NEW v \in From(u)..i[u] - 1
        PROVE  \E j \in 1..Len(order') : order'[j] = <<u, v>>
    <3>1. PICK j \in 1..Len(order) : order[j] = <<u, v>>
      BY DEF Inv, AllPushed
    <3> QED BY <1>5, <3>1
  <2>2. \A u \in Threads : From(u)' = From(u) /\ i'[u] = i[u]
    BY <1>1 DEF From
  <2> QED BY <2>1, <2>2 DEF AllPushed
<1> QED BY <1>1, <1>8, <1>9, <1>10, <1>11, InsertPhase DEF Inv

LEMMA LinkInv == ASSUME Inv, NEW t \in Threads, Link(t) PROVE Inv'
<1>1. /\ pc[t] = "link" /\ UNCHANGED <<old, order, mainVars>>
      /\ New(t) \in Node /\ New(t) \in DOMAIN next
      /\ pc' = [pc EXCEPT ![t] = "loop"]
  BY NewInNode DEF Link, Inv, Owned
<1>2. /\ DOMAIN next' = DOMAIN next /\ next'[New(t)] = old[t]
      /\ \A e \in DOMAIN next : e # New(t) => next'[e] = next[e]
      /\ next' \in [DOMAIN next -> Node \cup {end, null}]
  BY <1>1 DEF Link, Linked, Inv, TypeOK
<1>3. /\ pc' \in [Threads -> {"none", "loop", "exchange", "link", "returned"}]
      /\ \A u \in Threads : pc'[u] = IF u = t THEN "loop" ELSE pc[u]
      /\ i' \in [Threads -> Nat]
      /\ \A u \in Threads : i'[u] = IF u = t THEN i[t] + 1 ELSE i[u]
      /\ \A u \in Threads : u # t => New(u)' = New(u)
  BY <1>1 DEF Link, Inv, TypeOK, New
<1>4. TypeOK'
  BY <1>1, <1>2, <1>3 DEF Inv, TypeOK, mainVars
<1>5. ListIsOrder'
  <2>1. next'[head] = next[head]
    BY <1>1, <1>2, Names DEF Inv, TypeOK
  <2>2. ASSUME NEW j \in 1..Len(order), order[j] \notin Pending'
        PROVE  next'[order[j]] = At(j - 1)
    <3>1. CASE order[j] = New(t)
      BY <1>1, <1>2, <3>1 DEF Inv, ListIsOrder
    <3>2. CASE order[j] # New(t)
      <4>1. order[j] \notin Pending
        BY <1>1, <1>3, <2>2, <3>2 DEF Pending
      <4> QED
        BY <1>2, <3>2, <4>1 DEF Inv, ListIsOrder
    <3> QED BY <3>1, <3>2
  <2>3. \A u \in Threads : pc'[u] = "link" => pc[u] = "link" /\ New(u)' = New(u)
    BY <1>3
  <2>4. /\ Len(order)' = Len(order) /\ \A j \in 1..Len(order) : order'[j] = order[j]
        /\ \A j \in 0..Len(order) : At(j)' = At(j)
    BY <1>1 DEF At
  <2> QED
    BY <1>1, <1>2, <2>1, <2>2, <2>3, <2>4 DEF Inv, ListIsOrder, At, Pending
<1>6. Owned'
  <2>1. \A j \in 1..Len(order) :
          \/ order[j][2] < i'[order[j][1]]
          \/ pc'[order[j][1]] = "link" /\ order[j][2] = i'[order[j][1]]
    <3> SUFFICES ASSUME NEW j \in 1..Len(order)
                 PROVE  \/ order[j][2] < i'[order[j][1]]
                        \/ pc'[order[j][1]] = "link" /\ order[j][2] = i'[order[j][1]]
      OBVIOUS
    <3> DEFINE u == order[j][1]
               v == order[j][2]
    <3>1. order[j] \in Node
      BY DEF Inv, TypeOK
    <3>3. u \in Threads /\ v \in Nat /\ i[u] \in Nat /\ i'[u] \in Nat
      BY <1>3, <3>1 DEF Inv, TypeOK, Node
    <3>2. v < i[u] \/ (pc[u] = "link" /\ v = i[u])
      BY DEF Inv, Owned
    <3> QED BY <1>3, <3>2, <3>3
  <2> QED
    BY <1>1, <1>2, <1>3, <2>1 DEF Inv, Owned
<1>7. AllPushed'
  <2>1. \E j \in 1..Len(order) : order[j] = <<t, i[t]>>
    BY <1>1 DEF Inv, Owned, New
  <2>2. ASSUME NEW u \in Threads, NEW v \in From(u)..i'[u] - 1
        PROVE  \E j \in 1..Len(order) : order[j] = <<u, v>>
    <3>1. v \in From(u)..i[u] - 1 \/ (u = t /\ v = i[t])
      BY <1>3, BoundsInNat DEF Inv, TypeOK
    <3> QED BY <2>1, <3>1 DEF Inv, AllPushed
  <2> QED BY <1>1, <2>2 DEF AllPushed, From
<1> QED BY <1>1, <1>4, <1>5, <1>6, <1>7, InsertPhase DEF Inv

(* Steps that change no element, nor which thread is about to link one.    *)
LEMMA ListUntouched ==
  ASSUME Inv, UNCHANGED <<next, i, old, order>>,
         \A t \in Threads : /\ pc'[t] = "link" <=> pc[t] = "link"
                            /\ pc'[t] = "exchange" <=> pc[t] = "exchange"
  PROVE  ListIsOrder' /\ Owned' /\ AllPushed'
<1>1. ListIsOrder'
  BY DEF Inv, ListIsOrder, At, Pending, New
<1>2. Owned'
  <2>1. \A t \in Threads : New(t)' = New(t)
    BY DEF New
  <2>2. \A j \in 1..Len(order) : order[j][1] \in Threads
    BY DEF Inv, TypeOK, Node
  <2> QED BY <2>1, <2>2 DEF Inv, Owned
<1>3. AllPushed'
  BY DEF Inv, AllPushed, From
<1> QED BY <1>1, <1>2, <1>3

LEMMA ReturnInv == ASSUME Inv, NEW t \in Threads, Return(t) PROVE Inv'
<1>1. TypeOK'
  BY DEF Return, Inv, TypeOK, mainVars
<1>2. ListIsOrder' /\ Owned' /\ AllPushed'
  BY ListUntouched DEF Return, Inv, TypeOK
<1> QED BY <1>1, <1>2, InsertPhase DEF Return, Inv

LEMMA CreateInv == ASSUME Inv, Create PROVE Inv'
<1>1. created \in Threads /\ pc[created] = "none"
  BY ArgsAssumption DEF Create, Inv, TypeOK, Phase, Threads
<1>2. TypeOK'
  <2>1. pc' \in [Threads -> {"none", "loop", "exchange", "link", "returned"}]
        /\ created' \in 0..N
    BY <1>1, ArgsAssumption DEF Create, Inv, TypeOK, Threads
  <2> QED BY <2>1 DEF Create, Inv, TypeOK
<1>3. ListIsOrder' /\ Owned' /\ AllPushed'
  BY <1>1, ListUntouched DEF Create, Inv, TypeOK
<1>4. Phase' /\ WalkSafe' /\ Behind'
  BY <1>1, ArgsAssumption DEF Create, Inv, TypeOK, Phase, WalkSafe, Behind, Threads
<1> QED BY <1>2, <1>3, <1>4 DEF Inv

LEMMA StartWalkInv == ASSUME Inv, StartWalk PROVE Inv'
<1>1. TypeOK'
  BY DEF StartWalk, inserterVars, Inv, TypeOK
<1>2. ListIsOrder' /\ Owned' /\ AllPushed'
  BY ListUntouched DEF StartWalk, inserterVars
<1>3. Phase'
  BY DEF StartWalk, inserterVars, Joinable, Inv, Phase
<1>4. /\ next' = next /\ order' = order /\ printed' = <<>> /\ freed' = {}
      /\ prev' = head /\ pointer' = At(Len(order)) /\ main' = "walk"
      /\ Len(<<>>) = 0 /\ Len(order) \in Nat
  BY DEF StartWalk, inserterVars, Inv, TypeOK, Phase, ListIsOrder
<1>5. At(Len(order))' = At(Len(order)) /\ At(Len(order)) \in DOMAIN next
  <2>1. Len(order) # 0 => Len(order) \in 1..Len(order)
    BY <1>4
  <2>2. end \in DOMAIN next
    BY DEF Inv, TypeOK
  <2>3. Len(order) # 0 => order[Len(order)] \in DOMAIN next
    BY <2>1 DEF Inv, ListIsOrder
  <2> QED BY <1>4, <2>2, <2>3 DEF At
<1>6. WalkSafe'
  BY <1>4, <1>5 DEF WalkSafe, At, Inv, TypeOK
<1>7. Behind'
  BY <1>4 DEF Behind
<1> QED BY <1>1, <1>2, <1>3, <1>6, <1>7 DEF Inv
LEMMA WalkInv == ASSUME Inv, Walk PROVE Inv'
<1> DEFINE len == Len(order)
<1>0. PICK m \in Nat : m = len - Len(printed)
  <2>1. len \in Nat /\ Len(printed) \in Nat /\ Len(printed) <= len
    BY DEF Walk, Inv, TypeOK, WalkSafe
  <2> QED BY <2>1
<1>1. /\ main = "walk" /\ pointer # end /\ main' = "walk"
      /\ UNCHANGED <<next, pc, i, old, order, created>>
      /\ freed' = freed \cup {prev} /\ prev' = pointer /\ pointer' = next[pointer]
      /\ printed' = Append(printed, pointer[2])
  BY DEF Walk, Freed, inserterVars
<1>2. /\ len \in Nat /\ Len(printed) \in Nat /\ m \in Nat /\ pointer = At(m)
      /\ order \in Seq(Node) /\ printed \in Seq(Nat)
  BY <1>0, <1>1 DEF Inv, TypeOK, WalkSafe
<1>3. m \in 1..len /\ pointer = order[m] /\ pointer \in Node /\ pointer[2] \in Nat
  BY <1>0, <1>1, <1>2 DEF At, Node
<1>4. Pending = {}
  BY <1>1 DEF Inv, Phase, Pending
<1>5. next[pointer] = At(m - 1) /\ At(m - 1)' = At(m - 1)
  <2>1. order[m] \notin Pending
    BY <1>4
  <2>2. next[order[m]] = At(m - 1)
    BY <1>3, <2>1 DEF Inv, ListIsOrder
  <2>3. At(m - 1)' = At(m - 1)
    BY <1>1 DEF At
  <2> QED BY <1>3, <2>2, <2>3
<1>6. At(m - 1) \in DOMAIN next /\ At(m - 1) \in Node \cup {end}
  <2>1. m - 1 # 0 => m - 1 \in 1..len
    BY <1>2, <1>3
  <2>2. end \in DOMAIN next
    BY DEF Inv, TypeOK
  <2>3. m - 1 # 0 => order[m - 1] \in DOMAIN next /\ order[m - 1] \in Node
    BY <1>2, <2>1 DEF Inv, ListIsOrder
  <2> QED BY <2>2, <2>3 DEF At
<1>7. /\ Len(printed') = Len(printed) + 1 /\ printed' \in Seq(Nat)
      /\ printed'[Len(printed) + 1] = order[m][2] /\ printed' # <<>>
      /\ \A j \in 1..Len(printed) : printed'[j] = printed[j]
  BY <1>1, <1>2, <1>3
<1>8. prev = IF printed = <<>> THEN head ELSE order[m + 1]
  BY <1>0, <1>1 DEF Inv, Behind
<1>9. freed' \subseteq {head} \cup {order[j] : j \in m + 1..len}
  <2>1. freed \subseteq {head} \cup {order[j] : j \in m + 2..len}
    BY <1>0, <1>1 DEF Inv, Behind
  <2>2. printed # <<>> => m + 1 \in m + 1..len
    BY <1>0, <1>2
  <2>3. m + 2..len \subseteq m + 1..len
    BY <1>2
  <2> QED BY <1>1, <1>8, <2>1, <2>2, <2>3
<1>10. TypeOK'
  <2>1. prev \in DOMAIN next
    BY <1>1 DEF Inv, WalkSafe
  <2>2. pointer' \in Node \cup {end} /\ prev' \in Node
    BY <1>1, <1>3, <1>5, <1>6
  <2> QED BY <1>1, <1>7, <2>1, <2>2 DEF Inv, TypeOK
<1>11. ListIsOrder' /\ Owned' /\ AllPushed'
  BY <1>1, ListUntouched
<1>12. Phase'
  BY <1>1 DEF Inv, Phase
<1>13. \A j \in m + 1..len : order[j] # order[m] /\ (m - 1 # 0 => order[j] # order[m - 1])
                            /\ order[j] \in Node
  <2>1. \A j \in m + 1..len : j \in 1..len /\ j # m /\ j # m - 1
    BY <1>2, <1>3
  <2>2. m - 1 # 0 => m - 1 \in 1..len
    BY <1>2, <1>3
  <2> QED BY <1>2, <1>3, <2>1, <2>2 DEF Inv, ListIsOrder
<1>14. {prev', pointer'} \subseteq DOMAIN next' \ freed'
  <2>1. order[m] \notin freed'
    BY <1>3, <1>9, <1>13, Names
  <2>2. At(m - 1) \notin freed'
    BY <1>6, <1>9, <1>13, Names DEF At
  <2>3. pointer \in DOMAIN next
    BY <1>1 DEF Inv, WalkSafe
  <2> QED BY <1>1, <1>3, <1>5, <1>6, <2>1, <2>2, <2>3
<1>15. WalkSafe'
  <2>1. Len(printed') <= len /\ len - Len(printed') = m - 1
    BY <1>0, <1>2, <1>3, <1>7
  <2>2. pointer' = At(Len(order) - Len(printed))'
    <3>1. pointer' = IF m - 1 = 0 THEN end ELSE order[m - 1]
      BY <1>1, <1>5 DEF At
    <3> QED BY <1>1, <2>1, <3>1 DEF At
  <2>3. ASSUME NEW j \in 1..Len(printed')
        PROVE  printed'[j] = order[len + 1 - j][2]
    <3>1. CASE j \in 1..Len(printed)
      BY <1>1, <1>7, <3>1 DEF Inv, WalkSafe
    <3>2. CASE j = Len(printed) + 1
      <4>1. len + 1 - j = m
        BY <1>0, <1>2, <3>2
      <4> QED BY <1>7, <3>2, <4>1
    <3> QED BY <1>2, <1>7, <3>1, <3>2
  <2>4. main' = "walk" /\ order' = order /\ Len(order)' = len
    BY <1>1
  <2> QED BY <1>14, <2>1, <2>2, <2>3, <2>4 DEF WalkSafe
<1>16. Behind'
  <2>0. Len(printed') = Len(printed) + 1 /\ Len(printed) \in Nat
    BY <1>2, <1>7
  <2>1. len - Len(printed') = m - 1 /\ (m - 1) + 1 = m /\ (m - 1) + 2 = m + 1
    BY <1>0, <1>2, <2>0
  <2>2. Len(order') = len /\ order' = order /\ prev' = order[m]
    BY <1>1, <1>3
  <2>3. /\ (Len(order) - Len(printed))' = m - 1
        /\ prev' = IF printed' = <<>> THEN head ELSE order'[(m - 1) + 1]
    BY <1>7, <2>1, <2>2
  <2>4. freed' \subseteq {head} \cup {order'[j] : j \in (m - 1) + 2..Len(order')}
    BY <1>9, <2>1, <2>2
  <2> HIDE DEF len
  <2> QED BY <1>7, <2>3, <2>4 DEF Behind
<1> QED BY <1>10, <1>11, <1>12, <1>15, <1>16 DEF Inv

LEMMA FinishWalkInv == ASSUME Inv, FinishWalk PROVE Inv'
<1>1. /\ main = "walk" /\ main' = "returned"
      /\ UNCHANGED <<next, pc, i, old, order, created, prev, pointer, printed>>
      /\ freed' = freed \cup {prev, end}
  BY DEF FinishWalk, inserterVars
<1>2. TypeOK'
  BY <1>1 DEF Inv, TypeOK, WalkSafe
<1>3. ListIsOrder' /\ Owned' /\ AllPushed'
  BY <1>1, ListUntouched
<1>4. Phase' /\ WalkSafe' /\ Behind'
  BY <1>1 DEF Inv, Phase, WalkSafe, Behind, At
<1> QED BY <1>2, <1>3, <1>4 DEF Inv

LEMMA StutterInv == ASSUME Inv, UNCHANGED vars PROVE Inv'
<1>1. UNCHANGED <<next, freed, pc, i, old, main, created, prev, pointer, printed, order>>
  BY DEF vars, inserterVars, mainVars
<1>2. TypeOK' /\ Phase' /\ Behind'
  BY <1>1 DEF Inv, TypeOK, Phase, Behind
<1>3. WalkSafe'
  BY <1>1 DEF Inv, WalkSafe, At
<1>4. ListIsOrder' /\ Owned' /\ AllPushed'
  BY <1>1, ListUntouched
<1> QED BY <1>2, <1>3, <1>4 DEF Inv

LEMMA Inductive == Spec => []Inv
<1>1. Inv /\ [Next]_vars => Inv'
  BY AllocateInv, ExchangeInv, LinkInv, ReturnInv, CreateInv, StartWalkInv,
     WalkInv, FinishWalkInv, StutterInv DEF Next, Insert, Main
<1> QED BY InitInv, <1>1, PTL DEF Spec

(* What else holds where no value wraps: each thread's loop variable is in *)
(* its range, the values of one thread are pushed in rising order, and the *)
(* elements there are, and those freed, are the pushed ones.               *)
NoWrap == N * K < Word

Bounded ==
  \A t \in Threads :
    /\ From(t) <= i[t] /\ i[t] <= To(t)
    /\ pc[t] \in {"exchange", "link"} => i[t] < To(t)
    /\ pc[t] = "returned" => i[t] = To(t)

Rising ==
  /\ \A j \in 1..Len(order) : From(order[j][1]) <= order[j][2]
  /\ \A j, k \in 1..Len(order) :
       j < k /\ order[j][1] = order[k][1] => order[j][2] < order[k][2]

PushedFrom(k) == {order[j] : j \in k..Len(order)}
Allocated ==
  DOMAIN next = {head, end} \cup PushedFrom(1)
                  \cup {New(t) : t \in {u \in Threads : pc[u] = "exchange"}}

AllFreed ==
  /\ main = "walk" =>
       freed = IF printed = <<>> THEN {}
               ELSE {head} \cup PushedFrom(Len(order) - Len(printed) + 2)
  /\ main = "returned" =>
       Len(printed) = Len(order) /\ freed = {head, end} \cup PushedFrom(1)

Complete == Bounded /\ Rising /\ Allocated /\ AllFreed

LEMMA Products ==
  ASSUME NoWrap
  PROVE  \A t \in Threads : /\ From(t) = t * K /\ To(t) = t * K + K /\ t * K \in Nat
                            /\ t * K + K <= N * K
<1> SUFFICES ASSUME NEW t \in Threads
             PROVE  /\ From(t) = t * K /\ To(t) = t * K + K /\ t * K \in Nat
                    /\ t * K + K <= N * K
  OBVIOUS
<1>1. t \in Nat /\ t + 1 \in Nat /\ N - (t + 1) \in Nat /\ N \in Nat /\ K \in Nat
  BY ArgsAssumption DEF Threads
<1>2. K * (t + 1) = t * K + K /\ t * K \in Nat
  BY <1>1
<1>3. (N - (t + 1)) * K \in Nat
  BY <1>1
<1>4. (N - (t + 1)) * K = N * K - (t * K + K)
  BY <1>1
<1>5. t * K + K <= N * K
  BY <1>1, <1>2, <1>3, <1>4
<1>6. \A x \in Nat : x < Word => x % Word = x
  BY ArgsAssumption
<1>7. (t * K) % Word = t * K /\ (K * (t + 1)) % Word = t * K + K
  <2>1. t * K < Word /\ t * K + K < Word /\ t * K + K \in Nat
    BY <1>1, <1>2, <1>5, ArgsAssumption DEF NoWrap
  <2> QED
    BY <1>2, <1>6, <2>1
<1> QED
  BY <1>2, <1>5, <1>7 DEF From, To

LEMMA InitComplete == ASSUME NoWrap, Init PROVE Complete
<1>1. Bounded
  BY Products, ArgsAssumption DEF Init, Bounded
<1>2. Rising /\ AllFreed
  BY DEF Init, Rising, AllFreed
<1>3. Allocated
  BY DEF Init, Allocated, PushedFrom
<1> QED
  BY <1>1, <1>2, <1>3 DEF Complete

(* Steps of main and of the last lines of an inserter push nothing.        *)
LEMMA NothingPushed ==
  ASSUME Complete, UNCHANGED <<next, i, order>>,
         \A t \in Threads : /\ pc'[t] \in {"exchange", "link"} <=> pc[t] \in {"exchange", "link"}
                            /\ pc'[t] = "exchange" <=> pc[t] = "exchange"
                            /\ pc'[t] = "returned" => i[t] = To(t)
  PROVE  Bounded' /\ Rising' /\ Allocated'
<1>1. Bounded'
  BY DEF Complete, Bounded, From, To
<1>2. Rising'
  BY DEF Complete, Rising, From
<1>3. Allocated'
  <2>1. \A k : PushedFrom(k)' = PushedFrom(k)
    BY DEF PushedFrom
  <2>2. \A t \in Threads : New(t)' = New(t)
    BY DEF New
  <2> QED
    BY <2>1, <2>2 DEF Complete, Allocated
<1> QED
  BY <1>1, <1>2, <1>3

(* While threads run, nothing has been freed.                              *)
LEMMA NoneFreed ==
  ASSUME Inv, NEW t \in Threads, pc[t] \notin {"none", "returned"}, UNCHANGED mainVars
  PROVE  AllFreed'
BY DEF Inv, Phase, AllFreed, mainVars

LEMMA AllocateComplete ==
  ASSUME NoWrap, Inv, Complete, NEW t \in Threads, Allocate(t) PROVE Complete'
<1>1. /\ pc[t] = "loop" /\ i[t] < To(t) /\ UNCHANGED <<i, order, mainVars>>
      /\ DOMAIN next' = DOMAIN next \cup {New(t)}
      /\ \A u \in Threads : pc'[u] = IF u = t THEN "exchange" ELSE pc[u]
      /\ \A u \in Threads : New(u)' = New(u)
  BY DEF Allocate, Inv, TypeOK, New
<1>2. Bounded'
  BY <1>1 DEF Complete, Bounded, From, To
<1>3. Rising'
  BY <1>1 DEF Complete, Rising, From
<1>4. Allocated'
  <2>1. PushedFrom(1)' = PushedFrom(1)
    BY <1>1 DEF PushedFrom
  <2>2. {New(u) : u \in {v \in Threads : pc[v] = "exchange"}}'
          = {New(u) : u \in {v \in Threads : pc[v] = "exchange"}} \cup {New(t)}
    BY <1>1
  <2> QED
    BY <1>1, <2>1, <2>2 DEF Complete, Allocated
<1> QED
  BY <1>1, <1>2, <1>3, <1>4, NoneFreed DEF Complete

LEMMA ExchangeComplete ==
  ASSUME NoWrap, Inv, Complete, NEW t \in Threads, Exchange(t) PROVE Complete'
<1>1. /\ pc[t] = "exchange" /\ UNCHANGED <<i, mainVars>>
      /\ DOMAIN next' = DOMAIN next
      /\ \A u \in Threads : pc'[u] = IF u = t THEN "link" ELSE pc[u]
      /\ \A u \in Threads : New(u)' = New(u)
      /\ order' = Append(order, New(t)) /\ New(t) \in Node /\ order \in Seq(Node)
  BY NewInNode DEF Exchange, Inv, TypeOK, New
<1>2. /\ Len(order) \in Nat /\ Len(order') = Len(order) + 1
      /\ \A j \in 1..Len(order) : order'[j] = order[j]
      /\ order'[Len(order) + 1] = New(t)
  BY <1>1
<1>3. Bounded'
  BY <1>1 DEF Complete, Bounded, From, To
<1>4. Rising'
  <2>1. New(t)[1] = t /\ New(t)[2] = i[t] /\ From(t) <= i[t]
    BY DEF New, Complete, Bounded
  <2>2. ASSUME NEW j \in 1..Len(order) PROVE order[j][1] = t => order[j][2] < i[t]
    BY <1>1 DEF Inv, Owned
  <2>3. \A j \in 1..Len(order') : From(order'[j][1]) <= order'[j][2]
    BY <1>2, <2>1 DEF Complete, Rising
  <2>4. ASSUME NEW j \in 1..Len(order'), NEW k \in 1..Len(order'),
               j < k, order'[j][1] = order'[k][1]
        PROVE  order'[j][2] < order'[k][2]
    <3>1. j \in 1..Len(order)
      BY <1>2, <2>4
    <3>2. CASE k \in 1..Len(order)
      BY <1>2, <2>4, <3>1, <3>2 DEF Complete, Rising
    <3>3. CASE k = Len(order) + 1
      BY <1>2, <2>1, <2>2, <2>4, <3>1, <3>3
    <3> QED
      BY <1>2, <3>2, <3>3
  <2> QED
    BY <2>3, <2>4 DEF Rising, From
<1>5. Allocated'
  <2>1. PushedFrom(1)' = PushedFrom(1) \cup {New(t)}
    BY <1>2 DEF PushedFrom
  <2>2. {New(u) : u \in {v \in Threads : pc[v] = "exchange"}}
          = {New(u) : u \in {v \in Threads : pc[v] = "exchange"}}' \cup {New(t)}
    BY <1>1
  <2> QED
    BY <1>1, <2>1, <2>2 DEF Complete, Allocated
<1> QED
  BY <1>1, <1>3, <1>4, <1>5, NoneFreed DEF Complete

LEMMA LinkComplete ==
  ASSUME NoWrap, Inv, Complete, NEW t \in Threads, Link(t) PROVE Complete'
<1>1. /\ pc[t] = "link" /\ UNCHANGED <<order, mainVars>>
      /\ DOMAIN next' = DOMAIN next /\ i[t] \in Nat
      /\ \A u \in Threads : pc'[u] = IF u = t THEN "loop" ELSE pc[u]
      /\ \A u \in Threads : i'[u] = IF u = t THEN i[t] + 1 ELSE i[u]
      /\ \A u \in Threads : u # t => New(u)' = New(u)
  BY DEF Link, Linked, Inv, TypeOK, New
<1>2. Bounded'
  <2>1. From(t) \in Nat /\ To(t) \in Nat
    BY BoundsInNat
  <2> QED
    BY <1>1, <2>1 DEF Complete, Bounded, From, To
<1>3. Rising'
  BY <1>1 DEF Complete, Rising, From
<1>4. Allocated'
  <2>1. PushedFrom(1)' = PushedFrom(1)
    BY <1>1 DEF PushedFrom
  <2>2. {New(u) : u \in {v \in Threads : pc[v] = "exchange"}}'
          = {New(u) : u \in {v \in Threads : pc[v] = "exchange"}}
    BY <1>1
  <2> QED
    BY <1>1, <2>1, <2>2 DEF Complete, Allocated
<1> QED
  BY <1>1, <1>2, <1>3, <1>4, NoneFreed DEF Complete

LEMMA ReturnComplete ==
  ASSUME NoWrap, Inv, Complete, NEW t \in Threads, Return(t) PROVE Complete'
<1>1. /\ pc[t] = "loop" /\ i[t] >= To(t) /\ UNCHANGED <<next, i, order, mainVars>>
      /\ \A u \in Threads : pc'[u] = IF u = t THEN "returned" ELSE pc[u]
  BY DEF Return, Inv, TypeOK
<1>2. i[t] = To(t)
  BY <1>1, BoundsInNat DEF Complete, Bounded, Inv, TypeOK
<1>3. Bounded' /\ Rising' /\ Allocated'
  BY <1>1, <1>2, NothingPushed DEF Complete, Bounded
<1> QED
  BY <1>1, <1>3, NoneFreed DEF Complete

LEMMA MainComplete == ASSUME NoWrap, Inv, Complete, Main PROVE Complete'
<1>1. CASE Create
  <2>1. created \in Threads /\ pc[created] = "none"
    BY <1>1, ArgsAssumption DEF Create, Inv, TypeOK, Phase, Threads
  <2>2. \A t \in Threads : pc'[t] = IF t = created THEN "loop" ELSE pc[t]
    BY <1>1, <2>1 DEF Create, Inv, TypeOK
  <2>3. Bounded' /\ Rising' /\ Allocated'
    BY <1>1, <2>1, <2>2, NothingPushed DEF Create, Complete, Bounded
  <2> QED
    BY <1>1, <2>3 DEF Create, Complete, AllFreed
<1>2. CASE StartWalk
  <2>1. Bounded' /\ Rising' /\ Allocated'
    BY <1>2, NothingPushed DEF StartWalk, inserterVars, Complete, Bounded
  <2> QED
    BY <1>2, <2>1 DEF StartWalk, Inv, Phase, Complete, AllFreed
<1>3. CASE Walk
  <2>1. Bounded' /\ Rising' /\ Allocated'
    BY <1>3, NothingPushed DEF Walk, inserterVars, Complete, Bounded
  <2>2. /\ main = "walk" /\ main' = "walk" /\ order' = order
        /\ freed' = freed \cup {prev} /\ printed' = Append(printed, pointer[2])
        /\ printed \in Seq(Nat) /\ Len(printed) \in Nat /\ Len(order) \in Nat
        /\ Len(printed) <= Len(order)
    BY <1>3 DEF Walk, Freed, inserterVars, Inv, TypeOK, WalkSafe
  <2>3. pointer[2] \in Nat
    BY <1>3 DEF Walk, Inv, WalkSafe, TypeOK, Node, head, end
  <2>4. printed' # <<>> /\ Len(printed') = Len(printed) + 1
    BY <2>2, <2>3
  <2>5. CASE printed = <<>>
    <3>1. freed' = {head} /\ Len(printed) = 0
      BY <2>2, <2>5 DEF Inv, Behind, Complete, AllFreed
    <3>2. PushedFrom(Len(order) + 1) = {}
      BY <2>2 DEF PushedFrom
    <3>3. Len(order) - Len(printed') + 2 = Len(order) + 1
      BY <2>2, <2>4, <3>1
    <3>4. PushedFrom(Len(order) - Len(printed) + 2)' = {}
      BY <2>2, <3>2, <3>3 DEF PushedFrom
    <3> QED
      BY <2>1, <2>2, <2>4, <3>1, <3>4 DEF Complete, AllFreed
  <2>6. CASE printed # <<>>
    <3> DEFINE m == Len(order) - Len(printed)
    <3>1. prev = order[m + 1] /\ freed = {head} \cup PushedFrom(m + 2)
      BY <2>2, <2>6 DEF Inv, Behind, Complete, AllFreed
    <3>2. m \in Nat /\ m + 1 \in 1..Len(order)
      BY <2>2, <2>6
    <3>3. Len(order) - Len(printed') + 2 = m + 1
      BY <2>2, <2>4
    <3> HIDE DEF m
    <3>4. PushedFrom(m + 1) = {order[m + 1]} \cup PushedFrom(m + 2)
      BY <2>2, <3>2 DEF PushedFrom
    <3>5. PushedFrom(Len(order) - Len(printed) + 2)' = PushedFrom(m + 1)
      BY <2>2, <3>3 DEF PushedFrom
    <3> QED
      BY <2>1, <2>2, <2>4, <3>1, <3>4, <3>5 DEF Complete, AllFreed
  <2> QED
    BY <2>5, <2>6
<1>4. CASE FinishWalk
  <2>1. Bounded' /\ Rising' /\ Allocated'
    BY <1>4, NothingPushed DEF FinishWalk, inserterVars, Complete, Bounded
  <2>2. /\ main = "walk" /\ main' = "returned" /\ UNCHANGED <<order, printed>>
        /\ freed' = freed \cup {prev, end} /\ pointer = end
        /\ Len(printed) \in Nat /\ Len(order) \in Nat /\ Len(printed) <= Len(order)
        /\ order \in Seq(Node) /\ printed \in Seq(Nat)
    BY <1>4 DEF FinishWalk, inserterVars, Inv, TypeOK, WalkSafe
  <2>3. Len(printed) = Len(order)
    <3>1. Len(order) - Len(printed) # 0 => order[Len(order) - Len(printed)] \in Node
      BY <2>2
    <3>2. pointer = At(Len(order) - Len(printed))
      BY <2>2 DEF Inv, WalkSafe
    <3> QED
      BY <2>2, <3>1, <3>2, Names DEF At
  <2>4. freed' = {head, end} \cup PushedFrom(1)
    <3>1. CASE printed = <<>>
      <4>1. freed' = {head, end} /\ Len(order) = 0
        BY <2>2, <2>3, <3>1 DEF Inv, Behind, Complete, AllFreed
      <4> QED
        BY <4>1 DEF PushedFrom
    <3>2. CASE printed # <<>>
      <4>1. Len(order) - Len(printed) = 0 /\ Len(order) >= 1
        BY <2>2, <2>3, <3>2
      <4>2. prev = order[1] /\ freed = {head} \cup PushedFrom(2)
        BY <2>2, <3>2, <4>1 DEF Inv, Behind, Complete, AllFreed
      <4>3. PushedFrom(1) = {order[1]} \cup PushedFrom(2)
        BY <2>2, <4>1 DEF PushedFrom
      <4> QED
        BY <2>2, <4>2, <4>3
    <3> QED
      BY <3>1, <3>2
  <2> QED
    BY <2>1, <2>2, <2>3, <2>4 DEF Complete, AllFreed, PushedFrom
<1> QED
  BY <1>1, <1>2, <1>3, <1>4 DEF Main

LEMMA StutterComplete == ASSUME Complete, UNCHANGED vars PROVE Complete'
<1>1. UNCHANGED <<next, freed, pc, i, old, main, created, prev, pointer, printed, order>>
  BY DEF vars, inserterVars, mainVars
<1>2. Bounded' /\ Rising' /\ Allocated'
  BY <1>1, NothingPushed DEF Complete, Bounded
<1>3. AllFreed'
  BY <1>1 DEF Complete, AllFreed, PushedFrom
<1> QED
  BY <1>2, <1>3 DEF Complete

(* When main returns, the values pushed are those from 0 to N*K-1, each    *)
(* once: a value names its thread.                                         *)
LEMMA PushedOnce ==
  ASSUME NoWrap, Inv, Complete, main = "returned"
  PROVE  /\ \A j \in 1..Len(order) :
              /\ order[j][2] \in 0..N * K - 1
              /\ order[j][2] \div K = order[j][1]
         /\ \A j, k \in 1..Len(order) : order[j][2] = order[k][2] => j = k
         /\ \A v \in 0..N * K - 1 : \E j \in 1..Len(order) : order[j][2] = v
<1>1. N \in Nat /\ K \in Nat /\ N * K \in Nat
  BY ArgsAssumption
<1>2. \A t \in Threads : pc[t] = "returned" /\ i[t] = To(t)
  BY DEF Inv, Phase, Complete, Bounded
<1>3. ASSUME NEW j \in 1..Len(order)
      PROVE  /\ order[j] \in Node /\ order[j][1] \in Threads /\ order[j][2] \in Nat
             /\ K \in Nat \ {0} /\ order[j][2] \in 0..N * K - 1
             /\ order[j][2] \div K = order[j][1]
  <2> DEFINE t == order[j][1]
             v == order[j][2]
  <2>1. order[j] \in Node /\ t \in Threads /\ v \in Nat
    BY DEF Inv, TypeOK, Node
  <2>2. From(t) <= v /\ v < i[t]
    BY <1>2, <2>1 DEF Complete, Rising, Inv, Owned
  <2>3. t \in Nat
    BY <2>1 DEF Threads
  <2> HIDE DEF t, v
  <2>4. t * K <= v /\ v < t * K + K /\ t * K \in Nat /\ t * K + K <= N * K
    BY <1>2, <2>1, <2>2, Products
  <2>5. K \in Nat \ {0} /\ v \in 0..N * K - 1
    BY <1>1, <2>1, <2>4
  <2>6. v \div K = t
    BY <2>1, <2>3, <2>4, <2>5, QuotientIs
  <2> QED
    BY <2>1, <2>5, <2>6 DEF t, v
<1>4. ASSUME NEW j \in 1..Len(order), NEW k \in 1..Len(order), order[j][2] = order[k][2]
      PROVE  j = k
  <2>1. order[j][1] = order[k][1] /\ order[j] \in Threads \X Nat /\ order[k] \in Threads \X Nat
    BY <1>3, <1>4 DEF Node
  <2>2. order[j] = order[k]
    BY <1>4, <2>1
  <2> QED
    BY <2>2 DEF Inv, ListIsOrder
<1>5. ASSUME NEW v \in 0..N * K - 1 PROVE \E j \in 1..Len(order) : order[j][2] = v
  <2>1. K \in Nat \ {0} /\ v \in Nat /\ v < N * K
    BY <1>1
  <2> DEFINE t == v \div K
  <2>2. t \in Nat /\ t * K <= v /\ v < t * K + K
    BY <2>1, Quotient
  <2> HIDE DEF t
  <2>3. t \in Threads
    <3> SUFFICES ASSUME ~(t <= N - 1) PROVE FALSE
      BY <1>1, <2>2 DEF Threads
    <3>1. t - N \in Nat
      BY <1>1, <2>2
    <3>2. (t - N) * K \in Nat /\ (t - N) * K = t * K - N * K /\ t * K \in Nat
      BY <1>1, <2>2, <3>1
    <3> QED
      BY <1>1, <2>1, <2>2, <3>2
  <2>4. v \in From(t)..i[t] - 1
    <3>1. From(t) = t * K /\ i[t] = t * K + K /\ t * K \in Nat
      BY <1>2, <2>3, Products
    <3> QED
      BY <1>1, <2>1, <2>2, <3>1
  <2>5. PICK j \in 1..Len(order) : order[j] = <<t, v>>
    BY <2>3, <2>4 DEF Inv, AllPushed
  <2> QED
    BY <2>5
<1> QED
  BY <1>3, <1>4, <1>5

LEMMA CompletePrintsAll == ASSUME NoWrap, Inv, Complete PROVE PrintsAll
<1> SUFFICES ASSUME main = "returned" PROVE PrintsAll
  BY DEF PrintsAll
<1> DEFINE len == Len(order)
<1>1. /\ Len(printed) = len /\ len \in Nat /\ freed = {head, end} \cup PushedFrom(1)
      /\ \A j \in 1..len : printed[j] = order[len + 1 - j][2]
  BY DEF Complete, AllFreed, Inv, WalkSafe, TypeOK
<1>2. freed = DOMAIN next
  <2>1. {New(t) : t \in {u \in Threads : pc[u] = "exchange"}} = {}
    BY DEF Inv, Phase
  <2> QED
    BY <1>1, <2>1 DEF Complete, Allocated
<1>3. len = N * K
  <2> DEFINE f == [j \in 1..len |-> order[j][2]]
  <2>1. f \in Bijection(1..len, 0..N * K - 1)
    <3>1. f \in [1..len -> 0..N * K - 1]
      BY PushedOnce
    <3>2. \A j, k \in 1..len : f[j] = f[k] => j = k
      BY PushedOnce
    <3>3. \A v \in 0..N * K - 1 : \E j \in 1..len : f[j] = v
      BY PushedOnce
    <3> HIDE DEF f
    <3> QED
      BY <3>1, <3>2, <3>3 DEF Bijection, Injection, Surjection, IsInjective
  <2>2. ExistsBijection(1..len, 0..N * K - 1)
    BY <2>1 DEF ExistsBijection
  <2>3. N * K \in Nat
    BY ArgsAssumption
  <2>4. IsFiniteSet(1..len) /\ Cardinality(1..len) = len
    <3>1. \A m \in Nat : IsFiniteSet(1..m) /\ Cardinality(1..m) = m
      BY FS_Interval
    <3> QED
      BY <1>1, <3>1
  <2>5. Cardinality(0..N * K - 1) = N * K
    BY <2>3, FS_Interval
  <2>6. Cardinality(0..N * K - 1) = Cardinality(1..len)
    BY <2>2, <2>4, FS_Bijection
  <2> QED
    BY <2>4, <2>5, <2>6
<1>4. ASSUME NEW v \in 0..N * K - 1 PROVE \E j \in 1..Len(printed) : printed[j] = v
  <2>1. PICK k \in 1..len : order[k][2] = v
    BY PushedOnce
  <2>2. len + 1 - k \in 1..len /\ len + 1 - (len + 1 - k) = k
    BY <1>1
  <2>3. printed[len + 1 - k] = order[k][2]
    BY <1>1, <2>2
  <2> QED
    BY <1>1, <2>1, <2>2, <2>3
<1>5. ASSUME NEW j \in 1..Len(printed), NEW k \in 1..Len(printed),
             j < k, printed[j] \div K = printed[k] \div K
      PROVE  printed[j] > printed[k]
  <2> DEFINE a == len + 1 - k
             b == len + 1 - j
  <2>1. a \in 1..len /\ b \in 1..len /\ a < b
    BY <1>1, <1>5
  <2>2. printed[j] = order[b][2] /\ printed[k] = order[a][2]
    BY <1>1
  <2> HIDE DEF a, b
  <2>3. order[a][1] = order[b][1]
    BY <1>5, <2>1, <2>2, PushedOnce
  <2>4. order[a][2] < order[b][2]
    BY <2>1, <2>3 DEF Complete, Rising
  <2>5. order[a][2] \in Int /\ order[b][2] \in Int
    BY <2>1, PushedOnce
  <2> QED
    BY <2>2, <2>4, <2>5
<1> QED
  BY <1>1, <1>2, <1>3, <1>4, <1>5 DEF PrintsAll

LEMMA CompleteAlways == NoWrap /\ Spec => []Complete
<1>1. NoWrap /\ Inv /\ Complete /\ [Next]_vars => Complete'
  BY AllocateComplete, ExchangeComplete, LinkComplete, ReturnComplete,
     MainComplete, StutterComplete DEF Next, Insert
<1>2. NoWrap /\ Init => Complete
  BY InitComplete
<1>3. CASE NoWrap
  <2>1. Inv /\ Complete /\ [Next]_vars => Complete'
    BY <1>1, <1>3
  <2>2. Init => Complete
    BY <1>2, <1>3
  <2> QED
    BY <2>1, <2>2, Inductive, PTL DEF Spec
<1>4. CASE ~NoWrap
  BY <1>4
<1> QED
  BY <1>3, <1>4

(* Each pushed element points to the one pushed before it, or its thread   *)
(* is about to make it do so, whatever the number of threads.              *)
THEOREM ListAlwaysWhole == Spec => []ListIsOrder
BY Inductive, PTL DEF Inv

(* A set of numbers that contains 0 and the successor of each is all.      *)
LEMMA Induction ==
  ASSUME NEW S, 0 \in S, \A k \in Nat : k \in S => k + 1 \in S
  PROVE  Nat \subseteq S
<1> SUFFICES ASSUME NEW top \in Nat, top \notin S PROVE FALSE
  OBVIOUS
<1> DEFINE X == S \cap 0..top
           up == [x \in X |-> x + 1]
<1>1. IsFiniteSet(X)
  <2>1. IsFiniteSet(0..top)
    BY FS_Interval
  <2> QED
    BY <2>1, FS_Intersection
<1>2. 0 \in X /\ \A x \in X : x + 1 \in X \ {0}
  OBVIOUS
<1>3. /\ IsFiniteSet(X \ {0}) /\ Cardinality(X) \in Nat
      /\ Cardinality(X \ {0}) = Cardinality(X) - 1
  <2> HIDE DEF X
  <2> QED
    BY <1>1, <1>2, FS_RemoveElement, FS_CardinalityType
<1>4. up \in [X -> X \ {0}]
  BY <1>2
<1>5. PICK x \in X, y \in X : x # y /\ up[x] = up[y]
  <2> HIDE DEF X, up
  <2>1. Cardinality(X \ {0}) < Cardinality(X)
    BY <1>3
  <2> QED
    BY <1>1, <1>3, <1>4, <2>1, FS_PigeonHole
<1> QED
  BY <1>5

(* Who follows the pointers from head comes to the newest push, and from   *)
(* each to the one before it.                                              *)
LEMMA ListReaches ==
  ASSUME TypeOK, ListIsOrder, NEW S \in SUBSET (DOMAIN next \cup {null}), HoldsList(S)
  PROVE  \A j \in 1..Len(order) : order[j] \in S
<1> DEFINE n == Len(order)
           Reached == {m \in Nat : m <= n => At(n - m) \in S}
<1>0. n \in Nat /\ order \in Seq(Node)
  BY DEF TypeOK
<1>1. 0 \in Reached
  <2>1. head \in (S \ {end}) \cap DOMAIN next /\ head \notin Pending
    BY Names, NewInNode DEF HoldsList, TypeOK, Pending
  <2>2. next[head] \in S
    BY <2>1 DEF HoldsList, Successor
  <2> QED
    BY <1>0, <2>2 DEF ListIsOrder
<1>2. ASSUME NEW m \in Nat, m \in Reached PROVE m + 1 \in Reached
  <2> SUFFICES ASSUME m + 1 <= n PROVE At(n - (m + 1)) \in S
    OBVIOUS
  <2> DEFINE j == n - m
  <2>1. j \in 1..n /\ n - (m + 1) = j - 1
    BY <1>0
  <2>2. At(j) \in S /\ At(j) = order[j] /\ order[j] \in Node
    BY <1>0, <1>2, <2>1 DEF At
  <2>3. order[j] \in (S \ {end}) \cap DOMAIN next
    BY <2>1, <2>2, Names DEF ListIsOrder
  <2>4. Successor(order[j]) \in S
    BY <2>3 DEF HoldsList
  <2>5. CASE order[j] \in Pending
    <3>1. PICK t \in Threads : pc[t] = "link" /\ order[j] = New(t)
      BY <2>5 DEF Pending
    <3>2. t = order[j][1] /\ old[t] = At(j - 1)
      BY <2>1, <3>1, NewParts DEF ListIsOrder
    <3> QED
      BY <2>1, <2>4, <2>5, <3>2 DEF Successor
  <2>6. CASE order[j] \notin Pending
    BY <2>1, <2>4, <2>6 DEF Successor, ListIsOrder
  <2> QED
    BY <2>5, <2>6
<1>3. Nat \subseteq Reached
  <2> HIDE DEF Reached
  <2> QED
    BY <1>1, <1>2, Induction
<1>4. ASSUME NEW j \in 1..n PROVE order[j] \in S
  <2>1. n - j \in Nat /\ n - (n - j) = j
    BY <1>0
  <2>2. At(j) \in S
    BY <1>0, <1>3, <2>1
  <2> QED
    BY <2>2 DEF At
<1> QED
  BY <1>4

(* Whoever follows the pointers from head, those about to be stored        *)
(* included, comes to every element a thread is done with.                 *)
THEOREM NoPushLost == Spec => []NothingLost
<1>1. Inv => NothingLost
  <2> SUFFICES ASSUME Inv, NEW S \in SUBSET (DOMAIN next \cup {null}), HoldsList(S),
                      NEW t \in Threads, NEW v \in From(t)..i[t] - 1
               PROVE  <<t, v>> \in S
    BY DEF NothingLost
  <2>1. \A j \in 1..Len(order) : order[j] \in S
    BY ListReaches DEF Inv
  <2>2. \E j \in 1..Len(order) : order[j] = <<t, v>>
    BY DEF Inv, AllPushed
  <2> QED
    BY <2>1, <2>2
<1> QED
  BY <1>1, Inductive, PTL

(* Main reads and frees live elements only, and prints newest first.       *)
THEOREM WalkNeverFaults == Spec => []WalkSafe
BY Inductive, PTL DEF Inv

(* As long as N * K fits into 32 bits, main prints every value once, those *)
(* of one thread in falling order, and frees every element.                *)
THEOREM AllPrintedOnce == NoWrap /\ Spec => []PrintsAll
<1>1. CASE NoWrap
  <2>1. Inv /\ Complete => PrintsAll
    BY <1>1, CompletePrintsAll
  <2>2. Spec => []Complete
    BY <1>1, CompleteAlways
  <2> QED
    BY <2>1, <2>2, Inductive, PTL
<1>2. CASE ~NoWrap
  BY <1>2
<1> QED
  BY <1>1, <1>2
=============================================================================
